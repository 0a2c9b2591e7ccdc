-------------------------- MODULE ReleaseTemplates --------------------------
(***************************************************************************)
(* What a release is made of: its own fields, those of the release         *)
(* templates it inherits, directly or through other templates, and those of*)
(* its state file, which a nested state file may have from its parent.     *)
(*                                                                         *)
(* A release or template is [single, labels, lists, inherit]: its fields of*)
(* one value and its labels, by name; its lists, of "values" and           *)
(* "apiVersions"; and what it inherits, a sequence of [template, except].  *)
(* The fields of a state file are [repositories, commonLabels, apiVersions,*)
(* single, templates, defaultInherit]; `single` has its kubeContext and its*)
(* kubeVersion, if they are set.                                           *)
(***************************************************************************)
EXTENDS Naturals, Sequences, FiniteSets, SequencesExt, FiniteSetsExt

Excludable == {"labels", "values"}
\* what is set in src goes before what dst has
Over(dst, src) ==
  [f \in DOMAIN src \cup DOMAIN dst |-> IF f \in DOMAIN src THEN src[f] ELSE dst[f]]
\* mergo.Merge with appended slices, which also overrides
Join(dst, src) ==
  [dst EXCEPT !.single = Over(@, src.single), !.labels = Over(@, src.labels),
              !.lists = [l \in DOMAIN @ |-> @[l] \o src.lists[l]]]
NoFields == [f \in {} |-> {}]
Blank == [single |-> NoFields, labels |-> NoFields,
          lists |-> [l \in {"values", "apiVersions"} |-> <<>>], inherit |-> <<>>]
Without(rel, except) ==
  [rel EXCEPT !.labels = IF "labels" \in except THEN NoFields ELSE @,
              !.lists["values"] = IF "values" \in except THEN <<>> ELSE @]

\* applyDefaultInherit: the defaults go first, without those the release names
ApplyDefaultInherit(defaults, inherit) ==
  IF defaults = <<>> THEN inherit
  ELSE LET own == SelectSeq(inherit, LAMBDA i : i.template # "")
           named == {own[k].template : k \in DOMAIN own}
           added(acc, name) ==
             IF name \in named \cup {""} \/ \E k \in DOMAIN acc : acc[k].template = name
             THEN acc ELSE Append(acc, [template |-> name, except |-> {}])
       IN  FoldLeft(added, <<>>, defaults) \o own

\* releaseWithInheritedTemplate: a name that is blank ends it with what the
\* release has itself; unknown templates, exclusions and cycles are errors
Followed(inherit) ==
  LET blanks == {k \in DOMAIN inherit : inherit[k].template = ""}
  IN  SubSeq(inherit, 1, Min(blanks \cup {Len(inherit) + 1}) - 1)
Inheritable(rel, known) ==
  \A i \in DOMAIN Followed(rel.inherit) :
    rel.inherit[i].template \in DOMAIN known /\ rel.inherit[i].except \subseteq Excludable
Inherited(rel, known) ==
  IF Followed(rel.inherit) # rel.inherit THEN rel
  ELSE Join(FoldLeft(LAMBDA acc, i : Join(acc, Without(known[i.template], i.except)),
                     Blank, rel.inherit), rel)
\* what the templates come to, of those that can be followed to their end
Templates(templates) ==
  LET after[k \in 0..Cardinality(DOMAIN templates)] ==
        IF k = 0 THEN NoFields
        ELSE [n \in {m \in DOMAIN templates : Inheritable(templates[m], after[k - 1])} |->
                Inherited(templates[n], after[k - 1])]
  IN  after[Cardinality(DOMAIN templates)]

\* BuildInheritedConfig, MergeInherited: the nested file wins, its parent fills
\* the gaps
BuildInheritedConfig(parent, want) ==
  [ repositories |-> IF "repositories" \in want THEN parent.repositories ELSE <<>>,
    commonLabels |-> IF "commonLabels" \in want THEN parent.commonLabels ELSE NoFields,
    apiVersions |-> IF "apiVersions" \in want THEN parent.apiVersions ELSE <<>>,
    single |-> [f \in {g \in DOMAIN parent.single :
                         (IF g = "kubeContext" THEN "helmDefaults" ELSE g) \in want} |-> parent.single[f]],
    templates |-> IF "templates" \in want THEN parent.templates ELSE NoFields ]
\* dedupReposByName: the last entry of a name
DedupReposByName(repos) ==
  FoldRight(LAMBDA r, acc : IF \E i \in DOMAIN acc : acc[i].name = r.name THEN acc ELSE <<r>> \o acc,
            repos, <<>>)
\* dedupStrings: the first
DedupStrings(strings) ==
  FoldLeft(LAMBDA acc, s : IF Contains(acc, s) THEN acc ELSE Append(acc, s), <<>>, strings)
MergeInherited(own, in) ==
  [own EXCEPT !.repositories = IF in.repositories = <<>> THEN @ ELSE DedupReposByName(in.repositories \o @),
              !.apiVersions = IF in.apiVersions = <<>> THEN @ ELSE DedupStrings(in.apiVersions \o @),
              !.commonLabels = Over(in.commonLabels, @),
              !.templates = Over(in.templates, @), !.single = Over(in.single, @)]

\* ExecuteTemplates: what the state file adds to a release; its common labels
\* go before those of the release
Completed(rel, cfg) ==
  [rel EXCEPT !.inherit = <<>>, !.single = Over(cfg.single, @),
              !.labels = Over(@, cfg.commonLabels),
              !.lists["apiVersions"] = IF @ = <<>> THEN cfg.apiVersions ELSE @]
WithDefaults(rel, cfg) ==
  [rel EXCEPT !.inherit = ApplyDefaultInherit(cfg.defaultInherit, @)]
\* a release without a chart is refused
Assembles(rel, cfg) ==
  /\ Inheritable(WithDefaults(rel, cfg), Templates(cfg.templates))
  /\ "chart" \in DOMAIN Inherited(WithDefaults(rel, cfg), Templates(cfg.templates)).single
Assembled(rel, cfg) ==
  Completed(Inherited(WithDefaults(rel, cfg), Templates(cfg.templates)), cfg)

-----------------------------------------------------------------------------
\* What is to be expected.  From the least to the most important: the defaults
\* and what is inherited in their order, each after what it inherits itself, and
\* the release; of the state files, the parent is the less important.

Sources(rel, templates) ==
  LET own(n) == <<[n EXCEPT !.inherit = <<>>]>>
      inherited(inherit, below) ==
        FlattenSeq([i \in DOMAIN inherit |->
           LET t == below[inherit[i].template]
           IN  [k \in DOMAIN t |-> Without(t[k], inherit[i].except)]])
      down[k \in 0..Cardinality(DOMAIN templates)] ==
        [t \in DOMAIN templates |->
           (IF k = 0 THEN <<>> ELSE inherited(templates[t].inherit, down[k - 1])) \o own(templates[t])]
  IN  inherited(rel.inherit, down[Cardinality(DOMAIN templates)]) \o own(rel)
LastWith(sources, f) ==
  LET with == {i \in DOMAIN sources : f \in DOMAIN sources[i]} IN sources[Max(with)][f]
Declared(rel, defaults, files) ==
  LET templates == [t \in UNION {DOMAIN files[i].templates : i \in DOMAIN files} |->
                      LastWith([i \in DOMAIN files |-> files[i].templates], t)]
      named == {rel.inherit[i].template : i \in DOMAIN rel.inherit}
      first == SelectSeq(DedupStrings(defaults), LAMBDA d : d \notin named \cup {""})
      inherit == IF "" \in named /\ defaults = <<>> THEN <<>>
                 ELSE [i \in DOMAIN first |-> [template |-> first[i], except |-> {}]]
                      \o SelectSeq(rel.inherit, LAMBDA i : i.template # "")
      sources == Sources([rel EXCEPT !.inherit = inherit], templates)
      of(all) ==
        [f \in UNION {DOMAIN all[i] : i \in DOMAIN all} |-> LastWith(all, f)]
      below == [i \in DOMAIN files |-> files[i].single]
      lists(l) == FlattenSeq([i \in DOMAIN sources |-> sources[i].lists[l]])
  IN  [ single |-> of(below \o [i \in DOMAIN sources |-> sources[i].single]),
        labels |-> of([i \in DOMAIN sources |-> sources[i].labels]
                                \o [i \in DOMAIN files |-> files[i].commonLabels]),
        lists |-> [l \in {"values", "apiVersions"} |->
                     IF l = "apiVersions" /\ lists(l) = <<>>
                     THEN DedupStrings(FlattenSeq([i \in DOMAIN files |-> files[i].apiVersions]))
                     ELSE lists(l)],
        inherit |-> <<>> ]
=============================================================================
