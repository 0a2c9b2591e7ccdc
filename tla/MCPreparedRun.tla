--------------------------- MODULE MCPreparedRun ---------------------------
EXTENDS PreparedRun

\* A release with nothing special: a local chart, no values.
LOCAL Plain ==
  [ at |-> 1, chart |-> "c1", kind |-> "local", repo |-> "stable", chartYaml |-> TRUE,
    allowed |-> {1, 2}, wasAllowed |-> {1, 2}, flags |-> "none", verify |-> FALSE,
    patches |-> <<>>, fileDeps |-> FALSE, skipDeps |-> "unset", skipRefresh |-> "unset",
    desired |-> TRUE, values |-> <<>>, secrets |-> <<>>, handler |-> "unset",
    valsOK |-> TRUE, setsOK |-> TRUE, installed |-> TRUE, validateOnlyInstalled |-> FALSE,
    hasTests |-> TRUE ]
LOCAL Remote == [Plain EXCEPT !.kind = "repo"]
LOCAL Getter == [Plain EXCEPT !.kind = "getter"]
LOCAL Kustomize == [Plain EXCEPT !.chartYaml = FALSE]

LOCAL File == [kind |-> "file", paths |-> 1, renders |-> TRUE]
LOCAL Missing == [File EXCEPT !.paths = 0]
LOCAL Glob == [File EXCEPT !.paths = 2]
LOCAL Broken == [File EXCEPT !.renders = FALSE]
LOCAL Inline == [kind |-> "map", paths |-> 0, renders |-> TRUE]
LOCAL Odd == [kind |-> "other", paths |-> 0, renders |-> TRUE]
LOCAL Secret(e, ok) == [kind |-> e.kind, paths |-> e.paths, renders |-> e.renders, decrypts |-> ok]

LOCAL Patched == [Plain EXCEPT !.patches = <<File, Inline>>, !.values = <<File>>]

LOCAL WithValues ==
  { [Plain EXCEPT !.values = v] : v \in {<<Inline, File>>, <<File, Missing>>, <<Inline, Broken>>,
                                         <<File, Glob>>, <<Odd>>} }
  \cup { [Plain EXCEPT !.values = <<Missing, File>>, !.handler = h] : h \in {"Warn", "Error", "bad"} }
  \cup { [Plain EXCEPT !.values = <<File>>, !.secrets = s] :
           s \in { <<Secret(File, TRUE)>>, <<Secret(Inline, TRUE), Secret(File, FALSE)>>,
                   <<Secret(File, TRUE), Secret(Broken, TRUE)>> } }
  \cup { [Plain EXCEPT !.values = <<File>>, !.setsOK = FALSE],
         [Plain EXCEPT !.values = <<File>>, !.valsOK = FALSE],
         [Plain EXCEPT !.values = <<File>>, !.validateOnlyInstalled = TRUE],
         [Plain EXCEPT !.values = <<File>>, !.installed = FALSE],
         [Plain EXCEPT !.hasTests = FALSE], [Plain EXCEPT !.desired = FALSE] }

LOCAL Charts ==
  { Remote, Getter, Kustomize, Patched, [Plain EXCEPT !.skipDeps = "on"],
    [Plain EXCEPT !.skipRefresh = "on"], [Patched EXCEPT !.fileDeps = TRUE],
    [Patched EXCEPT !.patches = <<File, Broken>>], [Patched EXCEPT !.values = <<File, Broken>>],
    [Patched EXCEPT !.kind = "repo"], [Patched EXCEPT !.setsOK = FALSE] }

LOCAL Ask(cmd) ==
  [ cmd |-> cmd, parallel |-> FALSE, outputDir |-> FALSE, skipDeps |-> FALSE,
    skipRefresh |-> FALSE, defSkipDeps |-> FALSE, defSkipRefresh |-> FALSE,
    skipCleanup |-> FALSE, forceDownload |-> cmd \in {"lint", "unittest", "pull"},
    prefetch |-> cmd = "diff", needsUpdate |-> TRUE, handler |-> "Error",
    skipDiffOnInstall |-> FALSE, detailedExitcode |-> TRUE, failFast |-> FALSE,
    published |-> [stable |-> {1, 2}, incubator |-> {1}], hooks |-> <<>>, hooksDisabled |-> FALSE ]

\* what a run loads: nothing that matters
LOCAL F(ref, text) == [ref |-> ref, text |-> text]
LOCAL HasChart == "chart" :> F("none", 0)
LOCAL NoConfig == [ repositories |-> <<>>, commonLabels |-> NoFields, apiVersions |-> <<>>, single |-> NoFields,
                    templates |-> NoFields, defaultInherit |-> <<>>, ownContext |-> FALSE ]
LOCAL Trivial ==
  [ from |-> [getter |-> "local", url |-> "", cache |-> TRUE], defaultEnv |-> TRUE,
    inherited |-> NewEnvironment, hasParent |-> FALSE, file |-> NoValues, set |-> <<>>,
    parts |-> <<>>, release |-> [Blank EXCEPT !.single = HasChart], config |-> NoConfig,
    parent |-> NoConfig, inherits |-> {}, context |-> NoFields ]
LOCAL Loading(ask, rels, loads) ==
  [o \in DOMAIN ask \cup {"rel", "load"} |->
     CASE o = "rel" -> rels [] o = "load" -> loads [] OTHER -> ask[o]]
LOCAL With(ask, rels) == Loading(ask, rels, [r \in Runs |-> Trivial])
LOCAL Two(x, y) == <<1, "a">> :> x @@ <<1, "b">> :> [y EXCEPT !.at = 2]
LOCAL TwoRuns(x, y) == <<1, "a">> :> x @@ <<2, "b">> :> [y EXCEPT !.at = 2]

LOCAL Commands == {"diff", "template", "lint", "unittest", "write-values"}

\* every command with every kind of chart and of values, next to a plain release
LOCAL Each ==
  UNION { {With(Ask(c), Two(x, [Plain EXCEPT !.values = <<File>>])) : x \in WithValues \cup Charts}
          : c \in Commands }
LOCAL Others ==
  {With(Ask(c), Two(x, Plain)) : c \in {"pull", "build", "list"}, x \in Charts}
LOCAL Options ==
  { With(a, Two(x, Getter)) :
      a \in { [Ask("diff") EXCEPT !.skipDeps = TRUE], [Ask("diff") EXCEPT !.skipRefresh = TRUE],
              [Ask("diff") EXCEPT !.defSkipDeps = TRUE], [Ask("diff") EXCEPT !.defSkipRefresh = TRUE],
              [Ask("diff") EXCEPT !.needsUpdate = FALSE], [Ask("template") EXCEPT !.skipCleanup = TRUE],
              [Ask("pull") EXCEPT !.outputDir = TRUE],
              [Ask("diff") EXCEPT !.skipDiffOnInstall = TRUE, !.handler = "Warn"],
              [Ask("diff") EXCEPT !.detailedExitcode = FALSE, !.skipCleanup = TRUE] },
      x \in {Plain, [Patched EXCEPT !.installed = FALSE],
             [Plain EXCEPT !.values = <<Missing, File>>, !.skipDeps = "off"]} }
  \cup { With([Ask("unittest") EXCEPT !.failFast = TRUE], Two(x, Plain)) : x \in {Plain, CHOOSE v \in WithValues : v.valsOK = FALSE} }
\* releases that share a chart, and the versions a lock file pins them to
LOCAL Sharing ==
  { With(Ask("diff"), Two(Remote, y)) :
      y \in { Remote, [Remote EXCEPT !.flags = "devel"], [Remote EXCEPT !.verify = TRUE],
              [Remote EXCEPT !.allowed = {1}, !.wasAllowed = {1}],
              [Remote EXCEPT !.allowed = {1}], [Remote EXCEPT !.repo = "incubator"],
              [Remote EXCEPT !.allowed = {3}, !.wasAllowed = {1}] } }
LOCAL Files ==
  { With(Ask(c), TwoRuns(x, y)) : c \in {"diff", "lint"}, x \in {Remote, Patched}, y \in {Remote, Patched} }
  \cup { With([Ask("diff") EXCEPT !.parallel = TRUE], TwoRuns(Remote, Remote)),
         With([Ask("diff") EXCEPT !.parallel = TRUE], TwoRuns(Patched, Remote)),
         With([Ask("lint") EXCEPT !.parallel = TRUE], TwoRuns(Remote, [Remote EXCEPT !.chart = "c2"])) }

-----------------------------------------------------------------------------
\* What is loaded

LOCAL Own == [ defaults |-> NoValues, defines |-> "env", values |-> <<>>, secrets |-> <<>>,
               strategy |-> "", handler |-> "unset" ]
LOCAL Part0 == [requires |-> {}, layers |-> <<Own>>]
LOCAL Map(m) == [kind |-> "map", paths |-> 0, renders |-> TRUE, content |-> m]
LOCAL Yaml(m) == [Map(m) EXCEPT !.kind = "yaml", !.paths = 1]
LOCAL Hcl(h) == [Map(h) EXCEPT !.kind = "hcl", !.paths = 1]
LOCAL Encrypted(e, f, how) ==
  [kind |-> e.kind, paths |-> e.paths, renders |-> e.renders, content |-> e.content,
   file |-> f, decrypts |-> how]

LOCAL V1 == <<"a">> :> One({"1"}) @@ <<"m", "x">> :> One({"1"}) @@ <<"l">> :> Several(<<{"1"}, {"2"}>>)
LOCAL V2 == <<"a">> :> One({"2"}) @@ <<"m", "y">> :> One({"2"}) @@ <<"l">> :> Several(<<{"3"}>>)
LOCAL V3 == <<"m">> :> One({"3"}) @@ <<"b">> :> One({"3"})
LOCAL V4 == <<"a">> :> Null @@ <<"m", "z">> :> One({"4"})
LOCAL Vs == {V1, V2, V3}

LOCAL Def(tag, refs, local) == [tag |-> tag, refs |-> refs, local |-> local]
LOCAL NoLocals == [n \in {} |-> Def("", {}, FALSE)]
LOCAL H1 == [locals |-> "l" :> Def("l1", {"k"}, FALSE) @@ "k" :> Def("k1", {}, FALSE),
             values |-> "a" :> Def("h1a", {}, TRUE) @@ "c" :> Def("h1c", {"a"}, FALSE)]
LOCAL H2 == [locals |-> "l" :> Def("l2", {}, FALSE), values |-> "a" :> Def("h2a", {"d"}, TRUE) @@ "d" :> Def("h2d", {}, FALSE)]
LOCAL Cyclic == [locals |-> NoLocals, values |-> "d" :> Def("h3", {"c"}, FALSE)]
LOCAL Undefined1 == [locals |-> NoLocals, values |-> "a" :> Def("h4", {"nowhere"}, FALSE)]
LOCAL NoLocal == [locals |-> NoLocals, values |-> "a" :> Def("h5", {}, TRUE)]

\* one part, with a base
LOCAL OnePart(base, own) == [Trivial EXCEPT !.parts = <<[Part0 EXCEPT !.layers = <<base, own>>]>>]
LOCAL Bases ==
  { OnePart([Own EXCEPT !.defaults = d, !.values = <<Map(x), Yaml(y)>>, !.strategy = s],
            [Own EXCEPT !.values = <<Yaml(z)>>, !.strategy = t]) :
      d \in {V3}, x \in {V1, V2}, y \in {V1, V2}, z \in {V2, V3}, s \in {"", "fallback"}, t \in {"", "override"} }
  \cup { OnePart([Own EXCEPT !.values = <<Yaml(x)>>], [Own EXCEPT !.values = <<Yaml(y), Map(V1)>>, !.strategy = "fallback"]) :
           x \in {V1, V2}, y \in {V2, V4} }
  \cup { OnePart(Own, [Own EXCEPT !.strategy = "newest"]) }
LOCAL HclFiles ==
  { OnePart([Own EXCEPT !.values = <<Hcl(x), Yaml(V2)>>, !.strategy = s], [Own EXCEPT !.values = <<Hcl(y)>>]) :
      x \in {H1, H2}, y \in {H1, H2, Cyclic, Undefined1, NoLocal}, s \in {"", "fallback"} }
LOCAL MissingValues ==
  { OnePart([Own EXCEPT !.values = <<[Yaml(V1) EXCEPT !.paths = 0], Map(V2)>>, !.handler = h], Own) :
      h \in {"unset", "Warn", "Error"} }
  \cup { OnePart([Own EXCEPT !.defines = "others"], [Own EXCEPT !.values = <<e>>]) :
           e \in {[Map(V1) EXCEPT !.kind = "other"], [Yaml(V1) EXCEPT !.renders = FALSE], Yaml(V1)} }

\* several parts; the command line; values of a parent
LOCAL Ps(d, x) == [Part0 EXCEPT !.layers = <<[Own EXCEPT !.defaults = d, !.values = <<Yaml(x)>>]>>]
LOCAL Sets == { <<>>, << <<<<"l">>, 2, {"s"}>>, <<<<"a">>, 0, {"s"}>> >>, << <<<<"l">>, 3, {"s"}>>, <<<<"m", "x">>, 0, {"s"}>> >>,
                << <<<<"l">>, 1, {"s"}>>, <<<<"l">>, 2, {"t"}>> >> }
\* (a scalar in the place of a map is the lowest or the highest of them)
LOCAL Parts ==
  { [Trivial EXCEPT !.parts = <<Ps(d, x), [Ps(NoValues, y) EXCEPT !.requires = q]>>, !.set = t] :
      d \in {V2, V3}, x \in {V1, V2}, y \in Vs, q \in {{<<"a">>}}, t \in Sets }
  \cup { [Trivial EXCEPT !.parts = <<Ps(V1, x), Ps(V2, y), Ps(d, V3)>>, !.inherited = e, !.hasParent = TRUE] :
           x \in {V1, V2}, y \in {V1, V2}, d \in {V1, V2}, e \in {[NewEnvironment EXCEPT !.defaults = V3, !.values = V1]} }
  \cup { [Trivial EXCEPT !.parts = <<Ps(V3, x), [Part0 EXCEPT !.layers = <<[Own EXCEPT !.defines = "none"]>>]>>, !.file = V2, !.set = t] :
           x \in {V1}, t \in Sets }
LOCAL Names1 ==
  { [Trivial EXCEPT !.defaultEnv = FALSE, !.hasParent = b,
       !.parts = <<[Part0 EXCEPT !.layers[1].defines = x], [Part0 EXCEPT !.layers[1].defines = y]>>] :
      b \in BOOLEAN, x \in {"env", "others", "none"}, y \in {"env", "others", "none"} }

\* secrets
LOCAL S(f, how) == Encrypted(Yaml(IF f = "f1" THEN V2 ELSE V3), f, how)
LOCAL SecretLoad(secrets) ==
  [Trivial EXCEPT !.parts = <<[Part0 EXCEPT !.layers = <<[Own EXCEPT !.values = <<Yaml(V1), Hcl(H2)>>, !.secrets = secrets]>>]>>]
LOCAL Secrets ==
  { SecretLoad(<<S("f1", x), S("f2", y)>>) : x \in {"yes", "no"}, y \in {"yes", "wrapped"} }
  \cup { SecretLoad(<<Encrypted(Hcl(H1), "f3", "yes"), S("f1", x)>>) : x \in {"yes", "no"} }
  \cup { SecretLoad(<<S("f2", "yes"), [S("f1", "yes") EXCEPT !.renders = FALSE]>>),
         SecretLoad(<<S("f2", "yes"), [S("f1", "yes") EXCEPT !.paths = 0]>>),
         SecretLoad(<<S("f1", "wrapped"), S("f1", "wrapped")>>),
         [SecretLoad(<<S("f2", "yes"), [S("f1", "yes") EXCEPT !.paths = 0]>>) EXCEPT !.parts[1].layers[1].handler = "Info"],
         [Trivial EXCEPT !.parts = <<SecretLoad(<<S("f1", "yes"), S("f2", "yes")>>).parts[1],
                                     SecretLoad(<<S("f2", "yes"), Encrypted(Hcl(H1), "f3", "yes")>>).parts[1]>>] }

\* the templates of a release
LOCAL Chain == <<"chart", "name", "namespace", "version", "labels", "missingFileHandler", "kubeContext">>
LOCAL Chained(n, last) ==
  [f \in {Chain[i] : i \in 1..n} |->
     LET i == CHOOSE i \in 1..n : Chain[i] = f
     IN  IF i = n THEN last ELSE F(Chain[i + 1], 1)]
LOCAL Fields ==
  {[Trivial EXCEPT !.release.single = Chained(n, F("none", 0))] : n \in 1..7}
  \cup {[Trivial EXCEPT !.release.single = Chained(n, F(f, t))] : n \in 2..3, f \in {"chart", "name"}, t \in {0, 1}}

\* what a release inherits, and a file from its parent
LOCAL Inherit(t) == [template |-> t, except |-> {}]
LOCAL T(fs, l, vs, inherit) ==
  [Blank EXCEPT !.single = fs, !.labels = l, !.lists["values"] = vs, !.inherit = inherit]
LOCAL T1 == T("chart" :> F("none", 1) @@ "version" :> F("name", 1), "app" :> 1 @@ "tier" :> 1, <<"t1">>, <<>>)
LOCAL T2 == T("version" :> F("none", 2), "app" :> 2, <<"t2">>, <<Inherit("t1")>>)
LOCAL T3 == T(NoFields, NoFields, <<>>, <<Inherit("t4")>>)
LOCAL T4 == T(HasChart, NoFields, <<"t4">>, <<Inherit("t3")>>)
LOCAL Templates1 == "t1" :> T1 @@ "t2" :> T2
LOCAL Cycle == "t1" :> T1 @@ "t3" :> T3 @@ "t4" :> T4
LOCAL Rel1(inherit) == T("name" :> F("none", 3), "app" :> 3, <<"own">>, inherit)
LOCAL Filed(rel, config) == [Trivial EXCEPT !.release = rel, !.config = config]
LOCAL Own1 == [NoConfig EXCEPT !.templates = Templates1, !.commonLabels = "tier" :> 5,
                               !.single = "kubeContext" :> F("none", 5), !.apiVersions = <<"v1">>]
LOCAL Parent1 == [Own1 EXCEPT !.templates = "t1" :> T2 @@ "t3" :> T(HasChart, NoFields, <<"p">>, <<>>),
                              !.commonLabels = "tier" :> 6 @@ "team" :> 6, !.apiVersions = <<"v0", "v1">>,
                              !.single = "kubeContext" :> F("none", 6) @@ "kubeVersion" :> F("none", 6),
                              !.repositories = << [name |-> "stable", url |-> "p"], [name |-> "more", url |-> "p"] >>]
LOCAL Keys1 == {"repositories", "helmDefaults", "commonLabels", "apiVersions", "kubeVersion", "templates"}
LOCAL Inheriting ==
  { Filed(Rel1(i), [Own1 EXCEPT !.defaultInherit = d]) :
      i \in { <<>>, <<Inherit("t1")>>, <<Inherit("t2"), Inherit("t1")>>, <<Inherit("t1"), Inherit("t3")>>,
              <<[template |-> "t2", except |-> {"labels"}]>>, <<[template |-> "t2", except |-> {"values"}]>>,
              <<[template |-> "t1", except |-> {"chart"}]>> },
      d \in { <<>>, <<"t2">>, <<"t1", "", "t1", "t2">> } }
  \cup { Filed(Rel1(<<Inherit("t1"), Inherit("")>>), Own1),
         Filed([Rel1(<<Inherit(""), Inherit("t3")>>) EXCEPT !.single = HasChart], Own1),
         Filed(Rel1(<<Inherit("t1"), Inherit("")>>), [Own1 EXCEPT !.defaultInherit = <<"t2">>]) }
  \cup { Filed(Rel1(i), [Own1 EXCEPT !.templates = Cycle]) : i \in { <<Inherit("t3")>>, <<Inherit("t1")>> } }
LOCAL Nested ==
  { [Filed(Rel1(<<Inherit(t)>>), Own1) EXCEPT !.parent = Parent1, !.hasParent = TRUE, !.inherits = k] :
      t \in {"t1", "t2", "t3"}, k \in {{}, Keys1} \cup {{x} : x \in Keys1} }
  \cup { [Filed(Rel1(<<Inherit("t1")>>), [NoConfig EXCEPT !.templates = Templates1, !.ownContext = b])
            EXCEPT !.context = c, !.parent = Parent1, !.hasParent = TRUE, !.inherits = Keys1] :
            b \in BOOLEAN, c \in {NoFields, "kubeContext" :> F("none", 7)} }

\* where it comes from: two files one after the other, of one URL or of two
LOCAL At2(g, u, c) == [Trivial EXCEPT !.from = [getter |-> g, url |-> u, cache |-> c]]
LOCAL Fetched2 ==
  { Loading(Ask("list"), <<1, "a">> :> Plain, 1 :> At2(g, "u", c) @@ 2 :> At2(g, v, d)) :
      g \in {"http", "s3", "go"}, v \in {"u", "v"}, c \in BOOLEAN, d \in BOOLEAN }
  \cup { Loading([Ask("list") EXCEPT !.parallel = TRUE], <<1, "a">> :> Plain, 1 :> At2(g, "u", TRUE) @@ 2 :> At2(h, "v", TRUE)) :
      g \in {"http", "go"}, h \in {"s3"} }

\* global hooks
LOCAL Hook(events, ok) == [events |-> events, ok |-> ok]
LOCAL Hooked ==
  { With([Ask(c) EXCEPT !.hooks = h, !.hooksDisabled = b], Two(Plain, [Plain EXCEPT !.values = <<File>>])) :
      c \in {"diff", "list"}, b \in BOOLEAN,
      h \in { << Hook({"prepare", "cleanup"}, TRUE), Hook({"cleanup"}, FALSE) >>,
              << Hook({"prepare"}, FALSE), Hook({"prepare", "cleanup"}, TRUE) >> } }

LOCAL Loads == Bases \cup HclFiles \cup MissingValues \cup Parts \cup Names1 \cup Secrets \cup Fields
               \cup Inheriting \cup Nested
LOCAL OneRelease == <<1, "a">> :> Plain
\* one state file; two that share what was decrypted, with two parts that do
LOCAL Loadings ==
  { Loading(Ask("list"), OneRelease, [r \in Runs |-> IF r = 1 THEN l ELSE Trivial]) : l \in Loads }
  \cup { Loading([Ask("list") EXCEPT !.parallel = TRUE], OneRelease, [r \in Runs |-> SecretLoad(s)]) :
           s \in {<<S("f1", "yes")>>, <<S("f1", "yes"), S("f2", "no")>>,
                  <<Encrypted(Hcl(H1), "f3", "yes")>>} }

MCSetups == Each \cup Others \cup Options \cup Sharing \cup Files \cup Loadings \cup Fetched2 \cup Hooked
\* the values of a --state-values-file, with an environment that has them as well
MCOverridden ==
  { Loading(Ask("list"), OneRelease, [r \in Runs |-> [OnePart(Own, [Own EXCEPT !.values = <<Yaml(V1)>>]) EXCEPT !.file = V2]]) }
=============================================================================
