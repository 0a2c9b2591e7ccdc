---------------------------- MODULE StateLoading ----------------------------
(***************************************************************************)
(* Before anything is prepared, a state file is loaded: its parts one after*)
(* the other, each rendered with the values of the parts before it, with   *)
(* its bases, its values, and the secrets of the environment, which are    *)
(* decrypted by concurrent workers.  State files that are handled at the   *)
(* same time share what helm-secrets has decrypted.                        *)
(*                                                                         *)
(* setup.load[r] is what run r loads: [from, defaultEnv, inherited,        *)
(* hasParent, file, set, parts, release, config, parent, inherits,         *)
(* context].  A part is [requires, layers], the paths its template reads   *)
(* and its bases followed by itself.  A layer is [defaults, defines,       *)
(* values, secrets, strategy, handler]; it defines the environment ("env"),*)
(* only others ("others") or "none".  Of a release, a field is [ref, text]:*)
(* its template is some text and a reference to another field, or "none".  *)
(***************************************************************************)
EXTENDS RemoteFiles, ReleaseTemplates, ValueMaps, HCLValues

VARIABLES
  part,        \* the part a run loads
  env,         \* the environment loaded so far
  rendered,    \* RenderedValues
  defined,     \* which environments the parts so far define
  dec,         \* how far the worker of each secrets file is
  keeper,      \* decryptedFilesKeeper: the decrypted HCL files, as appended
  copied,      \* what a worker that appends to it has read
  decrypted,   \* decryptedSecrets, of the helm executor: by file
  assembled,   \* the release with what it inherits, before its templates are executed
  fields       \* its fields, after that

loadVars == <<part, env, rendered, defined, dec, keeper, copied, decrypted, assembled, fields>>
unchangedRest == <<unchangedByLoading, remotes, assembled, fields>>

Part(r) == Load(r).parts[part[r]]
\* the files of a helmfile.d that do not have the environment are skipped
LoadSkips(r) == Go(r, "done")

-----------------------------------------------------------------------------
\* The specification of the environment in one part

\* mergeEnvironments: a later layer goes before an earlier one, also where the
\* first of several files wins
MergeSpecs(dst, src) ==
  IF src.defines # "env" THEN dst ELSE IF dst.defines # "env" THEN src
  ELSE LET strategy == IF src.strategy # "" THEN src.strategy ELSE dst.strategy
       IN  [src EXCEPT !.strategy = strategy,
                       !.handler = IF src.handler # "unset" THEN src.handler ELSE dst.handler,
                       !.secrets = dst.secrets \o src.secrets,
                       !.values = IF strategy = "fallback" THEN src.values \o dst.values
                                  ELSE dst.values \o src.values]
NoSpec == [defines |-> "none", values |-> <<>>, secrets |-> <<>>, strategy |-> "", handler |-> "unset"]
Spec1(p) == FoldLeft(MergeSpecs, NoSpec, p.layers)
\* the files of the secrets that exist; a pattern without a match is an error
\* or not by the handler of the environment, else that of the state file
SecretFiles(p) == SelectSeq(Spec1(p).secrets, LAMBDA s : s.paths > 0)
SecretsHandler(p) == IF Spec1(p).handler # "unset" THEN Spec1(p).handler ELSE setup.handler
SecretsResolve(p) ==
  \A i \in DOMAIN Spec1(p).secrets :
    ResolveFile(SecretsHandler(p), Spec1(p).secrets[i].paths) # "error"

\* mapMerge
MapMerge(dest, m, strategy) ==
  IF strategy = "fallback" THEN MergeMaps(m, dest, "sparse") ELSE Overridden(dest, m)

\* LoadEnvironmentValues: HCL files are evaluated together, after the others
AsValues(h) == [p \in {<<n>> : n \in DOMAIN h} |-> One(h[p[1]])]
LoadEnvironmentValues(entries, handler, strategy) ==
  LET used == SelectSeq(entries, LAMBDA e : e.paths > 0 \/ e.kind = "map")
      yaml == SelectSeq(used, LAMBDA e : e.kind # "hcl")
      hclFiles == SelectSeq(used, LAMBDA e : e.kind = "hcl")
      hcl == HCLRender([i \in DOMAIN hclFiles |-> hclFiles[i].content])
      merged == FoldLeft(LAMBDA m, e : MapMerge(m, e.content, strategy), NoValues, yaml)
      usable(e) == /\ e.kind \in {"yaml", "hcl", "map"} /\ e.renders
                   /\ e.kind = "map" \/ ResolveFile(handler, e.paths) # "error"
  IN  [ok |-> /\ strategy \in {"", "override", "fallback"} /\ hcl.ok
              /\ \A i \in DOMAIN entries : usable(entries[i]),
       values |-> IF hclFiles = <<>> THEN merged ELSE MapMerge(merged, AsValues(hcl.values), strategy)]

\* what the command line says, and the values of a nested state file
Overrides(r) == [NewEnvironment EXCEPT !.values = Load(r).file, !.cli = SetValues(Load(r).set)]
Context(r) == MergeEnvironment(env[r], Overrides(r))
HasEnv(r) == Load(r).hasParent \/ Load(r).file # NoValues \/ Load(r).set # <<>>

\* a base is loaded like a state file before it is merged, so that its secrets
\* and values must do on their own, without a handler of the file it is a base of
BaseLoads(base) ==
  LET spec == MergeSpecs(NoSpec, base)
      there == SelectSeq(spec.secrets, LAMBDA s : s.paths > 0 /\ s.kind = "hcl")
  IN  /\ \A i \in DOMAIN spec.secrets :
           ResolveFile(spec.handler, spec.secrets[i].paths) # "error"
      /\ LoadEnvironmentValues(there \o spec.values, spec.handler, spec.strategy).ok
BasesOf(p) == {p.layers[i] : i \in 1..(Len(p.layers) - 1)}

-----------------------------------------------------------------------------
\* A part is read and rendered; the template of the part sees the context

BeginPart(r) ==
  /\ pc[r] = "load" /\ part[r] <= Len(Load(r).parts)
  /\ \/ /\ Part(r).requires \subseteq DOMAIN GetMergedValues(Context(r))
        /\ SecretsResolve(Part(r)) /\ \A base \in BasesOf(Part(r)) : BaseLoads(base)
        /\ Go(r, "decrypt")
        /\ dec' = [dec EXCEPT ![r] = [i \in DOMAIN SecretFiles(Part(r)) |-> "todo"]]
        /\ keeper' = [keeper EXCEPT ![r] = <<>>]
        /\ copied' = [copied EXCEPT ![r] = [i \in DOMAIN SecretFiles(Part(r)) |-> <<>>]]
     \/ LoadFails(r) /\ UNCHANGED <<dec, keeper, copied>>
  /\ UNCHANGED <<unchangedRest, files, part, env, rendered, defined, decrypted>>

\* a worker and its secrets file
At1(r, s, where) == pc[r] = "decrypt" /\ s \in DOMAIN dec[r] /\ dec[r][s] = where
SecretOf(r, s) == SecretFiles(Part(r))[s]
PlainFile(r, s) == <<<<<<<<r, "env">>, "env">>, "env">>, s>>
To(r, s, where) == dec' = [dec EXCEPT ![r][s] = where]
unchangedLoad == <<unchangedRest, pc, reported, part, env, rendered, defined>>

\* DecryptSecret: the first to ask decrypts, others wait for what it finds
Decrypt(r, s) ==
  /\ At1(r, s, "todo") /\ decrypted[SecretOf(r, s).file] = "absent"
  /\ decrypted' = [decrypted EXCEPT ![SecretOf(r, s).file] = "busy"]
  /\ To(r, s, "decrypting") /\ UNCHANGED <<unchangedLoad, files, keeper, copied>>
\* helm-secrets before version 4 wraps what is not YAML, and if that cannot be
\* undone the entry is left as it was made, without an error
DecryptDone(r, s) ==
  LET secret == SecretOf(r, s)
      entry(e) == decrypted' = [decrypted EXCEPT ![secret.file] = e]
  IN  /\ At1(r, s, "decrypting")
      /\ \/ /\ secret.decrypts = "yes" /\ entry("bytes") /\ To(r, s, "written")
            /\ files' = files \cup {PlainFile(r, s)}
         \/ secret.decrypts = "no" /\ entry("error") /\ To(r, s, "failed") /\ UNCHANGED files
         \/ secret.decrypts = "wrapped" /\ entry("none") /\ To(r, s, "failed") /\ UNCHANGED files
      /\ UNCHANGED <<unchangedLoad, keeper, copied>>
DecryptCached(r, s) ==
  /\ At1(r, s, "todo") /\ decrypted[SecretOf(r, s).file] \in {"bytes", "error", "none"}
  /\ CASE decrypted[SecretOf(r, s).file] = "error" -> To(r, s, "failed") /\ UNCHANGED files
       [] decrypted[SecretOf(r, s).file] = "none" -> To(r, s, "empty") /\ files' = files \cup {PlainFile(r, s)}
       [] OTHER -> To(r, s, "written") /\ files' = files \cup {PlainFile(r, s)}
  /\ UNCHANGED <<unchangedLoad, keeper, copied, decrypted>>

\* the worker appends to a slice all workers share, without a lock, and looks
\* in it for its own file
Append1(r, s) ==
  /\ At1(r, s, "written") /\ SecretOf(r, s).kind = "hcl"
  /\ copied' = [copied EXCEPT ![r][s] = keeper[r]]
  /\ To(r, s, "appending") /\ UNCHANGED <<unchangedLoad, files, keeper, decrypted>>
Append2(r, s) ==
  /\ At1(r, s, "appending")
  /\ keeper' = [keeper EXCEPT ![r] = Append(copied[r][s], s)]
  /\ To(r, s, "appended") /\ UNCHANGED <<unchangedLoad, files, copied, decrypted>>
Look(r, s) ==
  /\ At1(r, s, "appended")
  /\ To(r, s, IF Contains(keeper[r], s) THEN "result" ELSE "no result")
  /\ UNCHANGED <<unchangedLoad, files, keeper, copied, decrypted>>
Parse(r, s) ==
  /\ At1(r, s, "written") /\ SecretOf(r, s).kind # "hcl"
  /\ To(r, s, IF SecretOf(r, s).renders THEN "result" ELSE "no result")
  /\ UNCHANGED <<unchangedLoad, files, keeper, copied, decrypted>>
ParseEmpty(r, s) ==
  /\ At1(r, s, "empty") /\ To(r, s, "empty result")
  /\ UNCHANGED <<unchangedLoad, files, keeper, copied, decrypted>>
\* the deferred removal of what is not kept
Discard(r, s) ==
  /\ \/ At1(r, s, "result") /\ To(r, s, "done")
     \/ At1(r, s, "empty result") /\ To(r, s, "done empty")
     \/ At1(r, s, "no result") /\ To(r, s, "failed")
  /\ files' = files \ (IF Contains(keeper[r], s) THEN {} ELSE {PlainFile(r, s)})
  /\ UNCHANGED <<unchangedLoad, keeper, copied, decrypted>>

Worker1(r, s) ==
  \/ Decrypt(r, s) \/ DecryptDone(r, s) \/ DecryptCached(r, s) \/ Append1(r, s) \/ Append2(r, s)
  \/ Look(r, s) \/ Parse(r, s) \/ ParseEmpty(r, s) \/ Discard(r, s)

-----------------------------------------------------------------------------
\* The workers have returned: the part is put together

\* secrets of YAML in the order of their files, whatever the order they came in
SecretValues1(r) ==
  FoldLeft(Overridden, NoValues,
    [i \in DOMAIN SecretFiles(Part(r)) |->
       IF SecretOf(r, i).kind = "hcl" \/ dec[r][i] # "done" THEN NoValues ELSE SecretOf(r, i).content])
\* the HCL secrets go before the other values
LoadEnvValues(r) ==
  LET spec == Spec1(Part(r))
      kept == [i \in DOMAIN keeper[r] |-> SecretOf(r, keeper[r][i])]
      loaded == LoadEnvironmentValues(kept \o spec.values, spec.handler, spec.strategy)
  IN  [loaded EXCEPT !.values = Overridden(@, SecretValues1(r))]
DefaultValues(r) ==
  FoldLeft(LAMBDA m, l : Overridden(m, l.defaults), NoValues, Part(r).layers)
\* the values of this part go before the context, in which the command line is
NewEnv(r) ==
  [defaults |-> Overridden(Context(r).defaults, DefaultValues(r)),
   values |-> MergeMaps(Context(r).values, LoadEnvValues(r).values, "sparse"),
   cli |-> Context(r).cli]

DefinedBy(p) == {p.layers[i].defines : i \in DOMAIN p.layers} \ {"none"}
Undefined(r, known) == ~Load(r).defaultEnv /\ known # {} /\ "env" \notin known

EndPart(r) ==
  LET known == defined[r] \cup DefinedBy(Part(r))
      kept == {PlainFile(r, keeper[r][i]) : i \in DOMAIN keeper[r]}
  IN  /\ pc[r] = "decrypt"
      /\ \A s \in DOMAIN dec[r] : dec[r][s] \in {"done", "done empty", "failed"}
      /\ IF \E s \in DOMAIN dec[r] : dec[r][s] = "failed"
         THEN LoadFails(r) /\ UNCHANGED <<files, part, env, rendered, defined>>
         ELSE /\ files' = files \ kept
              /\ IF ~LoadEnvValues(r).ok
                 THEN LoadFails(r) /\ UNCHANGED <<part, env, rendered, defined>>
                 ELSE IF Undefined(r, known)
                 THEN LoadSkips(r) /\ UNCHANGED <<part, env, rendered, defined>>
                 ELSE /\ Go(r, "load") /\ part' = [part EXCEPT ![r] = @ + 1]
                      /\ defined' = [defined EXCEPT ![r] = known]
                      /\ env' = [env EXCEPT ![r] = NewEnv(r)]
                      /\ rendered' = [rendered EXCEPT ![r] = GetMergedValues(NewEnv(r))]
      /\ UNCHANGED <<unchangedRest, dec, keeper, copied, decrypted>>

-----------------------------------------------------------------------------
\* The templates of a release are executed until nothing changes

\* A field's text is its own template ("raw"), or plain, of some field, with
\* `more` texts around it.
Raw(fs) == [f \in DOMAIN fs |-> [more |-> 0, raw |-> fs[f].ref # "none", of |-> f]]
ExecuteTemplateExpressions(fs, data) ==
  [f \in DOMAIN fs |->
     IF fs[f].ref = "none" THEN [more |-> 0, raw |-> FALSE, of |-> f]
     ELSE [data[fs[f].ref] EXCEPT !.more = @ + fs[f].text]]
Rounds == 6
After(fs) ==
  LET round[k \in 0..Rounds] ==
        IF k = 0 THEN Raw(fs) ELSE ExecuteTemplateExpressions(fs, round[k - 1])
  IN  round
\* A bug: the last round is good enough.
ResolvedAnyway(fs) == TRUE
Resolved(fs) == \E k \in 1..Rounds : After(fs)[k] = After(fs)[k - 1]

\* MergeInherited, and --kube-context, which is refused if the file says another
Config(r) ==
  LET merged == MergeInherited(Load(r).config, BuildInheritedConfig(Load(r).parent, Load(r).inherits))
  IN  [merged EXCEPT !.single = Over(@, Load(r).context)]
Refused(r) == Load(r).context # NoFields /\ Load(r).config.ownContext

\* what follows the last part: the last check of the environment, ExecuteTemplates
Loaded(r) ==
  LET release == Load(r).release
  IN  /\ pc[r] = "load" /\ part[r] > Len(Load(r).parts)
      /\ \/ /\ ~HasEnv(r) /\ defined[r] = {} /\ ~Load(r).defaultEnv
            /\ LoadSkips(r) /\ UNCHANGED <<assembled, fields>>
         \/ /\ HasEnv(r) \/ defined[r] # {} \/ Load(r).defaultEnv
            /\ IF \/ Refused(r) \/ ~Assembles(release, Config(r))
                  \/ ~Resolved(Assembled(release, Config(r)).single)
               THEN LoadFails(r) /\ UNCHANGED <<assembled, fields>>
               ELSE /\ Go(r, "idle")
                    /\ assembled' = [assembled EXCEPT ![r] = Assembled(release, Config(r))]
                    /\ fields' = [fields EXCEPT ![r] = After(assembled'[r].single)[Rounds]]
      /\ UNCHANGED <<unchangedByLoading, remotes, files, part, env, rendered, defined, dec,
                     keeper, copied, decrypted>>

-----------------------------------------------------------------------------
AllSecrets ==
  UNION {UNION {{SecretFiles(setup.load[r].parts[i])[s].file : s \in DOMAIN SecretFiles(setup.load[r].parts[i])}
                : i \in DOMAIN setup.load[r].parts} : r \in Runs}

LoadInit ==
  /\ RemoteInit
  /\ part = [r \in Runs |-> 1]
  /\ env = [r \in Runs |-> Load(r).inherited]
  /\ rendered = [r \in Runs |-> NoValues] /\ defined = [r \in Runs |-> {}]
  /\ dec = [r \in Runs |-> <<>>] /\ keeper = [r \in Runs |-> <<>>]
  /\ copied = [r \in Runs |-> <<>>] /\ fields = [r \in Runs |-> <<>>]
  /\ assembled = [r \in Runs |-> Blank]
  /\ decrypted = [f \in AllSecrets |-> "absent"]

LoadNext ==
  \/ RemoteNext /\ UNCHANGED loadVars
  \/ \E r \in Runs : BeginPart(r) \/ EndPart(r) \/ Loaded(r)
  \/ \E r \in Runs : \E s \in DOMAIN dec[r] : Worker1(r, s)

-----------------------------------------------------------------------------
\* Properties

\* Layers as the documentation lists them, lowest first; with "fallback" a null
\* falls through to a later file
Given(entries, kinds) ==
  LET used == SelectSeq(entries, LAMBDA e : e.kind \in kinds /\ (e.kind = "map" \/ e.paths > 0))
  IN  [i \in DOMAIN used |-> used[i].content]
NotNull(m) == [p \in {q \in DOMAIN m : m[q] # Null} |-> m[p]]
EnvLayers(p) ==
  LET spec == Spec1(p)
      yaml == Given(spec.values, {"yaml", "map"})
      hs == Given(spec.secrets, {"hcl"}) \o Given(spec.values, {"hcl"})
      hcl == AsValues([n \in Names(hs) |-> Meaning(hs, n)])
  IN  (IF spec.strategy = "fallback"
       THEN <<hcl>> \o Reverse([i \in DOMAIN yaml |-> NotNull(yaml[i])]) ELSE yaml \o <<hcl>>)
      \o Given(spec.secrets, {"yaml"})
Layers(r) ==
  LET parts == Load(r).parts
      defaults(p) == [i \in DOMAIN p.layers |-> p.layers[i].defaults]
  IN  <<Load(r).inherited.defaults>> \o FlattenSeq([i \in DOMAIN parts |-> defaults(parts[i])])
      \o <<Load(r).inherited.values>> \o FlattenSeq([i \in DOMAIN parts |-> EnvLayers(parts[i])])
      \o <<Load(r).file>>

\* A leaf is there if no layer above the last that has it has anything else in
\* its place; the last layer decides.  Of a list on the command line, the
\* elements that are given.
InPlace(layers, p) ==
  LET last == Max({i \in DOMAIN layers : p \in DOMAIN layers[i]})
  IN  \A i \in (last + 1)..Len(layers) : \A q \in DOMAIN layers[i] : ~Related(p, q)
TopOf(layers, p) == layers[Max({i \in DOMAIN layers : p \in DOMAIN layers[i]})][p]
Expected(r) ==
  LET below == Layers(r)
      set == SetValues(Load(r).set)
      layers == Append(below, set)
      paths == {p \in UNION {DOMAIN layers[i] : i \in DOMAIN layers} : InPlace(layers, p)}
  IN  [p \in paths |->
         IF /\ p \in DOMAIN set /\ set[p].list
            /\ p \in UNION {DOMAIN below[i] : i \in DOMAIN below}
            /\ InPlace(below, p) /\ TopOf(below, p).list
         THEN Several([i \in DOMAIN set[p].v \cup DOMAIN TopOf(below, p).v |->
                         IF i \in DOMAIN set[p].v /\ set[p].v[i] # Hole THEN set[p].v[i]
                         ELSE IF i \in DOMAIN TopOf(below, p).v THEN TopOf(below, p).v[i] ELSE Hole])
         ELSE TopOf(layers, p)]

(* The values of a state file are those of the documented order (docs/
   values-and-merging.md): top-level values, then the environment's, HCL, secrets,
   and the command line last, over all bases and parts, every secret among them; they
   are merged part by part and decrypted in any order. *)
ValuesExact == \A r \in Runs : pc[r] = "idle" => rendered[r] = Expected(r)

Handling(r) == pc[r] \notin {"locate", "getting", "receiving", "load", "decrypt", "done"}

(* A release is only handled with all that was declared for it, by itself, the templates
   it inherits, and a parent file, in their order (docs/configuration.md;
   releaseWithInheritedTemplate, MergeInherited). *)
ReleasesExact ==
  \A r \in Runs : Handling(r) =>
    LET parent == BuildInheritedConfig(Load(r).parent, Load(r).inherits)
        option == [Load(r).config EXCEPT !.single = Load(r).context, !.templates = NoFields,
                                         !.commonLabels = NoFields, !.apiVersions = <<>>]
    IN  assembled[r] = Declared(Load(r).release, Load(r).config.defaultInherit,
                                <<parent, Load(r).config, option>>)

\* m has what the command line has set, every element of a list, and nothing in its place
Wins(set, m) ==
  \A p \in DOMAIN set : set[p] # Null =>
    /\ p \in DOMAIN m /\ \A q \in DOMAIN m : Related(p, q) => q \in DOMAIN set
    /\ set[p].list => /\ m[p].list
                      /\ \A i \in DOMAIN set[p].v : set[p].v[i] # Hole =>
                           i \in DOMAIN m[p].v /\ m[p].v[i] = set[p].v[i]
    /\ ~set[p].list => m[p] = set[p]

(* The template of every part, and those of the releases, see what --state-values-set says,
   whatever bases, parts, secrets and parents have in its place. *)
SettingsWin ==
  \A r \in Runs : LET set == SetValues(Load(r).set)
                  IN  /\ Wins(set, GetMergedValues(Context(r)))
                      /\ part[r] > 1 => Wins(set, rendered[r])

(* What is loaded is what its layers come to, of values and of releases alike. *)
LayersExact == ValuesExact /\ SettingsWin /\ ReleasesExact

\* where the references of a field lead: itself if nowhere
Leads(fs, f) ==
  LET after[n \in 0..Cardinality(DOMAIN fs)] ==
        IF n = 0 THEN f ELSE IF fs[after[n - 1]].ref = "none" THEN after[n - 1] ELSE fs[after[n - 1]].ref
  IN  after[Cardinality(DOMAIN fs)]

(* A release is only handled when its templates are executed through: every field has the
   text at the end of its references, and none still holds the template of another, however
   many references there are and whatever six rounds of ExecuteTemplates come to. *)
TemplatesResolved ==
  \A r \in Runs : Handling(r) =>
    LET fs == assembled[r].single
    IN  \A f \in DOMAIN fs :
          LET end == Leads(fs, f)
          IN  /\ fields[r][f].of = end /\ (fields[r][f].raw <=> fs[end].ref # "none")
              /\ fs[end].ref \in {"none", end}
=============================================================================
