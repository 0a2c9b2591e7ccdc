----------------------------- MODULE HelmFlags -----------------------------
(***************************************************************************)
(* The flags helmfile passes to helm for one release.  An option can be    *)
(* set on several layers: the command line ("cli"), the release ("rel"),   *)
(* helmDefaults ("def"), the chart's repository ("repo"), the environment  *)
(* ("env"), the top level of the state file ("st"); for the version of     *)
(* Kubernetes there is also what the cluster says ("det"), for the one of  *)
(* a chart in a registry a tag of its URL ("url").  Every command          *)
(* has its own list of the options it knows, in its own code; what should  *)
(* be one decision is taken several times, and this module relates them.   *)
(* A flag is <<name, the layer its value comes from>>.                     *)
(***************************************************************************)
EXTENDS Naturals, Sequences, FiniteSetsExt

CONSTANTS
  Confs,          \* configurations: functions from options to their layers, each
                  \* a function from layers to "unset", "off" or "on" (trackMode: a mode)
  Helms, Plugins  \* versions of helm and of its diff plugin, as major * 1000 + minor

VARIABLES
  conf, helm, plugin,  \* what is configured and installed
  chart,               \* "oci", "repo" (its repository is known) or "other"
  valuesOK,            \* values, secrets and --set entries can be rendered
  prefetched,          \* the chart was downloaded and unpacked before the command
  out                  \* command -> the flags built for it so far

flagsVars == <<conf, helm, plugin, chart, valuesOK, prefetched, out>>
inputs == <<conf, helm, plugin, chart, valuesOK>>

Commands == {"fetch", "pull", "diff", "upgrade", "template", "lint", "delete"}
None == [ok |-> FALSE, flags |-> {}, built |-> FALSE]
Flags(fs) == [ok |-> TRUE, flags |-> fs, built |-> TRUE]
Rejected == [ok |-> FALSE, flags |-> {}, built |-> TRUE]

-----------------------------------------------------------------------------
\* How the layers of an option are combined

OptionLayers == {"cli", "rel", "def", "repo", "env", "st", "det", "arg", "url"}

Setting(o, l) == IF o \in DOMAIN conf /\ l \in DOMAIN conf[o] THEN conf[o][l] ELSE "unset"
On(o, l) == Setting(o, l) = "on"
Unset(o, l) == Setting(o, l) = "unset"

\* release.X != nil && *release.X || release.X == nil && HelmDefaults.X
Switched(o) == On(o, "rel") \/ (Unset(o, "rel") /\ On(o, "def"))
\* the same with the command line, which cannot switch an option off
Waits(o) == Switched(o) \/ On(o, "cli")
\* any layer switches the option on, none switches it off
AnyOf(o) == \E l \in {"rel", "cli", "def", "repo"} : On(o, l)
\* the first layer that has a value
Foremost(layers, given) ==
  LET at == {i \in DOMAIN layers : layers[i] \in given}
  IN  IF at = {} THEN "none" ELSE layers[Min(at)]
FirstOf(o, layers) == Foremost(layers, {l \in OptionLayers : On(o, l)})

Flag(cond, name) == IF cond THEN {<<name, "on">>} ELSE {}
ValueFlag(name, layer) == IF layer = "none" THEN {} ELSE {<<name, layer>>}
FlagNames(r) == {f[1] : f \in r.flags}

Helm4 == helm >= 4000

-----------------------------------------------------------------------------
\* Groups of flags, shared by several commands

\* a digest that pins the chart is cut off the version
DevelFlags == Flag(Switched("devel"), "--devel")
ChartVersionFlags == ValueFlag("--version", FirstOf("version", <<"rel">>)) \cup DevelFlags
EnableDNSFlags == Flag(Switched("enableDNS"), "--enable-dns")

VerifyFlags == Flag(On("verify", "rel") \/ (Unset("verify", "rel")
                    /\ (On("verify", "repo") \/ On("verify", "def"))), "--verify")
KeyringFlags == ValueFlag("--keyring", FirstOf("keyring", <<"rel", "repo", "def">>))
\* "non-OCI chart should be verified here"
VerificationFlags == IF chart = "oci" THEN {} ELSE VerifyFlags \cup KeyringFlags

\* --insecure-skip-tls-verify would undo --plain-http in helm
ChartDownloadFlags ==
  IF AnyOf("plainHttp") THEN {<<"--plain-http", "on">>}
  ELSE Flag(AnyOf("insecure"), "--insecure-skip-tls-verify")

ConnectionFlags == ValueFlag("--kube-context", FirstOf("kubeContext", <<"rel", "env", "def">>))
HelmXFlags == ValueFlag("--adopt", FirstOf("adopt", <<"rel">>))
PostRenderFlags ==
  ValueFlag("--post-renderer", FirstOf("postRenderer", <<"rel", "cli", "def">>))
PostRenderArgsFlags ==
  ValueFlag("--post-renderer-args", FirstOf("postRendererArgs", <<"rel", "cli", "def">>))
SkipSchemaValidationFlags == Flag(AnyOf("skipSchemaValidation"), "--skip-schema-validation")
TemplateArgs == ValueFlag("--dry-run", FirstOf("templateArgs", <<"cli", "def">>))
ValuesControlFlags ==
  IF Unset("resetValues", "cli") /\ Waits("reuseValues")
  THEN {<<"--reuse-values", "on">>} ELSE {<<"--reset-values", "on">>}

\* namespace, generated values files, set, setString and env entries; these
\* can fail, and then no command is run
ValuesFlags == {<<"--namespace", "rel">>, <<"--values", "rel">>, <<"--set", "rel">>}
\* --values and --set of the command line come after those of the release
CommandLineValues == ValueFlag("--set", FirstOf("set", <<"cli">>))

\* getKubeVersion: an argument goes before what the state file says
KubeVersionFlags(argument) ==
  ValueFlag("--kube-version",
    IF argument # "none" THEN argument ELSE FirstOf("kubeVersion", <<"rel", "st">>))
ApiVersionsFlags == ValueFlag("--api-versions", FirstOf("apiVersions", <<"rel", "st">>))

\* detectKubeVersion asks the cluster unless the top level has a version
DetectedKubeVersion ==
  IF On("kubeVersion", "st") THEN "none" ELSE FirstOf("kubeVersion", <<"det">>)
KubeVersionForDiff ==
  IF Switched("disableAutoDetected") THEN FirstOf("kubeVersion", <<"rel", "st">>)
  ELSE DetectedKubeVersion

\* --server-side is of helm 4; what the release or helmDefaults say is an
\* error before it, what the command line says is not
ServerSideFlags ==
  IF Helm4 THEN ValueFlag("--server-side", FirstOf("serverSide", <<"rel", "cli", "def">>))
  ELSE {}
ServerSideRefused == ~Helm4 /\ (On("serverSide", "rel") \/ On("serverSide", "def"))

-----------------------------------------------------------------------------
\* helm upgrade

TrackMode ==
  LET layer == Foremost(<<"rel", "cli", "def">>, {l \in OptionLayers : ~Unset("trackMode", l)})
  IN  IF layer = "none" THEN "helm" ELSE Setting("trackMode", layer)
\* kubedog waits for jobs itself, helm-legacy is a way of waiting of helm 4
WaitFlags ==
  (IF ~Waits("wait") THEN {}
   ELSE {<<"--wait", IF TrackMode = "helm-legacy" /\ Helm4 THEN "legacy" ELSE "on">>})
  \cup Flag(TrackMode # "kubedog" /\ Waits("waitForJobs"), "--wait-for-jobs")
TimeoutFlags == ValueFlag("--timeout", FirstOf("timeout", <<"cli", "rel", "def">>))
ForceFlags == Flag(Switched("force"), IF Helm4 THEN "--force-replace" ELSE "--force")
              \cup Flag(Switched("forceConflicts"), "--force-conflicts")
\* helm 4 renamed --atomic
RollbackFlags ==
  IF Switched("atomic") /\ ~Helm4 THEN {<<"--atomic", "on">>}
  ELSE Flag(Switched("atomic") \/ Switched("rollbackOnFailure"), "--rollback-on-failure")
CreatesNamespace == On("createNamespace", "rel")
  \/ (Unset("createNamespace", "rel") /\ Setting("createNamespace", "def") # "off")
CreateNamespaceFlags == Flag(CreatesNamespace /\ helm >= 3002, "--create-namespace")
LabelsFlags == Flag(helm >= 3013 /\ AnyOf("syncReleaseLabels"), "--labels")
DescriptionFlags == ValueFlag("--description", FirstOf("description", <<"cli", "rel">>))
HideNotesFlags == Flag(helm >= 3016 /\ On("hideNotes", "cli"), "--hide-notes")
TakeOwnershipForUpgrade == Flag(helm >= 3017 /\ AnyOf("takeOwnership"), "--take-ownership")
OpenAPIFlags == Flag(Switched("disableOpenAPIValidation"), "--disable-openapi-validation")
ExtraSyncFlags == ValueFlag("syncArgs", FirstOf("syncArgs", <<"cli", "def">>))

\* options that contradict one another or the version of helm
UpgradeRefused ==
  \/ Switched("forceConflicts") /\ (~Helm4 \/ Switched("force"))
  \/ Switched("atomic") /\ Switched("rollbackOnFailure")
  \/ Switched("rollbackOnFailure") /\ ~Helm4
  \/ helm < 3002 /\ CreatesNamespace
       /\ ~(Unset("createNamespace", "rel") /\ Unset("createNamespace", "def"))
  \/ DescriptionFlags # {} /\ helm < 3003
  \/ ServerSideRefused
  \/ ~valuesOK

FlagsForUpgrade ==
  IF UpgradeRefused THEN Rejected
  ELSE Flags(
    ChartVersionFlags \cup EnableDNSFlags \cup WaitFlags \cup VerificationFlags
    \cup TimeoutFlags \cup ForceFlags \cup Flag(Switched("recreatePods"), "--recreate-pods")
    \cup RollbackFlags \cup Flag(Switched("cleanupOnFail"), "--cleanup-on-fail")
    \cup CreateNamespaceFlags \cup OpenAPIFlags \cup ConnectionFlags
    \cup ChartDownloadFlags \cup HelmXFlags \cup LabelsFlags \cup PostRenderFlags
    \cup DescriptionFlags \cup PostRenderArgsFlags \cup SkipSchemaValidationFlags
    \cup HideNotesFlags \cup TakeOwnershipForUpgrade \cup ServerSideFlags
    \cup ExtraSyncFlags \cup ValuesFlags)

\* what prepareSyncReleases appends
UpgradeArgs ==
  LET r == FlagsForUpgrade
  IN  IF r.ok THEN Flags(r.flags \cup CommandLineValues \cup ValuesControlFlags
                         \cup Flag(On("skipCRDs", "def") \/ On("skipCRDs", "cli"), "--skip-crds"))
      ELSE r

-----------------------------------------------------------------------------
\* helm diff upgrade

\* the diff plugin has to be recent enough for some flags
DiffRefused ==
  \/ plugin < 3008 /\ <<"--insecure-skip-tls-verify", "on">> \in ChartDownloadFlags
  \/ plugin < 3009 /\ AnyOf("suppressOutputLineRegex")
  \/ plugin < 3011 /\ AnyOf("takeOwnership")
  \/ plugin < 3015 /\ ServerSideFlags # {}
  \/ ServerSideRefused
  \/ ~valuesOK

\* without validation of what is not installed ("arg"), if nobody says otherwise
DisableValidationFlags ==
  Flag(Switched("disableValidation")
       \/ (Unset("disableValidation", "rel") /\ Unset("disableValidation", "def")
           /\ On("disableValidation", "arg")), "--disable-validation")
SuppressOutputFlags ==
  ValueFlag("--suppress-output-line-regex",
            FirstOf("suppressOutputLineRegex", <<"rel", "cli", "def">>))
TakeOwnershipForDiff == Flag(AnyOf("takeOwnership"), "--take-ownership")
ExtraDiffFlags == ValueFlag("diffArgs", FirstOf("diffArgs", <<"cli", "def">>)) \cup TemplateArgs

\* helm diff has no --plain-http
FlagsForDiff ==
  IF DiffRefused THEN Rejected
  ELSE Flags(
    ChartVersionFlags \cup EnableDNSFlags \cup OpenAPIFlags \cup DisableValidationFlags
    \cup ApiVersionsFlags \cup KubeVersionFlags(KubeVersionForDiff) \cup ConnectionFlags
    \cup (ChartDownloadFlags \ {<<"--plain-http", "on">>}) \cup HelmXFlags
    \cup PostRenderFlags \cup PostRenderArgsFlags \cup SkipSchemaValidationFlags
    \cup SuppressOutputFlags \cup TakeOwnershipForDiff \cup ServerSideFlags
    \cup ValuesFlags)

\* A bug: the diff is made without --reuse-values or --reset-values.
DiffArgsNoControl ==
  LET r == FlagsForDiff
  IN  IF r.ok THEN Flags(r.flags \cup CommandLineValues \cup ExtraDiffFlags) ELSE r
\* what prepareDiffReleases appends, with commonDiffFlags
DiffArgs ==
  LET r == FlagsForDiff
  IN  IF r.ok THEN Flags(r.flags \cup ValuesControlFlags \cup CommandLineValues
                         \cup ExtraDiffFlags)
      ELSE r

-----------------------------------------------------------------------------
\* The other commands

FlagsForTemplate ==
  IF ~valuesOK THEN Rejected
  ELSE Flags(
    ChartVersionFlags \cup HelmXFlags \cup EnableDNSFlags \cup PostRenderFlags
    \cup PostRenderArgsFlags \cup ApiVersionsFlags
    \cup KubeVersionFlags(FirstOf("kubeVersion", <<"cli">>)) \cup ChartDownloadFlags
    \cup ValueFlag("--show-only", FirstOf("showOnly", <<"cli">>))
    \cup SkipSchemaValidationFlags \cup ConnectionFlags \cup TemplateArgs
    \cup ValuesFlags \cup CommandLineValues)

FlagsForLint ==
  IF valuesOK THEN Flags(ValuesFlags \cup HelmXFlags \cup CommandLineValues) ELSE Rejected

\* a timeout only makes sense for a deletion that waits
DeleteArgs == Flags(
  (IF Switched("deleteWait")
   THEN {<<"--wait", "on">>}
        \cup ValueFlag("--timeout", FirstOf("deleteTimeout", <<"rel", "def">>))
   ELSE {})
  \cup (IF helm >= 3012
        THEN ValueFlag("--cascade", FirstOf("cascade", <<"rel", "cli", "def">>)) ELSE {})
  \cup ConnectionFlags)

\* chartFetchFlags: of a chart downloaded ahead of helm upgrade
FetchFlags ==
  Flags(ChartVersionFlags \cup VerificationFlags \cup ChartDownloadFlags)

\* chartOCIFlags: what the repository alone says of a registry
OCIFlags ==
  (IF On("plainHttp", "repo") THEN {<<"--plain-http", "on">>}
   ELSE Flag(On("insecure", "repo"), "--insecure-skip-tls-verify"))
  \cup Flag(On("verify", "repo"), "--verify")
  \cup ValueFlag("--keyring", FirstOf("keyring", <<"repo">>))
\* getOCIChart: a digest is part of the reference that is pulled, and then
\* there is no --version
PullFlags ==
  Flags(OCIFlags \cup VerifyFlags \cup KeyringFlags \cup ChartDownloadFlags \cup DevelFlags
        \cup (IF On("digest", "rel") THEN {}
              ELSE ValueFlag("--version", FirstOf("version", <<"rel", "url">>))))

-----------------------------------------------------------------------------
RepoOptions == {o \in DOMAIN conf : On(o, "repo")}

FlagsInit ==
  /\ conf \in Confs /\ helm \in Helms /\ plugin \in Plugins
  /\ chart \in {"oci", "repo", "other"} /\ valuesOK \in BOOLEAN
  /\ RepoOptions # {} => chart # "other"
  /\ On("version", "url") => chart = "oci" /\ RepoOptions = {}
  /\ prefetched = FALSE
  /\ out = [c \in Commands |-> None]

\* a chart in a repository: dir/chart may be a local directory, and one in a
\* registry, though eligible as well, is there by then (getOCIChart)
PrefetchEligible == chart = "repo"

Build(c, r) == ~out[c].built /\ out' = [out EXCEPT ![c] = r]

Ahead == \A c \in Commands : ~out[c].built

\* A bug: charts whose provenance helm is to verify are unpacked as well.
PrefetchVerified ==
  /\ Ahead /\ PrefetchEligible
  /\ Build("fetch", FetchFlags) /\ prefetched' = TRUE /\ UNCHANGED inputs
\* PrepareCharts downloads a chart that several releases share once, before the
\* groups, unless helm is to verify it: it cannot verify an unpacked chart
Prefetch ==
  /\ Ahead /\ PrefetchEligible
  /\ "--verify" \notin FlagNames(FetchFlags)
  /\ Build("fetch", FetchFlags) /\ prefetched' = TRUE /\ UNCHANGED inputs

\* a chart in a registry is pulled before any command, unless it is in the cache
Pull ==
  /\ Ahead /\ chart = "oci"
  /\ Build("pull", PullFlags) /\ UNCHANGED <<inputs, prefetched>>

\* apply runs helm diff, then helm upgrade; sync starts with the latter
Diff == Build("diff", DiffArgs) /\ ~out["upgrade"].built /\ UNCHANGED <<inputs, prefetched>>
Upgrade == Build("upgrade", UpgradeArgs) /\ UNCHANGED <<inputs, prefetched>>
\* the commands that are run on their own
Alone == \A c \in Commands \ {"fetch", "pull"} : ~out[c].built
Template == Alone /\ Build("template", FlagsForTemplate) /\ UNCHANGED <<inputs, prefetched>>
Lint == Alone /\ Build("lint", FlagsForLint) /\ UNCHANGED <<inputs, prefetched>>
Delete == Alone /\ Build("delete", DeleteArgs) /\ UNCHANGED <<inputs, prefetched>>

FlagsNext == Prefetch \/ Pull \/ Diff \/ Upgrade \/ Template \/ Lint \/ Delete

FlagsSpec == FlagsInit /\ [][FlagsNext]_flagsVars

-----------------------------------------------------------------------------
\* Properties

Acquisition == {"--version", "--devel", "--verify", "--keyring", "--plain-http",
                "--insecure-skip-tls-verify"}
Rendering == {"--version", "--devel", "--enable-dns", "--kube-context", "--adopt",
              "--insecure-skip-tls-verify", "--post-renderer", "--post-renderer-args",
              "--skip-schema-validation", "--namespace", "--values", "--set"}
Applying == {"--disable-openapi-validation", "--reuse-values", "--reset-values",
             "--server-side"} \cup (IF helm >= 3017 THEN {"--take-ownership"} ELSE {})
Only(names, r) == {f \in r.flags : f[1] \in names}

(* What helm diff and helm template render is what helm upgrade will: the
   options that decide it have the same value from the same layer in all three,
   though flagsForDiff, flagsForTemplate and flagsForUpgrade each combine the
   layers themselves (--take-ownership only where helm knows it). *)
SameRendering ==
  /\ out["diff"].ok /\ ~UpgradeRefused =>
       Only(Rendering \cup Applying, out["diff"])
         = Only(Rendering \cup Applying, UpgradeArgs)
  /\ out["template"].ok /\ ~UpgradeRefused =>
       Only(Rendering, out["template"]) = Only(Rendering, UpgradeArgs)

(* A chart that is downloaded ahead of its releases is the chart helm would
   have downloaded itself (chartFetchFlags mirrors flagsForUpgrade), and never one
   that helm upgrade is then asked to verify, which it can only do with an archive.
   A chart pulled from a registry (getOCIChart) is verified then, if it is to be,
   and never again by helm upgrade, which is told of the same chart in the same way
   but for what a digest or a tag in the URL says of its version, and for the
   repository's --insecure-skip-tls-verify, that does not yield to another layer's
   --plain-http when a chart is pulled. *)
SameAcquisition ==
  /\ prefetched /\ out["upgrade"].ok =>
       /\ out["fetch"].flags = Only(Acquisition, out["upgrade"])
       /\ "--verify" \notin FlagNames(out["upgrade"])
  /\ out["pull"].built /\ out["upgrade"].ok =>
       LET same(names) == Only(names, out["pull"]) = Only(names, out["upgrade"])
       IN  /\ VerifyFlags \cup KeyringFlags \subseteq out["pull"].flags
           /\ {"--verify", "--keyring"} \cap FlagNames(out["upgrade"]) = {}
           /\ same({"--devel", "--plain-http"})
           /\ "--plain-http" \notin FlagNames(out["upgrade"]) =>
                same({"--insecure-skip-tls-verify"})
           /\ ~On("digest", "rel") /\ ~On("version", "url") => same({"--version"})
=============================================================================
