----------------------------- MODULE ChartLock -----------------------------
(***************************************************************************)
(* helmfile.lock.  `helmfile deps` lets helm resolve the charts of all     *)
(* releases at once, as dependencies of a chart made up for the purpose,   *)
(* and keeps the Chart.lock.  Every other command reads it and pins the    *)
(* versions of its releases.  A version constraint is the set of the       *)
(* versions it allows.  A list of releases, or of what is made of it, is a *)
(* function from their places in the state file.                           *)
(***************************************************************************)
EXTENDS Naturals, FiniteSetsExt

NoLock == [exists |-> FALSE, deps |-> <<>>]

\* getUnresolvedDependenciess: the releases whose chart is in a repository the
\* state file names; the repository's URL goes along
Pinnable(r) == r.kind = "repo"
Unresolved(rels) ==
  [i \in {k \in DOMAIN rels : Pinnable(rels[k])} |->
     [chart |-> rels[i].chart, repo |-> rels[i].repo, allowed |-> rels[i].allowed]]

\* helm dependency update: the newest version in the repository that is allowed
HelmResolves(deps, published) ==
  \A i \in DOMAIN deps : deps[i].allowed \cap published[deps[i].repo] # {}
HelmResolve(deps, published) ==
  [i \in DOMAIN deps |-> [chart |-> deps[i].chart, repo |-> deps[i].repo,
                          version |-> Max(deps[i].allowed \cap published[deps[i].repo])]]

\* doUpdate: without duplicates, in the order of the charts' names; a failure
\* leaves the lock file as it was
Dedup(deps) ==
  [i \in {k \in DOMAIN deps : \A n \in DOMAIN deps : deps[n] = deps[k] => k <= n} |-> deps[i]]
UpdateLock(lock, rels, published) ==
  LET deps == Unresolved(rels)
  IN  IF DOMAIN deps = {} \/ ~HelmResolves(deps, published) THEN lock
      ELSE [exists |-> TRUE, deps |-> Dedup(HelmResolve(deps, published))]

FirstVersion(lock, at) == {lock.deps[i].version : i \in {k \in at : \A n \in at : k <= n}}
\* A bug: any version of the chart will do.
GetAny(lock, r) == FirstVersion(lock, {i \in DOMAIN lock.deps : lock.deps[i].chart = r.chart})
\* ResolvedDependencies.Get: the version of the first entry for the chart, of
\* whatever repository, that the constraint allows; none is an error
Get(lock, r) ==
  FirstVersion(lock, {i \in DOMAIN lock.deps : /\ lock.deps[i].chart = r.chart
                                              /\ lock.deps[i].version \in r.allowed})

\* resolveDependencies: every release of the state file, selected or not
Resolvable(lock, rels) ==
  lock.exists => \A r \in rels : Pinnable(r) => Get(lock, r) # {}
Pinned(lock, r) == IF lock.exists /\ Pinnable(r) THEN Get(lock, r) ELSE r.allowed
=============================================================================
