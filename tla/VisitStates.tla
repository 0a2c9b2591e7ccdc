---------------------------- MODULE VisitStates ----------------------------
(***************************************************************************)
(* Visiting the state files of a command (pkg/app/app.go): the files of    *)
(* helmfile.d, one goroutine each or, with --sequential-helmfiles, one     *)
(* after the other, and for every file the sub-helmfiles it names, in      *)
(* order, before its own releases, or after them for destroy.  A           *)
(* sub-helmfile whose selectors conflict with those of the command line is *)
(* skipped; the others get selectors from where they are named.  All files *)
(* share the working directory of the process (within) and the record of   *)
(* the repositories that were added (Context.SyncReposOnce).               *)
(***************************************************************************)
EXTENDS Naturals, Sequences, FiniteSets, Selectors

CONSTANTS Files, Repos,
          DirOf,      \* the directory of each file
          Root,       \* the directory helmfile was started in
          Trees,      \* records: top and nested, the files as they are listed; repos, the
                      \* repositories of each file, those in logins being OCI registries,
                      \* and offline, the files with skipRefresh; releases, common (labels)
                      \* and values of each file; selectors, [given, filters, inherited],
                      \* where a file is named, and cli and explicit, those of the command
                      \* line and whether sub-helmfiles only inherit them on demand
          RepoRetry,  \* --repo-retries
          None

ASSUME VisitStatesAssumption ==
    /\ None \notin {DirOf[f] : f \in Files} \cup {Root} \cup Files /\ RepoRetry \in Nat
    /\ None \notin {"matched", "nomatch", "error"}
    /\ \A t \in Trees : /\ t.top \in Seq(Files) /\ Len(t.top) > 0
                        /\ t.nested \in [Files -> Seq(Files)]
                        /\ t.repos \in [Files -> Seq(Repos)]
                        /\ t.logins \subseteq Repos /\ t.offline \subseteq Files
                        /\ DOMAIN t.selectors = Files /\ DOMAIN t.releases = Files
                        /\ DOMAIN t.common = Files /\ DOMAIN t.values = Files

\* A file of the model is one entry of a list of files: what is listed twice is visited twice.
ASSUME ListedOnce ==
    \A t \in Trees :
        /\ \A i, j \in DOMAIN t.top : t.top[i] = t.top[j] => i = j
        /\ \A f, h \in Files : \A i \in DOMAIN t.nested[f] :
              /\ \A j \in DOMAIN t.nested[h] : t.nested[f][i] = t.nested[h][j] => f = h /\ i = j
              /\ \A j \in DOMAIN t.top : t.nested[f][i] # t.top[j]

VARIABLES tree, sequential,
          reverse,     \* destroy: the last file first, sub-helmfiles last
          pc, result,  \* of each file
          kid,         \* how many sub-helmfiles were started or skipped
          opts,        \* LoadOpts.Selectors of each file
          found,       \* files whose result has a match: their own or of a sub-helmfile
          cwd,         \* the working directory of the process
          prev,        \* the directory a file goes back to, None if it did not leave one
          updated,     \* Context.updatedRepos
          mu,          \* the file that holds its mutex
          at, tries,   \* where each file is in its repositories, and attempts at that one
          added,       \* how often each repository was added
          errN, matchN,\* messages in errChan and matchChan
          current,     \* sequential: the file of the loop
          main,        \* what the visit of the top files returned
          loaded, converged, matched  \* files that were read, converged on, and had releases

inputs == <<tree, sequential, reverse>>
repoVars == <<updated, mu, at, tries, added>>
shared == <<cwd, repoVars>>
history == <<loaded, converged, matched>>
vars == <<inputs, pc, result, kid, opts, found, prev, shared, errN, matchN, current, main, history>>

N == Len(tree.top)
Top(i) == IF reverse THEN tree.top[N + 1 - i] ELSE tree.top[i]
Kids(f) == Len(tree.nested[f])
Kid(f, i) == IF reverse THEN tree.nested[f][Kids(f) + 1 - i] ELSE tree.nested[f][i]
IsTop(f) == \E i \in 1..N : tree.top[i] = f
ParentOf(f) == CHOOSE p \in Files : \E i \in 1..Kids(p) : tree.nested[p][i] = f

Parallel == N > 1 /\ ~sequential
\* Files of a directory are loaded with an absolute base directory; a single file is loaded
\* from the working directory, which within changes for it.
Based(f) == IsTop(f) /\ N > 1

\* subhelmfileSelectorsConflict, and the selectors processNestedHelmfiles passes on.
Conflict(k) ==
    LET own == tree.selectors[k] IN
    ~own.inherited /\ ~SelectorsAreCompatible(tree.cli, own.filters)
Passed(f, k) ==
    LET own == tree.selectors[k] IN
    IF own.inherited \/ (~own.given /\ ~tree.explicit) THEN opts[f] ELSE own.filters

Steps == {"none", "start", "chdir", "load", "nested", "waiting", "repos", "add", "converge",
          "leave", "send", "done"}

TypeOK ==
    /\ tree \in Trees /\ sequential \in BOOLEAN /\ reverse \in BOOLEAN
    /\ pc \in [Files -> Steps]
    /\ result \in [Files -> {None, "matched", "nomatch", "error"}]
    /\ kid \in [Files -> Nat] /\ \A f \in Files : kid[f] \in 0..Kids(f)
    /\ DOMAIN opts = Files
    /\ \A f \in Files : pc[f] \in {"send", "done"} <=> result[f] # None /\ pc[f] # "leave"
    /\ cwd \in {DirOf[f] : f \in Files} \cup {Root}
    /\ prev \in [Files -> {DirOf[f] : f \in Files} \cup {Root, None}]
    /\ updated \subseteq Repos /\ added \in [Repos -> Nat] /\ mu \in Files \cup {None}
    /\ {at, tries} \subseteq [Files -> Nat]
    /\ \A f \in Files : at[f] \in 1..(Len(tree.repos[f]) + 1) /\ tries[f] \in 0..RepoRetry
    /\ {errN, matchN} \subseteq 0..N /\ current \in 1..N
    /\ main \in {None, "matched", "nomatch", "error"}
    /\ matched \subseteq converged /\ converged \subseteq loaded /\ loaded \cup found \subseteq Files

Init == /\ tree \in Trees /\ sequential \in BOOLEAN /\ reverse \in BOOLEAN
        /\ pc = [f \in Files |-> IF IsTop(f) /\ (Parallel \/ f = Top(1)) THEN "start" ELSE "none"]
        /\ result = [f \in Files |-> None]
        /\ kid = [f \in Files |-> 0] /\ found = {}
        /\ opts = [f \in Files |-> IF IsTop(f) THEN tree.cli ELSE {}]
        /\ cwd = Root /\ prev = [f \in Files |-> None]
        /\ updated = {} /\ added = [r \in Repos |-> 0] /\ mu = None
        /\ at = [f \in Files |-> 1] /\ tries = [f \in Files |-> 0]
        /\ errN = 0 /\ matchN = 0 /\ current = 1 /\ main = None
        /\ loaded = {} /\ converged = {} /\ matched = {}

Go(f, step) == pc' = [pc EXCEPT ![f] = step]
Fail(f) == result' = [result EXCEPT ![f] = "error"] /\ Go(f, "leave")

----------------------------------------------------------------------------
(* One file.                                                                *)

\* The path of a sub-helmfile is relative to the working directory unless its parent has an
\* absolute base directory.  within reads the working directory to come back to.
Start(f) ==
    /\ pc[f] = "start"
    /\ IF IsTop(f) \/ Based(ParentOf(f)) \/ cwd = DirOf[ParentOf(f)]
       THEN /\ prev' = [prev EXCEPT ![f] = IF Based(f) \/ cwd = DirOf[f] THEN None ELSE cwd]
            /\ Go(f, IF prev'[f] = None THEN "load" ELSE "chdir")
            /\ UNCHANGED result
       ELSE Fail(f) /\ UNCHANGED prev
    /\ UNCHANGED <<inputs, kid, opts, found, shared, errN, matchN, current, main, history>>

Chdir(f) ==
    /\ pc[f] = "chdir"
    /\ cwd' = DirOf[f] /\ Go(f, "load")
    /\ UNCHANGED <<inputs, result, kid, opts, found, prev, repoVars, errN, matchN, current, main,
                   history>>

\* A bug: sub-helmfiles come first for destroy, too.
LoadNestedFirst(f) ==
    /\ pc[f] = "load"
    /\ \/ /\ Based(f) \/ cwd = DirOf[f]
          /\ \/ Go(f, "nested") /\ loaded' = loaded \cup {f}
             \/ Go(f, "leave") /\ UNCHANGED loaded
          /\ UNCHANGED result
       \/ Fail(f) /\ UNCHANGED loaded
    /\ UNCHANGED <<inputs, kid, opts, found, prev, shared, errN, matchN, current, main, converged, matched>>

\* Load the file: it may not define the environment, which is no error, or be invalid; in
\* another directory it is not found.
Load(f) ==
    /\ pc[f] = "load"
    /\ \/ /\ Based(f) \/ cwd = DirOf[f]
          /\ \/ Go(f, IF reverse THEN "repos" ELSE "nested") /\ loaded' = loaded \cup {f}
             \/ Go(f, "leave") /\ UNCHANGED loaded
          /\ UNCHANGED result
       \/ Fail(f) /\ UNCHANGED loaded
    /\ UNCHANGED <<inputs, kid, opts, found, prev, shared, errN, matchN, current, main, converged, matched>>

\* processNestedHelmfiles: skip or start the next sub-helmfile, or go on after the last.
Nested(f) ==
    /\ pc[f] = "nested"
    /\ IF kid[f] < Kids(f)
       THEN LET k == Kid(f, kid[f] + 1) IN
            /\ kid' = [kid EXCEPT ![f] = @ + 1]
            /\ IF Conflict(k)
               THEN UNCHANGED <<pc, opts>>
               ELSE /\ pc' = [pc EXCEPT ![f] = "waiting", ![k] = "start"]
                    /\ opts' = [opts EXCEPT ![k] = Passed(f, k)]
       ELSE Go(f, IF reverse THEN "leave" ELSE "repos") /\ UNCHANGED <<kid, opts>>
    /\ UNCHANGED <<inputs, result, found, prev, shared, errN, matchN, current, main, history>>

\* The sub-helmfile returned: its error is the file's, NoMatchingHelmfileError is ignored.
Return(f) ==
    /\ pc[f] = "waiting"
    /\ LET k == Kid(f, kid[f]) IN
       /\ pc[k] = "done"
       /\ IF result[k] = "error" THEN Fail(f) ELSE Go(f, "nested") /\ UNCHANGED result
       /\ found' = found \cup {h \in {f} : result[k] = "matched"}
    /\ UNCHANGED <<inputs, kid, opts, prev, shared, errN, matchN, current, main, history>>

\* A bug: the repositories are added without the mutex of the context.
LockReposNot(f) ==
    /\ pc[f] = "repos" /\ Go(f, "add") /\ mu' = f
    /\ UNCHANGED <<inputs, result, kid, opts, found, prev, cwd, updated, at, tries, added,
                   errN, matchN, current, main, history>>

\* SyncReposOnce holds the mutex of the context.
LockRepos(f) ==
    /\ pc[f] = "repos" /\ mu = None /\ Go(f, "add") /\ mu' = f
    /\ UNCHANGED <<inputs, result, kid, opts, found, prev, cwd, updated, at, tries, added,
                   errN, matchN, current, main, history>>

addUnchanged == <<inputs, kid, opts, found, prev, cwd, errN, matchN, current, main, history>>

\* A file that is not to refresh repositories only logs in to registries.
Wanted(f) == {r \in {tree.repos[f][i] : i \in DOMAIN tree.repos[f]} :
                 f \in tree.offline => r \in tree.logins}

\* retryRepoOp: another attempt.
Retry(f) ==
    /\ tries[f] < RepoRetry /\ tries' = [tries EXCEPT ![f] = @ + 1]
    /\ UNCHANGED <<pc, result, updated, mu, at, added>>

\* The next repository: helm repo add or registry login, unless a file added one of this name.
\* It is tried again when it fails, unless the waiting is interrupted; when it fails for good,
\* those added before it are not recorded.
AddRepo(f) ==
    LET repo == tree.repos[f][at[f]]
        next == at' = [at EXCEPT ![f] = @ + 1] /\ tries' = [tries EXCEPT ![f] = 0] IN
    /\ pc[f] = "add" /\ at[f] \in DOMAIN tree.repos[f]
    /\ IF repo \in updated \/ repo \notin Wanted(f)
       THEN next /\ UNCHANGED <<pc, result, updated, mu, added>>
       ELSE \/ next /\ added' = [added EXCEPT ![repo] = @ + 1] /\ UNCHANGED <<pc, result, updated, mu>>
            \/ Retry(f)
            \/ Fail(f) /\ mu' = None /\ UNCHANGED <<updated, at, tries, added>>
    /\ UNCHANGED addUnchanged

ReposAdded(f) ==
    /\ pc[f] = "add" /\ at[f] > Len(tree.repos[f]) /\ Go(f, "converge")
    /\ updated' = updated \cup Wanted(f) /\ mu' = None
    /\ UNCHANGED <<result, at, tries, added, addUnchanged>>

SelectedOf(f) == Selected(opts[f], tree.common[f], tree.releases[f], tree.values[f])
ConditionsFail(f) == \E r \in tree.releases[f] : ConditionFails(r.condition, tree.values[f])

\* The command works on the file: releases match or not, or there is an error.
Converge(f) ==
    /\ pc[f] = "converge"
    /\ converged' = converged \cup {f}
    /\ \/ /\ ~ConditionsFail(f) /\ Go(f, IF reverse THEN "nested" ELSE "leave")
          /\ LET has == {f} \cap {h \in Files : SelectedOf(h) # {}} IN
             matched' = matched \cup has /\ found' = found \cup has
          /\ UNCHANGED result
       \/ Fail(f) /\ UNCHANGED <<matched, found>>
    /\ UNCHANGED <<inputs, kid, opts, prev, shared, errN, matchN, current, main, loaded>>

\* A bug: the directory is not restored after an error.
LeaveStays(f) ==
    /\ pc[f] = "leave"
    /\ result' = [result EXCEPT ![f] = IF @ # None THEN @ ELSE IF f \in found THEN "matched"
                                                              ELSE "nomatch"]
    /\ cwd' = IF prev[f] = None \/ result'[f] = "error" THEN cwd ELSE prev[f]
    /\ Go(f, IF Parallel /\ IsTop(f) THEN "send" ELSE "done")
    /\ UNCHANGED <<inputs, kid, opts, found, prev, repoVars, errN, matchN, current, main, history>>

\* The file is done, and within goes back to where it came from.
Leave(f) ==
    /\ pc[f] = "leave"
    /\ result' = [result EXCEPT ![f] = IF @ # None THEN @ ELSE IF f \in found THEN "matched"
                                                              ELSE "nomatch"]
    /\ cwd' = IF prev[f] = None THEN cwd ELSE prev[f]
    /\ Go(f, IF Parallel /\ IsTop(f) THEN "send" ELSE "done")
    /\ UNCHANGED <<inputs, kid, opts, found, prev, repoVars, errN, matchN, current, main, history>>

\* The goroutine of a file reports an error or a match; both channels have room for one
\* message per file and are read when all goroutines are done.
Send(f) ==
    /\ pc[f] = "send" /\ Go(f, "done")
    /\ IF result[f] = "error" THEN errN < N /\ errN' = errN + 1 ELSE UNCHANGED errN
    /\ IF result[f] = "matched" THEN matchN < N /\ matchN' = matchN + 1 ELSE UNCHANGED matchN
    /\ UNCHANGED <<inputs, result, kid, opts, found, prev, shared, current, main, history>>

----------------------------------------------------------------------------
(* The visit of the top files.                                              *)

TopDone(i) == pc[Top(i)] = "done"

Gather ==
    /\ main = None /\ Parallel
    /\ \A i \in 1..N : TopDone(i)
    /\ main' = IF errN > 0 THEN "error" ELSE IF matchN > 0 THEN "matched" ELSE "nomatch"
    /\ UNCHANGED <<inputs, pc, result, kid, opts, found, prev, shared, errN, matchN, current, history>>

\* The loop of the sequential visit ends with the first error.
NextFile ==
    /\ main = None /\ ~Parallel /\ TopDone(current)
    /\ IF result[Top(current)] # "error" /\ current < N
       THEN current' = current + 1 /\ Go(Top(current + 1), "start") /\ UNCHANGED main
       ELSE /\ main' = IF result[Top(current)] = "error" THEN "error"
                       ELSE IF \E i \in 1..N : result[Top(i)] = "matched" THEN "matched" ELSE "nomatch"
            /\ UNCHANGED <<current, pc>>
    /\ UNCHANGED <<inputs, result, kid, opts, found, prev, shared, errN, matchN, history>>

Done == main # None /\ UNCHANGED vars

File(f) == \/ Start(f) \/ Chdir(f) \/ Load(f) \/ Nested(f) \/ Return(f) \/ LockRepos(f)
           \/ AddRepo(f) \/ ReposAdded(f) \/ Converge(f) \/ Leave(f) \/ Send(f)

Next == (\E f \in Files : File(f)) \/ Gather \/ NextFile \/ Done

Spec == Init /\ [][Next]_vars

----------------------------------------------------------------------------
(* Properties.                                                              *)

Visited(f) == result[f] # None
Skipped(f) == ~IsTop(f) /\ Conflict(f)

\* The command fails exactly when a file it visited failed.  Otherwise it has visited every
\* file, with the sub-helmfiles of every file that has the environment; a sub-helmfile is only
\* skipped when no release of it could be selected by both ("In that case the subhelmfile can
\* be safely skipped without loading or evaluating it"), and where sub-helmfiles have no
\* selectors of their own, those of the command line decide for the whole tree: no match is
\* reported only if no file that was loaded has a release they select.
ResultSound ==
    main # None =>
        /\ main = "error" <=> \E f \in Files : result[f] = "error"
        /\ main # "error" =>
              /\ \A i \in 1..N : Visited(Top(i))
              /\ \A f \in loaded : \A i \in 1..Kids(f) :
                    LET k == Kid(f, i) IN
                    IF Skipped(k)
                    THEN Matching(tree.cli, tree.common[k],
                                  Matching(tree.selectors[k].filters, tree.common[k],
                                           tree.releases[k])) = {}
                    ELSE Visited(k)
              /\ main = "matched" <=> matched # {}
              /\ (\A f \in Files : ~tree.selectors[f].given) /\ ~tree.explicit =>
                    matched = {f \in loaded : Selected(tree.cli, tree.common[f], tree.releases[f],
                                                       tree.values[f]) # {}}

\* "All the nested state files under helmfiles: is processed in the order of definition":
\* each starts when the one before has ended without an error, all of them before the
\* releases of the file itself, or after them when the command destroys; and
\* --sequential-helmfiles keeps the order of the files.
Passable(f) == result[f] \in {"matched", "nomatch"} \/ Skipped(f)
VisitOrder ==
    /\ \A f \in Files :
         /\ \A i \in 1..Kids(f) : pc[Kid(f, i)] # "none" =>
               /\ \A j \in 1..(i - 1) : Passable(Kid(f, j))
               /\ reverse => f \in converged
         /\ f \in converged /\ ~reverse => \A i \in 1..Kids(f) : Passable(Kid(f, i))
    /\ ~Parallel => \A i \in 2..N : pc[Top(i)] # "none" => Passable(Top(i - 1))

\* A file that is loaded from the working directory works in its own directory as long as no
\* sub-helmfile of it is visited, and helmfile ends where it started.
OwnDirectory ==
    /\ \A f \in Files :
          pc[f] \in {"load", "nested", "repos", "add", "converge"} /\ ~Based(f) => cwd = DirOf[f]
    /\ main # None => cwd = Root

\* A file is converged on when all repositories it wants are added, and none is added twice by
\* the files of one command, in whatever order they come to it, unless adding one failed.
EveryRepoOnce ==
    /\ \A f \in converged : Wanted(f) \subseteq updated
    /\ (\A f \in Files : result[f] # "error") => \A r \in Repos : added[r] <= 1
    /\ \A r \in updated : added[r] > 0
=============================================================================
