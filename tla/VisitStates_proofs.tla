------------------------- MODULE VisitStates_proofs -------------------------
(***************************************************************************)
(* Proofs about the visit of the state files, for any files, sub-helmfiles *)
(* and selectors.                                                          *)
(***************************************************************************)
EXTENDS VisitStates, TLAPS

----------------------------------------------------------------------------
(* The inductive invariant.                                                 *)

Before == {"none", "start", "chdir", "load"}
After == {"leave", "send", "done"}
NoError == {"matched", "nomatch"}

\* A sub-helmfile that the next one, or the releases of the file, may follow.
Behind(k) == \/ pc[k] = "none" /\ Conflict(k)
             \/ pc[k] = "done" /\ result[k] \in NoError

\* A file with sub-helmfiles is past those before number kid, and waits for that one or is
\* past it, too, or has failed with it; those after it are not started.
Places ==
    \A f \in Files : \A i \in 1..Kids(f) :
        /\ i > kid[f] => pc[Kid(f, i)] = "none"
        /\ i < kid[f] => Behind(Kid(f, i))
        /\ i = kid[f] =>
              IF pc[f] = "waiting"
              THEN pc[Kid(f, i)] # "none" /\ ~Conflict(Kid(f, i))
              ELSE \/ Behind(Kid(f, i))
                   \/ /\ pc[Kid(f, i)] = "done" /\ result[Kid(f, i)] = "error"
                      /\ result[f] = "error" /\ (~reverse => f \notin converged)

\* The files above a file: it, the one that names it, and so on.
Above(f) ==
    {h \in Files : \A S \in SUBSET Files :
        /\ f \in S
        /\ \A p \in Files : \A i \in 1..Kids(p) : Kid(p, i) \in S => p \in S
        => h \in S}
Reached == \A f \in Files : pc[f] # "none" => \E i \in 1..N : Top(i) \in Above(f)

\* A file has a result when it is done, or an error before.
Results ==
    \A f \in Files :
        /\ pc[f] \in {"send", "done"} => result[f] # None
        /\ result[f] # None => pc[f] \in After
        /\ pc[f] = "leave" => result[f] \in {None, "error"}
        /\ pc[f] = "send" => Parallel /\ IsTop(f)

\* How far a file is: its sub-helmfiles come before its releases, or after them for destroy.
Stage(f) ==
    /\ pc[f] \in Before => kid[f] = 0 /\ f \notin found /\ f \notin loaded
    /\ pc[f] = "waiting" => kid[f] > 0
    /\ pc[f] \notin Before \cup After => f \in loaded
    /\ pc[f] \in {"repos", "add", "converge"} => f \notin converged
    /\ reverse => /\ pc[f] \in {"repos", "add", "converge"} => kid[f] = 0
                  /\ pc[f] \in {"nested", "waiting"} \/ kid[f] > 0 => f \in converged
    /\ ~reverse => /\ pc[f] \in {"repos", "add", "converge"} => kid[f] = Kids(f)
                   /\ f \in converged => pc[f] \in After /\ kid[f] = Kids(f)
    /\ pc[f] \in After /\ result[f] # "error" /\ f \in loaded => kid[f] = Kids(f) /\ f \in converged
Stages == \A f \in Files : Stage(f)

\* The top files, and what the visit returned for them.
Tops ==
    /\ Parallel => \A i \in 1..N : pc[Top(i)] # "none"
    /\ ~Parallel => \A i \in 1..N :
          /\ i < current => pc[Top(i)] = "done" /\ result[Top(i)] \in NoError
          /\ i = current => pc[Top(i)] # "none"
          /\ i > current => pc[Top(i)] = "none"
    /\ Parallel => /\ errN > 0 <=> \E i \in 1..N : pc[Top(i)] = "done" /\ result[Top(i)] = "error"
                   /\ matchN > 0 <=> \E i \in 1..N : pc[Top(i)] = "done" /\ result[Top(i)] = "matched"
Over ==
    main # None =>
        /\ \A i \in 1..N : pc[Top(i)] = "done" \/ (~Parallel /\ i > current)
        /\ ~Parallel => current = N \/ \E i \in 1..N : result[Top(i)] = "error"
        /\ main = IF \E i \in 1..N : result[Top(i)] = "error" THEN "error"
                  ELSE IF \E i \in 1..N : result[Top(i)] = "matched" THEN "matched" ELSE "nomatch"

\* Where releases were found, and that a file passes on what its sub-helmfiles found.
Finding(f) ==
    /\ result[f] = "matched" => f \in found
    /\ f \in found /\ pc[f] \in {"send", "done"} => result[f] \in {"matched", "error"}
    /\ f \in matched => f \in converged /\ SelectedOf(f) # {}
    /\ f \in converged /\ SelectedOf(f) # {} /\ result[f] # "error" => f \in matched
Found == /\ matched \subseteq found /\ (found # {} => matched # {})
         /\ \A f \in Files : \A i \in 1..Kids(f) :
               result[Kid(f, i)] = "matched" /\ ~(i = kid[f] /\ pc[f] = "waiting") => f \in found
Matches == Found /\ \A f \in Files : Finding(f)

\* Without selectors of their own, all files work with those of the command line.
OneSelection == (\A f \in Files : ~tree.selectors[f].given) /\ ~tree.explicit
Options == OneSelection => \A f \in Files : pc[f] # "none" \/ IsTop(f) => opts[f] = tree.cli

VInv == /\ TypeOK /\ Places /\ Reached /\ Results /\ Stages /\ Tops /\ Over /\ Matches /\ Options

\* The repositories: the mutex, and that what a file has gone through is added.
Mutex == \A f \in Files : mu = f <=> pc[f] = "add"
Early(f) == \/ pc[f] \in Before \cup {"repos"}
            \/ ~reverse /\ pc[f] \in {"nested", "waiting"}
Stocked(f) ==
    /\ Early(f) => at[f] = 1
    /\ pc[f] = "add" => \A i \in DOMAIN tree.repos[f] :
                           i < at[f] /\ tree.repos[f][i] \in Wanted(f) => added[tree.repos[f][i]] > 0
    /\ pc[f] = "converge" \/ f \in converged => Wanted(f) \subseteq updated
Repositories == (\A f \in Files : Stocked(f)) /\ \A r \in updated : added[r] > 0

\* Without an error, what was added is recorded, or about to be by whoever holds the mutex.
AddedOnce ==
    (\A f \in Files : result[f] # "error") =>
        \A r \in Repos :
            /\ added[r] <= 1
            /\ added[r] = 1 /\ r \notin updated =>
                  \E f \in Files : /\ pc[f] = "add" /\ r \in Wanted(f)
                                   /\ \E i \in DOMAIN tree.repos[f] : i < at[f] /\ tree.repos[f][i] = r

RInv == TypeOK /\ Mutex /\ Repositories

\* No file lists a repository twice: the code would add it twice.
ListedApart ==
    \A f \in Files : \A i, j \in DOMAIN tree.repos[f] : tree.repos[f][i] = tree.repos[f][j] => i = j

\* Parallel files are loaded from their own directories, but their sub-helmfiles are not: the
\* working directory is the process's.  It is one visit's own if all of them are below one file.
Alone == Parallel => \A i, j \in 1..N : Kids(Top(i)) > 0 /\ Kids(Top(j)) > 0 => i = j

\* The directory a file starts from and goes back to.
Hosts(f) == {p \in Files : ~Based(p) /\ \E i \in 1..Kids(p) : Kid(p, i) = f}
Some(S) == CHOOSE x \in S : TRUE
From(f) == IF Hosts(f) = {} THEN Root ELSE DirOf[Some(Hosts(f))]

\* The file that works in the working directory.
Focus(f) == ~Based(f) /\ \/ pc[f] \notin {"none", "waiting", "done"}
                         \/ /\ pc[f] = "waiting"
                            /\ \E i \in 1..Kids(f) : i = kid[f] /\ pc[Kid(f, i)] = "done"

Placed(f) ==
    IF Based(f) THEN prev[f] = None /\ pc[f] # "chdir"
    ELSE /\ pc[f] \in {"start", "chdir"} => cwd = From(f)
         /\ pc[f] = "chdir" => prev[f] = From(f)
         /\ Focus(f) /\ pc[f] \notin {"start", "chdir"} => cwd = DirOf[f]
         /\ pc[f] \notin {"none", "start", "done"} =>
               prev[f] = From(f) \/ (prev[f] = None /\ From(f) = DirOf[f])
Directories ==
    /\ \A f, h \in Files : Focus(f) /\ Focus(h) => f = h
    /\ (\A f \in Files : ~Focus(f)) => cwd = Root
    /\ \A f \in Files : Placed(f)
DInv == Alone => Directories

----------------------------------------------------------------------------
(* The shape of a tree of files.                                            *)

LEMMA Shape ==
    ASSUME TypeOK
    PROVE  /\ N \in Nat /\ N > 0
           /\ \A i \in 1..N : Top(i) \in Files /\ IsTop(Top(i))
           /\ \A i, j \in 1..N : Top(i) = Top(j) => i = j
           /\ \A f \in Files : IsTop(f) => \E i \in 1..N : Top(i) = f
           /\ \A f \in Files : Kids(f) \in Nat
           /\ \A f \in Files : \A i \in 1..Kids(f) : Kid(f, i) \in Files /\ ~IsTop(Kid(f, i))
           /\ \A f, h \in Files : \A i \in 1..Kids(f), j \in 1..Kids(h) :
                 Kid(f, i) = Kid(h, j) => f = h /\ i = j
<1>1. tree \in Trees /\ reverse \in BOOLEAN
  BY DEF TypeOK
<1>2. /\ tree.top \in Seq(Files) /\ Len(tree.top) > 0 /\ tree.nested \in [Files -> Seq(Files)]
  BY <1>1, VisitStatesAssumption
<1>3. /\ \A i, j \in DOMAIN tree.top : tree.top[i] = tree.top[j] => i = j
      /\ \A f, h \in Files : \A i \in DOMAIN tree.nested[f] :
            /\ \A j \in DOMAIN tree.nested[h] : tree.nested[f][i] = tree.nested[h][j] => f = h /\ i = j
            /\ \A j \in DOMAIN tree.top : tree.nested[f][i] # tree.top[j]
  BY <1>1, ListedOnce
<1>4. N \in Nat /\ N > 0 /\ DOMAIN tree.top = 1..N
  BY <1>2 DEF N
<1>5. \A f \in Files : Kids(f) \in Nat /\ DOMAIN tree.nested[f] = 1..Kids(f)
  BY <1>2 DEF Kids
<1>6. \A i \in 1..N : Top(i) \in Files /\ IsTop(Top(i))
  <2> SUFFICES ASSUME NEW i \in 1..N
               PROVE  Top(i) \in Files /\ IsTop(Top(i))
    OBVIOUS
  <2>1. \E j \in 1..N : Top(i) = tree.top[j]
    BY <1>1, <1>4 DEF Top
  <2> QED BY <1>2, <1>4, <2>1 DEF IsTop
<1>7. \A i, j \in 1..N : Top(i) = Top(j) => i = j
  <2> SUFFICES ASSUME NEW i \in 1..N, NEW j \in 1..N, Top(i) = Top(j)
               PROVE  i = j
    OBVIOUS
  <2>1. CASE reverse
    <3>1. N + 1 - i \in 1..N /\ N + 1 - j \in 1..N /\ tree.top[N + 1 - i] = tree.top[N + 1 - j]
      BY <1>4, <2>1 DEF Top
    <3>2. N + 1 - i = N + 1 - j
      BY <1>3, <1>4, <3>1
    <3> QED BY <1>4, <3>2
  <2>2. CASE ~reverse
    BY <1>3, <1>4, <2>2 DEF Top
  <2> QED BY <2>1, <2>2
<1>8. \A f \in Files : IsTop(f) => \E i \in 1..N : Top(i) = f
  <2> SUFFICES ASSUME NEW f \in Files, NEW j \in 1..N, tree.top[j] = f
               PROVE  \E i \in 1..N : Top(i) = f
    BY DEF IsTop
  <2>1. CASE reverse
    <3>1. N + 1 - j \in 1..N /\ N + 1 - (N + 1 - j) = j
      BY <1>4
    <3>2. Top(N + 1 - j) = f
      BY <2>1, <3>1 DEF Top
    <3> QED BY <3>1, <3>2
  <2>2. CASE ~reverse
    BY <2>2 DEF Top
  <2> QED BY <2>1, <2>2
<1>9. ASSUME NEW f \in Files, NEW i \in 1..Kids(f)
      PROVE  Kid(f, i) \in Files /\ ~IsTop(Kid(f, i))
  <2>1. PICK j \in 1..Kids(f) : Kid(f, i) = tree.nested[f][j]
    BY <1>1, <1>5 DEF Kid
  <2>2. tree.nested[f][j] \in Files
    BY <1>2, <1>5
  <2>3. \A l \in 1..N : tree.nested[f][j] # tree.top[l]
    BY <1>3, <1>4, <1>5
  <2> QED BY <2>1, <2>2, <2>3 DEF IsTop
<1>10. ASSUME NEW f \in Files, NEW h \in Files, NEW i \in 1..Kids(f), NEW j \in 1..Kids(h),
              Kid(f, i) = Kid(h, j)
       PROVE  f = h /\ i = j
  <2>1. CASE reverse
    <3>1. /\ Kids(f) + 1 - i \in 1..Kids(f) /\ Kids(h) + 1 - j \in 1..Kids(h)
          /\ tree.nested[f][Kids(f) + 1 - i] = tree.nested[h][Kids(h) + 1 - j]
      BY <1>5, <1>10, <2>1 DEF Kid
    <3>2. f = h /\ Kids(f) + 1 - i = Kids(h) + 1 - j
      BY <1>3, <1>5, <3>1
    <3> QED BY <1>5, <3>2
  <2>2. CASE ~reverse
    BY <1>3, <1>5, <1>10, <2>2 DEF Kid
  <2> QED BY <2>1, <2>2
<1> QED BY <1>4, <1>5, <1>6, <1>7, <1>8, <1>9, <1>10

\* It is the same throughout a command.
LEMMA Fixed ==
    ASSUME UNCHANGED inputs
    PROVE  /\ N' = N /\ reverse' = reverse /\ tree' = tree /\ sequential' = sequential
           /\ Parallel' = Parallel /\ OneSelection' = OneSelection
           /\ \A i : Top(i)' = Top(i)
           /\ \A f : /\ Kids(f)' = Kids(f) /\ IsTop(f)' = IsTop(f) /\ Based(f)' = Based(f)
                     /\ Conflict(f)' = Conflict(f) /\ Wanted(f)' = Wanted(f)
           /\ \A f, i : Kid(f, i)' = Kid(f, i)
BY DEF inputs, N, Parallel, OneSelection, Top, Kids, IsTop, Based, Conflict, Wanted, Kid

LEMMA AboveFixed ==
    ASSUME UNCHANGED inputs
    PROVE  \A f : Above(f)' = Above(f)
BY Fixed DEF Above

LEMMA Kinds ==
    ASSUME TypeOK
    PROVE  /\ N \in Nat /\ current \in 1..N /\ current \in Nat
           /\ pc \in [Files -> Steps] /\ kid \in [Files -> Nat]
           /\ \A f \in Files : kid[f] \in 0..Kids(f) /\ kid[f] \in Nat /\ Kids(f) \in Nat
<1>1. N \in Nat /\ \A f \in Files : Kids(f) \in Nat
  BY Shape
<1>2. /\ pc \in [Files -> Steps] /\ kid \in [Files -> Nat] /\ current \in 1..N
      /\ \A f \in Files : kid[f] \in 0..Kids(f)
  BY DEF TypeOK
<1> QED BY <1>1, <1>2

----------------------------------------------------------------------------
(* Every step keeps the state well formed.                                  *)

LEMMA Lists ==
    ASSUME TypeOK
    PROVE  /\ \A f \in Files : Len(tree.repos[f]) \in Nat /\ DOMAIN tree.repos[f] = 1..Len(tree.repos[f])
           /\ \A f \in Files : \A i \in DOMAIN tree.repos[f] : tree.repos[f][i] \in Repos
           /\ \A f \in Files : Wanted(f) \subseteq Repos
<1>1. tree.repos \in [Files -> Seq(Repos)]
  BY VisitStatesAssumption DEF TypeOK
<1> QED BY <1>1 DEF Wanted

\* The directories and results are told from None.
Dirs == {DirOf[f] : f \in Files} \cup {Root}
LEMMA Nones ==
    /\ None \notin Dirs /\ None \notin Files /\ None \notin {"matched", "nomatch", "error"}
    /\ \A f \in Files : DirOf[f] \in Dirs
BY VisitStatesAssumption DEF Dirs

LEMMA InitTypes == Init => TypeOK
<1> SUFFICES ASSUME Init
             PROVE  TypeOK
  OBVIOUS
<1>1. /\ tree.top \in Seq(Files) /\ Len(tree.top) > 0 /\ tree.nested \in [Files -> Seq(Files)]
      /\ tree.repos \in [Files -> Seq(Repos)] /\ RepoRetry \in Nat
  BY VisitStatesAssumption DEF Init
<1>2. \A f \in Files : Kids(f) \in Nat /\ Len(tree.repos[f]) \in Nat
  BY <1>1 DEF Kids
<1>3. N \in Nat /\ N > 0
  BY <1>1 DEF N
<1>4. pc \in [Files -> Steps] /\ \A f \in Files : pc[f] \notin {"send", "done"}
  BY DEF Init, Steps
<1>5. /\ result \in [Files -> {None, "matched", "nomatch", "error"}]
      /\ prev \in [Files -> Dirs \cup {None}] /\ added \in [Repos -> Nat]
  BY DEF Init
<1> QED BY <1>1, <1>2, <1>3, <1>4, <1>5 DEF Init, TypeOK, Dirs

\* The part of the state that a file's own steps write.
LEMMA FileTypes ==
    ASSUME TypeOK, UNCHANGED inputs,
           pc' \in [Files -> Steps], result' \in [Files -> {None, "matched", "nomatch", "error"}],
           \A f \in Files : pc'[f] \in {"send", "done"} <=> result'[f] # None /\ pc'[f] # "leave",
           kid' \in [Files -> Nat], \A f \in Files : kid'[f] \in 0..Kids(f), DOMAIN opts' = Files,
           cwd' \in Dirs, prev' \in [Files -> Dirs \cup {None}],
           updated' \subseteq Repos, added' \in [Repos -> Nat], mu' \in Files \cup {None},
           at' \in [Files -> Nat], tries' \in [Files -> Nat],
           \A f \in Files : at'[f] \in 1..(Len(tree.repos[f]) + 1) /\ tries'[f] \in 0..RepoRetry,
           errN' \in 0..N, matchN' \in 0..N, current' \in 1..N,
           main' \in {None, "matched", "nomatch", "error"},
           matched' \subseteq converged', converged' \subseteq loaded',
           loaded' \subseteq Files, found' \subseteq Files
    PROVE  TypeOK'
<1>1. /\ tree' \in Trees /\ sequential' \in BOOLEAN /\ reverse' \in BOOLEAN
  BY DEF TypeOK, inputs
<1>2. \A f \in Files : kid'[f] \in 0..Kids(f)'
  BY Fixed DEF TypeOK
<1>3. \A f \in Files : at'[f] \in 1..(Len(tree'.repos[f]) + 1) /\ tries'[f] \in 0..RepoRetry
  BY Fixed DEF TypeOK
<1>4. {errN', matchN'} \subseteq 0..N' /\ current' \in 1..N'
  BY Fixed
<1> QED BY <1>1, <1>2, <1>3, <1>4 DEF TypeOK, Dirs

\* A file fails, or goes on to a step that is not its last.
LEMMA GoTypes ==
    ASSUME TypeOK, NEW f \in Files, pc[f] \notin {"leave", "send", "done"},
           \/ Fail(f)
           \/ (\E x \in Steps \ {"send", "done"} : Go(f, x)) /\ UNCHANGED result
    PROVE  /\ pc' \in [Files -> Steps] /\ result' \in [Files -> {None, "matched", "nomatch", "error"}]
           /\ \A h \in Files : pc'[h] \in {"send", "done"} <=> result'[h] # None /\ pc'[h] # "leave"
<1>1. CASE Fail(f)
  BY <1>1, Nones DEF Fail, Go, TypeOK, Steps
<1>2. CASE (\E x \in Steps \ {"send", "done"} : Go(f, x)) /\ UNCHANGED result
  BY <1>2 DEF Go, TypeOK
<1> QED BY <1>1, <1>2

LEMMA StepTypes ==
    ASSUME TypeOK, Places, Stages, NEW f \in Files, File(f)
    PROVE  TypeOK'
<1> DEFINE tables == /\ kid \in [Files -> Nat] /\ \A h \in Files : kid[h] \in 0..Kids(h)
                     /\ DOMAIN opts = Files /\ at \in [Files -> Nat] /\ tries \in [Files -> Nat]
                     /\ \A h \in Files : at[h] \in 1..(Len(tree.repos[h]) + 1) /\ tries[h] \in 0..RepoRetry
                     /\ cwd \in Dirs /\ prev \in [Files -> Dirs \cup {None}]
                     /\ updated \subseteq Repos /\ added \in [Repos -> Nat] /\ mu \in Files \cup {None}
                     /\ errN \in 0..N /\ matchN \in 0..N /\ current \in 1..N
                     /\ main \in {None, "matched", "nomatch", "error"}
                     /\ matched \subseteq converged /\ converged \subseteq loaded
                     /\ loaded \subseteq Files /\ found \subseteq Files
<1>1. tables
  BY DEF TypeOK, Dirs
<1>2. CASE Start(f)
  <2>1. prev' \in [Files -> Dirs \cup {None}]
    <3>1. prev' = prev \/ prev' = [prev EXCEPT ![f] = None] \/ prev' = [prev EXCEPT ![f] = cwd]
      BY <1>2 DEF Start
    <3> QED BY <1>1, <3>1
  <2>2. /\ pc' \in [Files -> Steps] /\ result' \in [Files -> {None, "matched", "nomatch", "error"}]
        /\ \A h \in Files : pc'[h] \in {"send", "done"} <=> result'[h] # None /\ pc'[h] # "leave"
    BY <1>2, GoTypes DEF Start, Steps
  <2> QED BY <1>1, <1>2, <2>1, <2>2, FileTypes DEF Start, shared, repoVars, history
<1>3. CASE Chdir(f)
  BY <1>1, <1>3, GoTypes, FileTypes, Nones DEF Chdir, Steps, repoVars, history
<1>4. CASE Load(f)
  <2>1. /\ pc' \in [Files -> Steps] /\ result' \in [Files -> {None, "matched", "nomatch", "error"}]
        /\ \A h \in Files : pc'[h] \in {"send", "done"} <=> result'[h] # None /\ pc'[h] # "leave"
    BY <1>4, GoTypes DEF Load, Steps
  <2>2. loaded \subseteq loaded' /\ loaded' \subseteq Files
    BY <1>1, <1>4 DEF Load
  <2> QED BY <1>1, <1>4, <2>1, <2>2, FileTypes DEF Load, shared, repoVars
<1>5. CASE Nested(f)
  <2>1. CASE kid[f] < Kids(f)
    <3>1. kid[f] \in Nat /\ Kids(f) \in Nat
      BY <1>1, Shape
    <3> DEFINE i == kid[f] + 1
    <3>5. i \in 1..Kids(f) /\ i > kid[f]
      BY <2>1, <3>1
    <3>6. Kid(f, i) \in Files /\ pc[Kid(f, i)] = "none"
      BY <3>5, Shape DEF Places
    <3>7. kid' = [kid EXCEPT ![f] = i] /\ DOMAIN opts' = Files
      <4>1. kid' = [kid EXCEPT ![f] = i]
        BY <1>5, <2>1 DEF Nested
      <4>2. opts' = opts \/ opts' = [opts EXCEPT ![Kid(f, i)] = Passed(f, Kid(f, i))]
        BY <1>5, <2>1 DEF Nested
      <4> QED BY <1>1, <4>1, <4>2
    <3>2. kid' \in [Files -> Nat] /\ \A h \in Files : kid'[h] \in 0..Kids(h)
      BY <1>1, <3>1, <3>5, <3>7
    <3>3. /\ pc' \in [Files -> Steps] /\ result' \in [Files -> {None, "matched", "nomatch", "error"}]
          /\ \A h \in Files : pc'[h] \in {"send", "done"} <=> result'[h] # None /\ pc'[h] # "leave"
      <4>1. CASE Conflict(Kid(f, i))
        BY <1>5, <2>1, <4>1 DEF Nested, TypeOK
      <4>2. CASE ~Conflict(Kid(f, i))
        <5>1. pc' = [pc EXCEPT ![f] = "waiting", ![Kid(f, i)] = "start"] /\ UNCHANGED result
          BY <1>5, <2>1, <4>2 DEF Nested
        <5>2. pc[f] = "nested"
          BY <1>5 DEF Nested
        <5> QED BY <3>6, <5>1, <5>2 DEF TypeOK, Steps
      <4> QED BY <4>1, <4>2
    <3> QED BY <1>1, <1>5, <2>1, <3>2, <3>3, <3>7, FileTypes DEF Nested, shared, repoVars, history
  <2>2. CASE ~(kid[f] < Kids(f))
    <3>1. /\ pc' \in [Files -> Steps] /\ result' \in [Files -> {None, "matched", "nomatch", "error"}]
          /\ \A h \in Files : pc'[h] \in {"send", "done"} <=> result'[h] # None /\ pc'[h] # "leave"
      BY <1>5, <2>2, GoTypes DEF Nested, Steps
    <3> QED BY <1>1, <1>5, <2>2, <3>1, FileTypes DEF Nested, shared, repoVars, history
  <2> QED BY <2>1, <2>2
<1>6. CASE Return(f)
  <2>1. /\ pc' \in [Files -> Steps] /\ result' \in [Files -> {None, "matched", "nomatch", "error"}]
        /\ \A h \in Files : pc'[h] \in {"send", "done"} <=> result'[h] # None /\ pc'[h] # "leave"
    BY <1>6, GoTypes DEF Return, Steps
  <2>2. found' \subseteq Files
    BY <1>1, <1>6 DEF Return
  <2> QED BY <1>1, <1>6, <2>1, <2>2, FileTypes DEF Return, shared, repoVars, history
<1>7. CASE LockRepos(f)
  BY <1>1, <1>7, GoTypes, FileTypes DEF LockRepos, Steps, history
<1>8. CASE AddRepo(f)
  <2>1. /\ pc' \in [Files -> Steps] /\ result' \in [Files -> {None, "matched", "nomatch", "error"}]
        /\ \A h \in Files : pc'[h] \in {"send", "done"} <=> result'[h] # None /\ pc'[h] # "leave"
    BY <1>8, GoTypes DEF AddRepo, Retry, TypeOK
  <2>2. at[f] \in 1..Len(tree.repos[f]) /\ Len(tree.repos[f]) \in Nat /\ RepoRetry \in Nat
    BY <1>8, Lists, VisitStatesAssumption DEF AddRepo
  <2>3. \/ UNCHANGED <<at, tries>>
        \/ at' = [at EXCEPT ![f] = @ + 1] /\ tries' = [tries EXCEPT ![f] = 0]
        \/ at' = at /\ tries[f] < RepoRetry /\ tries' = [tries EXCEPT ![f] = @ + 1]
    BY <1>8 DEF AddRepo, Retry
  <2>4. /\ at' \in [Files -> Nat] /\ tries' \in [Files -> Nat]
        /\ \A h \in Files : at'[h] \in 1..(Len(tree.repos[h]) + 1) /\ tries'[h] \in 0..RepoRetry
    <3>1. /\ at \in [Files -> Nat] /\ tries \in [Files -> Nat]
          /\ \A h \in Files : at[h] \in 1..(Len(tree.repos[h]) + 1) /\ tries[h] \in 0..RepoRetry
      BY <1>1
    <3> HIDE DEF tables
    <3>2. CASE UNCHANGED <<at, tries>>
      BY <3>1, <3>2
    <3>3. CASE at' = [at EXCEPT ![f] = @ + 1] /\ tries' = [tries EXCEPT ![f] = 0]
      <4>1. at[f] + 1 \in 1..(Len(tree.repos[f]) + 1) /\ at[f] + 1 \in Nat /\ 0 \in 0..RepoRetry
        BY <2>2
      <4>2. at' \in [Files -> Nat] /\ \A h \in Files : at'[h] \in 1..(Len(tree.repos[h]) + 1)
        BY <3>1, <3>3, <4>1
      <4>3. tries' \in [Files -> Nat] /\ \A h \in Files : tries'[h] \in 0..RepoRetry
        BY <3>1, <3>3, <4>1
      <4> QED BY <4>2, <4>3
    <3>4. CASE at' = at /\ tries[f] < RepoRetry /\ tries' = [tries EXCEPT ![f] = @ + 1]
      <4>1. tries[f] + 1 \in 0..RepoRetry /\ tries[f] + 1 \in Nat
        BY <2>2, <3>1, <3>4
      <4>2. tries' \in [Files -> Nat] /\ \A h \in Files : tries'[h] \in 0..RepoRetry
        BY <3>1, <3>4, <4>1
      <4> QED BY <3>1, <3>4, <4>2
    <3> QED BY <2>3, <3>2, <3>3, <3>4
  <2>5. /\ updated' = updated /\ mu' \in {mu, None}
        /\ added' = added \/ added' = [added EXCEPT ![tree.repos[f][at[f]]] = @ + 1]
    BY <1>8 DEF AddRepo, Retry
  <2>6. tree.repos[f][at[f]] \in Repos
    BY <1>8, Lists DEF AddRepo
  <2>7. updated' \subseteq Repos /\ added' \in [Repos -> Nat] /\ mu' \in Files \cup {None}
    <3>1. added \in [Repos -> Nat]
      BY <1>1
    <3>2. ASSUME NEW r \in Repos, added' = [added EXCEPT ![r] = @ + 1]
          PROVE  added' \in [Repos -> Nat]
      BY <3>1, <3>2
    <3>3. added' \in [Repos -> Nat]
      BY <2>5, <2>6, <3>1, <3>2
    <3> QED BY <1>1, <2>5, <3>3
  <2> QED BY <1>1, <1>8, <2>1, <2>4, <2>7, FileTypes DEF AddRepo, addUnchanged, history
<1>9. CASE ReposAdded(f)
  BY <1>1, <1>9, GoTypes, FileTypes, Lists DEF ReposAdded, addUnchanged, Steps, history
<1>10. CASE Converge(f)
  <2>1. /\ pc' \in [Files -> Steps] /\ result' \in [Files -> {None, "matched", "nomatch", "error"}]
        /\ \A h \in Files : pc'[h] \in {"send", "done"} <=> result'[h] # None /\ pc'[h] # "leave"
    BY <1>10, GoTypes DEF Converge, Steps
  <2>2. f \in loaded
    BY <1>10 DEF Converge, Stages, Stage, Before, After
  <2>3. matched' \subseteq converged' /\ converged' \subseteq loaded' /\ found' \subseteq Files
    BY <1>1, <1>10, <2>2 DEF Converge
  <2> QED BY <1>1, <1>10, <2>1, <2>3, FileTypes DEF Converge, shared, repoVars
<1>11. CASE Leave(f)
  BY <1>1, <1>11, Nones, FileTypes DEF Leave, Go, TypeOK, Steps, repoVars, history
<1>12. CASE Send(f)
  <2>1. /\ pc' \in [Files -> Steps] /\ result' \in [Files -> {None, "matched", "nomatch", "error"}]
        /\ \A h \in Files : pc'[h] \in {"send", "done"} <=> result'[h] # None /\ pc'[h] # "leave"
    BY <1>12 DEF Send, Go, TypeOK, Steps
  <2>2. errN' \in 0..N /\ matchN' \in 0..N
    <3>1. /\ errN' = errN \/ (errN < N /\ errN' = errN + 1)
          /\ matchN' = matchN \/ (matchN < N /\ matchN' = matchN + 1)
      BY <1>12 DEF Send
    <3>2. N \in Nat
      BY Shape
    <3> HIDE DEF N
    <3> QED BY <1>1, <3>1, <3>2
  <2> QED BY <1>1, <1>12, <2>1, <2>2, FileTypes DEF Send, shared, repoVars, history
<1> QED BY <1>2, <1>3, <1>4, <1>5, <1>6, <1>7, <1>8, <1>9, <1>10, <1>11, <1>12 DEF File

----------------------------------------------------------------------------
(* What a step does to the places of the files.                             *)

\* A file goes on without a sub-helmfile.
Turn(f) ==
    /\ pc[f] \notin {"none", "waiting", "done"} /\ pc'[f] \notin {"none", "waiting"}
    /\ result[f] = "error" => result'[f] = "error"
    /\ \A h \in Files : h # f => pc'[h] = pc[h] /\ result'[h] = result[h]
    /\ \A h \in Files : h \in converged' <=> h \in converged \/ (h = f /\ pc[f] = "converge")
    /\ UNCHANGED <<inputs, kid, opts, current, main>>
    /\ pc'[f] = "leave" => result'[f] \in {None, "error"}
    /\ pc'[f] = "send" => Parallel /\ IsTop(f)
    /\ IF pc[f] = "send" THEN result'[f] = result[f] ELSE Parallel /\ IsTop(f) => pc'[f] # "done"

\* What changes only with the end of a file.
Quiet == UNCHANGED <<inputs, result, current, main, errN, matchN, loaded, converged, matched>>

\* It skips or starts its next sub-helmfile, or goes on after one.
Skip(f, i) ==
    /\ pc[f] = "nested" /\ i = kid[f] + 1 /\ Conflict(Kid(f, i))
    /\ kid' = [kid EXCEPT ![f] = i] /\ UNCHANGED <<pc, opts, found>>
Begin(f, i) ==
    /\ pc[f] = "nested" /\ i = kid[f] + 1 /\ ~Conflict(Kid(f, i)) /\ pc[Kid(f, i)] = "none"
    /\ kid' = [kid EXCEPT ![f] = i] /\ UNCHANGED found
    /\ pc' = [pc EXCEPT ![f] = "waiting", ![Kid(f, i)] = "start"]
    /\ opts' = [opts EXCEPT ![Kid(f, i)] = Passed(f, Kid(f, i))]
Back(f, i) ==
    /\ pc[f] = "waiting" /\ i = kid[f] /\ pc[Kid(f, i)] = "done"
    /\ IF result[Kid(f, i)] = "error" THEN Fail(f) ELSE Go(f, "nested") /\ UNCHANGED result
    /\ found' = found \cup {h \in {f} : result[Kid(f, i)] = "matched"}
    /\ UNCHANGED <<inputs, kid, opts, current, main, errN, matchN, loaded, converged, matched>>

\* The part of Nested that is not a turn, and Return, with their sub-helmfile named.
LEMMA NestedSteps ==
    ASSUME TypeOK, Places, Stages, NEW f \in Files
    PROVE  /\ Nested(f) /\ kid[f] < Kids(f) =>
                 Quiet /\ \E i \in 1..Kids(f) : Skip(f, i) \/ Begin(f, i)
           /\ Return(f) => \E i \in 1..Kids(f) : Back(f, i)
<1>1. kid[f] \in Nat /\ kid[f] \in 0..Kids(f) /\ Kids(f) \in Nat
  BY Shape DEF TypeOK
<1>2. ASSUME Nested(f), kid[f] < Kids(f)
      PROVE  Quiet /\ \E i \in 1..Kids(f) : Skip(f, i) \/ Begin(f, i)
  <2> DEFINE i == kid[f] + 1
  <2>1. i \in 1..Kids(f) /\ i > kid[f]
    BY <1>1, <1>2
  <2>2. pc[Kid(f, i)] = "none"
    BY <2>1 DEF Places
  <2>3. Skip(f, i) \/ Begin(f, i)
    BY <1>2, <2>2 DEF Nested, Skip, Begin
  <2>4. Quiet
    BY <1>2 DEF Nested, Quiet, history
  <2> HIDE DEF i
  <2> QED BY <2>1, <2>3, <2>4
<1>3. ASSUME Return(f)
      PROVE  \E i \in 1..Kids(f) : Back(f, i)
  <2> DEFINE i == kid[f]
  <2>1. i \in 1..Kids(f)
    BY <1>1, <1>3 DEF Return, Stages, Stage
  <2>2. Back(f, i)
    BY <1>3 DEF Return, Back, history
  <2> HIDE DEF i
  <2> QED BY <2>1, <2>2
<1> QED BY <1>2, <1>3

LEMMA Turns ==
    ASSUME TypeOK, Results, NEW f \in Files,
           \/ Start(f) \/ Chdir(f) \/ Load(f) \/ (Nested(f) /\ ~(kid[f] < Kids(f))) \/ LockRepos(f)
           \/ AddRepo(f) \/ ReposAdded(f) \/ Converge(f) \/ Leave(f) \/ Send(f)
    PROVE  Turn(f)
<1>1. pc \in [Files -> Steps] /\ DOMAIN result = Files
  BY DEF TypeOK
<1>2. ASSUME NEW x \in {"leave", "chdir", "load", "nested", "repos", "add", "converge"}, Go(f, x)
      PROVE  pc'[f] = x /\ \A h \in Files : h # f => pc'[h] = pc[h]
  BY <1>1, <1>2 DEF Go
<1>3. ASSUME Fail(f)
      PROVE  /\ pc'[f] = "leave" /\ result'[f] = "error"
             /\ \A h \in Files : h # f => pc'[h] = pc[h] /\ result'[h] = result[h]
  BY <1>1, <1>3 DEF Fail, Go
<1>14. pc[f] \notin {"leave", "send", "done"} => result[f] = None
  BY DEF TypeOK
<1>4. CASE Start(f)
  BY <1>2, <1>3, <1>14, <1>4 DEF Start, Turn, history
<1>5. CASE Chdir(f)
  BY <1>2, <1>3, <1>14, <1>5 DEF Chdir, Turn, history
<1>6. CASE Load(f)
  BY <1>2, <1>3, <1>14, <1>6 DEF Load, Turn, history
<1>7. CASE Nested(f) /\ ~(kid[f] < Kids(f))
  BY <1>2, <1>14, <1>7 DEF Nested, Turn, history
<1>8. CASE LockRepos(f)
  BY <1>2, <1>14, <1>8 DEF LockRepos, Turn, history
<1>9. CASE AddRepo(f)
  BY <1>1, <1>3, <1>9 DEF AddRepo, Retry, Turn, addUnchanged, history
<1>10. CASE ReposAdded(f)
  BY <1>2, <1>14, <1>10 DEF ReposAdded, Turn, addUnchanged, history
<1>11. CASE Converge(f)
  BY <1>2, <1>3, <1>14, <1>11 DEF Converge, Turn
<1>12. CASE Leave(f)
  <2>1. /\ pc[f] = "leave" /\ pc'[f] = IF Parallel /\ IsTop(f) THEN "send" ELSE "done"
        /\ \A h \in Files : h # f => pc'[h] = pc[h]
    BY <1>1, <1>12 DEF Leave, Go
  <2>2. /\ result[f] = "error" => result'[f] = "error"
        /\ \A h \in Files : h # f => result'[h] = result[h]
    BY <1>1, <1>12, Nones DEF Leave
  <2> QED BY <1>12, <2>1, <2>2 DEF Leave, Turn, history
<1>13. CASE Send(f)
  BY <1>1, <1>13 DEF Send, Go, Turn, history
<1> QED BY <1>4, <1>5, <1>6, <1>7, <1>8, <1>9, <1>10, <1>11, <1>12, <1>13

LEMMA Moves ==
    ASSUME TypeOK, Places, Results, Stages, NEW f \in Files, File(f)
    PROVE  \/ Turn(f)
           \/ Quiet /\ \E i \in 1..Kids(f) : Skip(f, i) \/ Begin(f, i)
           \/ \E i \in 1..Kids(f) : Back(f, i)
<1>1. CASE Nested(f) /\ kid[f] < Kids(f)
  BY <1>1, NestedSteps
<1>2. CASE Return(f)
  BY <1>2, NestedSteps
<1> QED BY <1>1, <1>2, Turns DEF File

\* The visit of the top files goes on, or is over.
Launch ==
    /\ main = None /\ ~Parallel /\ current < N
    /\ pc[Top(current)] = "done" /\ result[Top(current)] # "error"
    /\ current' = current + 1 /\ pc' = [pc EXCEPT ![Top(current + 1)] = "start"]
    /\ UNCHANGED <<inputs, result, kid, opts, found, prev, shared, errN, matchN, main, history>>
Finish ==
    /\ main = None
    /\ \/ Parallel /\ \A i \in 1..N : pc[Top(i)] = "done"
       \/ /\ ~Parallel /\ pc[Top(current)] = "done"
          /\ result[Top(current)] = "error" \/ ~(current < N)
    /\ main' = IF \E i \in 1..N : result[Top(i)] = "error" THEN "error"
               ELSE IF \E i \in 1..N : result[Top(i)] = "matched" THEN "matched" ELSE "nomatch"
    /\ UNCHANGED <<inputs, pc, result, kid, opts, found, prev, shared, errN, matchN, current, history>>

LEMMA TopMoves ==
    ASSUME TypeOK, Results, Tops, Gather \/ NextFile
    PROVE  Launch \/ Finish
<1>1. N \in Nat /\ N > 0 /\ current \in 1..N
  BY Shape DEF TypeOK
<1>2. CASE Gather
  <2>1. /\ main = None /\ Parallel /\ \A i \in 1..N : pc[Top(i)] = "done"
        /\ UNCHANGED <<inputs, pc, result, kid, opts, found, prev, shared, errN, matchN, current, history>>
        /\ main' = IF errN > 0 THEN "error" ELSE IF matchN > 0 THEN "matched" ELSE "nomatch"
    BY <1>2 DEF Gather, TopDone
  <2>2. errN > 0 <=> \E i \in 1..N : result[Top(i)] = "error"
    BY <2>1 DEF Tops
  <2>3. matchN > 0 <=> \E i \in 1..N : result[Top(i)] = "matched"
    BY <2>1 DEF Tops
  <2> QED BY <2>1, <2>2, <2>3 DEF Finish
<1>3. CASE NextFile
  <2>1. CASE result[Top(current)] # "error" /\ current < N
    BY <1>3, <2>1 DEF NextFile, TopDone, Go, Launch
  <2>2. CASE ~(result[Top(current)] # "error" /\ current < N)
    <3>1. /\ main = None /\ ~Parallel /\ pc[Top(current)] = "done"
          /\ UNCHANGED <<inputs, pc, result, kid, opts, found, prev, shared, errN, matchN, current, history>>
          /\ main' = IF result[Top(current)] = "error" THEN "error"
                     ELSE IF \E i \in 1..N : result[Top(i)] = "matched" THEN "matched" ELSE "nomatch"
      BY <1>3, <2>2 DEF NextFile, TopDone
    <3>2. (\E i \in 1..N : result[Top(i)] = "error") <=> result[Top(current)] = "error"
      <4>1. ASSUME NEW i \in 1..N, result[Top(i)] = "error"
            PROVE  i = current
        <5>1. Top(i) \in Files
          BY Shape
        <5>2. pc[Top(i)] # "none"
          BY <4>1, <5>1, Nones DEF Results, After
        <5>3. ~(i > current) /\ ~(i < current)
          BY <3>1, <4>1, <5>2 DEF Tops, NoError
        <5> QED BY <1>1, <5>3
      <4> QED BY <1>1, <4>1
    <3> QED BY <2>2, <3>1, <3>2 DEF Finish
  <2> QED BY <2>1, <2>2
<1> QED BY <1>2, <1>3

\* A launched file has not been visited.
LEMMA Launches ==
    ASSUME TypeOK, Results, Tops, Launch
    PROVE  \E t \in Files : /\ t = Top(current + 1) /\ IsTop(t) /\ pc[t] = "none" /\ pc'[t] = "start"
                            /\ \A h \in Files : h # t => pc'[h] = pc[h]
<1>1. N \in Nat /\ current \in 1..N /\ current < N
  BY Shape DEF TypeOK, Launch
<1>2. current + 1 \in 1..N /\ current + 1 > current
  BY <1>1
<1>3. Top(current + 1) \in Files /\ IsTop(Top(current + 1))
  BY <1>2, Shape
<1>4. pc[Top(current + 1)] = "none"
  BY <1>2 DEF Tops, Launch
<1> DEFINE t == Top(current + 1)
<1>5. pc' = [pc EXCEPT ![t] = "start"] /\ pc \in [Files -> Steps]
  BY DEF Launch, TypeOK
<1>6. pc'[t] = "start" /\ \A h \in Files : h # t => pc'[h] = pc[h]
  BY <1>3, <1>5
<1> QED BY <1>3, <1>4, <1>6

----------------------------------------------------------------------------
(* Every step keeps the files in their places.                              *)

\* Files that are active have a parent that waits for them.
LEMMA ParentWaits ==
    ASSUME TypeOK, Places, NEW f \in Files, NEW i \in 1..Kids(f), pc[Kid(f, i)] \notin {"none", "done"}
    PROVE  pc[f] = "waiting" /\ i = kid[f]
<1>1. kid[f] \in Nat /\ i \in Nat
  BY Kinds
<1>2. ~Behind(Kid(f, i))
  BY DEF Behind
<1> QED BY <1>1, <1>2 DEF Places

\* A file that has not failed is past all sub-helmfiles up to the last it started.
LEMMA PastKids ==
    ASSUME TypeOK, Places, NEW f \in Files, pc[f] # "waiting", result[f] # "error",
           NEW i \in 1..Kids(f), i <= kid[f]
    PROVE  Behind(Kid(f, i))
<1>1. kid[f] \in Nat /\ i \in Nat
  BY Kinds
<1> QED BY <1>1 DEF Places

LEMMA PlacesTurn ==
    ASSUME TypeOK, Places, Results, NEW f \in Files, Turn(f)
    PROVE  Places'
<1>1. UNCHANGED <<inputs, kid>>
  BY DEF Turn
<1> SUFFICES ASSUME NEW h \in Files, NEW j \in 1..Kids(h)
             PROVE  /\ j > kid[h] => pc'[Kid(h, j)] = "none"
                    /\ j < kid[h] => Behind(Kid(h, j))'
                    /\ j = kid[h] =>
                          IF pc'[h] = "waiting"
                          THEN pc'[Kid(h, j)] # "none" /\ ~Conflict(Kid(h, j))
                          ELSE \/ Behind(Kid(h, j))'
                               \/ /\ pc'[Kid(h, j)] = "done" /\ result'[Kid(h, j)] = "error"
                                  /\ result'[h] = "error" /\ (~reverse => h \notin converged')
  BY <1>1, Fixed DEF Places
<1>2. Kid(h, j) \in Files
  BY Shape
<1>3. CASE Kid(h, j) = f
  <2>1. pc[h] = "waiting" /\ j = kid[h]
    BY <1>3, ParentWaits DEF Turn
  <2>2. h # f
    BY <2>1 DEF Turn
  <2>3. pc'[h] = "waiting" /\ pc'[f] # "none"
    BY <2>1, <2>2 DEF Turn
  <2>4. ~Conflict(f) /\ ~(j > kid[h]) /\ ~(j < kid[h])
    BY <1>3, <2>1, Shape DEF Places, TypeOK
  <2> QED BY <1>3, <2>3, <2>4
<1>4. CASE Kid(h, j) # f
  <2>1. pc'[Kid(h, j)] = pc[Kid(h, j)] /\ result'[Kid(h, j)] = result[Kid(h, j)]
    BY <1>2, <1>4 DEF Turn
  <2>2. Behind(Kid(h, j))' <=> Behind(Kid(h, j))
    BY <1>1, <2>1, Fixed DEF Behind
  <2>3. pc'[h] = "waiting" <=> pc[h] = "waiting"
    BY DEF Turn
  <2>4. result[h] = "error" => result'[h] = "error" /\ (h \in converged' => h \in converged)
    BY Nones DEF Turn, Results, After
  <2> QED BY <2>1, <2>2, <2>3, <2>4 DEF Places
<1> QED BY <1>3, <1>4

LEMMA PlacesSkip ==
    ASSUME TypeOK, Places, Results, Quiet, NEW f \in Files, NEW i \in 1..Kids(f), Skip(f, i)
    PROVE  Places'
<1>1. kid \in [Files -> Nat] /\ kid'[f] = kid[f] + 1 /\ i = kid[f] + 1 /\ \A h \in Files \ {f} : kid'[h] = kid[h]
  BY DEF Skip, TypeOK
<1>2. UNCHANGED <<inputs, pc, result, converged>> /\ pc[f] = "nested"
  BY DEF Skip, Quiet
<1>3. \A h \in Files : \A j \in 1..Kids(h) : Behind(Kid(h, j))' <=> Behind(Kid(h, j))
  BY <1>2, Fixed DEF Behind
<1> SUFFICES ASSUME NEW h \in Files, NEW j \in 1..Kids(h)
             PROVE  /\ j > kid'[h] => pc[Kid(h, j)] = "none"
                    /\ j < kid'[h] => Behind(Kid(h, j))
                    /\ j = kid'[h] =>
                          IF pc[h] = "waiting"
                          THEN pc[Kid(h, j)] # "none" /\ ~Conflict(Kid(h, j))
                          ELSE \/ Behind(Kid(h, j))
                               \/ /\ pc[Kid(h, j)] = "done" /\ result[Kid(h, j)] = "error"
                                  /\ result[h] = "error" /\ (~reverse => h \notin converged)
  BY <1>2, <1>3, Fixed DEF Places
<1>4. CASE h # f
  BY <1>1, <1>4 DEF Places
<1>5. CASE h = f
  <2>1. result[f] # "error"
    BY <1>2, Nones DEF Results, After
  <2>2. j <= kid[f] => Behind(Kid(f, j))
    BY <1>2, <1>5, <2>1, PastKids
  <2>3. j > kid[f] => pc[Kid(f, j)] = "none"
    BY <1>5 DEF Places
  <2>4. Conflict(Kid(f, i)) /\ j \in Nat
    BY DEF Skip
  <2>5. j = i => Behind(Kid(f, j))
    BY <1>1, <2>3, <2>4 DEF Behind
  <2> QED BY <1>1, <1>2, <1>5, <2>2, <2>3, <2>4, <2>5
<1> QED BY <1>4, <1>5

LEMMA PlacesBegin ==
    ASSUME TypeOK, Places, Results, Quiet, NEW f \in Files, NEW i \in 1..Kids(f), Begin(f, i)
    PROVE  Places'
<1> DEFINE k == Kid(f, i)
<1>1. k \in Files /\ pc[k] = "none" /\ pc[f] = "nested" /\ i = kid[f] + 1 /\ ~Conflict(k)
  BY Shape DEF Begin
<1>2. /\ kid \in [Files -> Nat] /\ kid'[f] = i /\ \A h \in Files \ {f} : kid'[h] = kid[h]
      /\ pc'[f] = "waiting" /\ pc'[k] = "start" /\ \A h \in Files \ {f, k} : pc'[h] = pc[h]
  BY <1>1 DEF Begin, TypeOK
<1>3. UNCHANGED <<inputs, result, converged>>
  BY DEF Quiet
<1>4. ASSUME NEW h \in Files, NEW j \in 1..Kids(h), Kid(h, j) = k
      PROVE  h = f /\ j = i
  BY <1>4, Shape
<1> HIDE DEF k
<1> SUFFICES ASSUME NEW h \in Files, NEW j \in 1..Kids(h)
             PROVE  /\ j > kid'[h] => pc'[Kid(h, j)] = "none"
                    /\ j < kid'[h] => Behind(Kid(h, j))'
                    /\ j = kid'[h] =>
                          IF pc'[h] = "waiting"
                          THEN pc'[Kid(h, j)] # "none" /\ ~Conflict(Kid(h, j))
                          ELSE \/ Behind(Kid(h, j))'
                               \/ /\ pc'[Kid(h, j)] = "done" /\ result[Kid(h, j)] = "error"
                                  /\ result[h] = "error" /\ (~reverse => h \notin converged)
  BY <1>3, Fixed DEF Places
<1>5. j \in Nat /\ Kid(h, j) \in Files
  BY Shape
<1>6. CASE Kid(h, j) = k
  BY <1>1, <1>2, <1>4, <1>5, <1>6
<1>7. CASE Kid(h, j) = f
  <2>1. pc[h] = "waiting" /\ j = kid[h]
    BY <1>1, <1>7, ParentWaits
  <2>2. h # f /\ h # k
    BY <1>1, <2>1
  <2>3. ~Conflict(f)
    BY <1>7, <2>1 DEF Places
  <2> QED BY <1>2, <1>5, <1>7, <2>1, <2>2, <2>3
<1>8. CASE Kid(h, j) # k /\ Kid(h, j) # f
  <2>1. pc'[Kid(h, j)] = pc[Kid(h, j)]
    BY <1>2, <1>5, <1>8
  <2>2. Behind(Kid(h, j))' <=> Behind(Kid(h, j))
    BY <1>3, <2>1, Fixed DEF Behind
  <2>3. CASE h = f
    <3>1. result[f] # "error"
      BY <1>1, Nones DEF Results, After
    <3>2. j <= kid[f] => Behind(Kid(f, j))
      BY <1>1, <2>3, <3>1, PastKids
    <3>3. j > kid[f] => pc[Kid(f, j)] = "none"
      BY <2>3 DEF Places
    <3>4. j # i
      BY <1>8, <2>3 DEF k
    <3> QED BY <1>1, <1>2, <1>5, <2>1, <2>2, <2>3, <3>2, <3>3, <3>4
  <2>4. CASE h # f
    <3>1. kid'[h] = kid[h] /\ (pc'[h] = "waiting" <=> pc[h] = "waiting")
      BY <1>1, <1>2, <2>4
    <3> QED BY <2>1, <2>2, <3>1 DEF Places
  <2> QED BY <2>3, <2>4
<1> QED BY <1>6, <1>7, <1>8

LEMMA PlacesBack ==
    ASSUME TypeOK, Places, Stages, NEW f \in Files, NEW i \in 1..Kids(f), Back(f, i)
    PROVE  Places'
<1>1. pc[f] = "waiting" /\ i = kid[f] /\ pc[Kid(f, i)] = "done" /\ UNCHANGED <<inputs, kid, converged>>
  BY DEF Back
<1>2. /\ pc'[f] # "none" /\ pc'[f] # "waiting"
      /\ result[Kid(f, i)] = "error" => result'[f] = "error"
      /\ \A h \in Files : h # f => pc'[h] = pc[h] /\ result'[h] = result[h]
  BY DEF Back, Fail, Go, TypeOK
<1> SUFFICES ASSUME NEW h \in Files, NEW j \in 1..Kids(h)
             PROVE  /\ j > kid[h] => pc'[Kid(h, j)] = "none"
                    /\ j < kid[h] => Behind(Kid(h, j))'
                    /\ j = kid[h] =>
                          IF pc'[h] = "waiting"
                          THEN pc'[Kid(h, j)] # "none" /\ ~Conflict(Kid(h, j))
                          ELSE \/ Behind(Kid(h, j))'
                               \/ /\ pc'[Kid(h, j)] = "done" /\ result'[Kid(h, j)] = "error"
                                  /\ result'[h] = "error" /\ (~reverse => h \notin converged)
  BY <1>1, Fixed DEF Places
<1>3. Kid(h, j) \in Files /\ j \in Nat /\ kid[h] \in Nat
  <2>1. kid \in [Files -> Nat] /\ Kids(h) \in Nat
    BY Shape DEF TypeOK
  <2> QED BY <2>1, Shape
<1>4. CASE Kid(h, j) = f
  <2>1. pc[h] = "waiting" /\ j = kid[h]
    BY <1>1, <1>4, ParentWaits
  <2>2. h # f
    BY <1>1, <1>4, <2>1
  <2>3. ~Conflict(f)
    BY <1>4, <2>1 DEF Places
  <2> QED BY <1>2, <1>3, <1>4, <2>1, <2>2, <2>3
<1>5. CASE Kid(h, j) # f
  <2>1. pc'[Kid(h, j)] = pc[Kid(h, j)] /\ result'[Kid(h, j)] = result[Kid(h, j)]
    BY <1>2, <1>3, <1>5
  <2>2. Behind(Kid(h, j))' <=> Behind(Kid(h, j))
    BY <1>1, <2>1, Fixed DEF Behind
  <2>3. CASE h = f /\ j = i
    <3>1. CASE result[Kid(f, i)] = "error"
      <4>1. ~reverse => f \notin converged
        BY <1>1 DEF Stages, Stage, After
      <4> QED BY <1>1, <1>2, <1>3, <2>1, <2>3, <3>1, <4>1
    <3>2. CASE result[Kid(f, i)] # "error"
      <4>1. result[Kid(f, i)] \in NoError
        BY <1>1, <1>3, <2>3, <3>2 DEF TypeOK, NoError
      <4>2. Behind(Kid(f, i))
        BY <1>1, <4>1 DEF Behind
      <4> QED BY <1>1, <1>2, <1>3, <2>2, <2>3, <4>2
    <3> QED BY <3>1, <3>2
  <2>4. CASE h = f /\ j # i
    BY <1>1, <1>3, <2>1, <2>2, <2>4 DEF Places
  <2>5. CASE h # f
    <3>1. pc'[h] = pc[h] /\ result'[h] = result[h]
      BY <1>2, <2>5
    <3> QED BY <2>1, <2>2, <3>1 DEF Places
  <2> QED BY <2>3, <2>4, <2>5
<1> QED BY <1>4, <1>5

LEMMA PlacesLaunch ==
    ASSUME TypeOK, Places, Results, Tops, Launch
    PROVE  Places'
<1>1. PICK t \in Files : /\ t = Top(current + 1) /\ IsTop(t) /\ pc[t] = "none" /\ pc'[t] = "start"
                         /\ \A h \in Files : h # t => pc'[h] = pc[h]
  BY Launches
<1>2. UNCHANGED <<inputs, kid, result, converged>>
  BY DEF Launch, history
<1>3. \A h \in Files : pc'[h] = "waiting" <=> pc[h] = "waiting"
  BY <1>1
<1>4. \A h \in Files : \A j \in 1..Kids(h) : pc'[Kid(h, j)] = pc[Kid(h, j)]
  BY <1>1, Shape
<1>5. \A h \in Files : \A j \in 1..Kids(h) : Behind(Kid(h, j))' <=> Behind(Kid(h, j))
  BY <1>2, <1>4, Fixed DEF Behind
<1> QED BY <1>2, <1>3, <1>4, <1>5, Fixed DEF Places

\* What a step that leaves the files as they are keeps.
LEMMA PlacesSame ==
    ASSUME Places, UNCHANGED <<inputs, kid, pc, result, converged>>
    PROVE  Places'
<1>1. \A f : Behind(f)' <=> Behind(f)
  BY Fixed DEF Behind
<1> QED BY <1>1, Fixed DEF Places

----------------------------------------------------------------------------
(* Every step keeps the results, and what the top files have come to.       *)

\* What a file's step may do to the top files, when it sends no message.
Steady ==
    /\ UNCHANGED <<inputs, current, main>>
    /\ \A i \in 1..N : \/ pc'[Top(i)] = pc[Top(i)] /\ result'[Top(i)] = result[Top(i)]
                       \/ /\ pc[Top(i)] \notin {"none", "done"} /\ pc'[Top(i)] # "none"
                          /\ Parallel => pc'[Top(i)] # "done"

LEMMA Steadies ==
    ASSUME TypeOK, NEW f \in Files,
           \/ Turn(f) /\ pc[f] # "send"
           \/ Quiet /\ \E i \in 1..Kids(f) : Skip(f, i) \/ Begin(f, i)
           \/ \E i \in 1..Kids(f) : Back(f, i)
    PROVE  Steady
<1>1. CASE Turn(f) /\ pc[f] # "send"
  <2>1. \A i \in 1..N : Top(i) \in Files /\ IsTop(Top(i))
    BY Shape
  <2> QED BY <1>1, <2>1 DEF Turn, Steady
<1>2. ASSUME Quiet, NEW i \in 1..Kids(f), Skip(f, i) \/ Begin(f, i)
      PROVE  Steady
  <2>1. CASE Skip(f, i)
    BY <1>2, <2>1 DEF Skip, Quiet, Steady
  <2>2. CASE Begin(f, i)
    <3>1. Kid(f, i) \in Files /\ ~IsTop(Kid(f, i)) /\ \A j \in 1..N : Top(j) \in Files /\ IsTop(Top(j))
      BY Shape
    <3>2. /\ pc[f] = "nested" /\ pc[Kid(f, i)] = "none"
          /\ pc' = [pc EXCEPT ![f] = "waiting", ![Kid(f, i)] = "start"]
      BY <2>2 DEF Begin
    <3>3. pc'[f] = "waiting" /\ \A h \in Files \ {f, Kid(f, i)} : pc'[h] = pc[h]
      BY <3>1, <3>2 DEF TypeOK
    <3>4. UNCHANGED <<inputs, current, main, result>>
      BY <1>2 DEF Quiet
    <3> QED BY <3>1, <3>2, <3>3, <3>4 DEF Steady
  <2> QED BY <1>2, <2>1, <2>2
<1>3. ASSUME NEW i \in 1..Kids(f), Back(f, i)
      PROVE  Steady
  <2>1. \A j \in 1..N : Top(j) \in Files
    BY Shape
  <2>2. /\ pc[f] = "waiting" /\ pc'[f] \in {"leave", "nested"} /\ UNCHANGED <<inputs, current, main>>
        /\ \A h \in Files : h # f => pc'[h] = pc[h] /\ result'[h] = result[h]
    BY <1>3 DEF Back, Fail, Go, TypeOK
  <2> QED BY <2>1, <2>2 DEF Steady
<1> QED BY <1>1, <1>2, <1>3

LEMMA TopsSteady ==
    ASSUME TypeOK, Tops, Over, Steady, UNCHANGED <<errN, matchN>>
    PROVE  Tops' /\ Over'
<1>1. UNCHANGED <<inputs, current, main>>
  BY DEF Steady
<1>2. N \in Nat /\ current \in 1..N
  BY Shape DEF TypeOK
<1>3. Tops'
  <2>1. CASE Parallel
    <3>1. \A i \in 1..N : pc'[Top(i)] # "none"
      BY <2>1 DEF Steady, Tops
    <3>2. \A i \in 1..N : pc'[Top(i)] = "done" <=> pc[Top(i)] = "done"
      BY <2>1 DEF Steady
    <3>3. \A i \in 1..N : pc[Top(i)] = "done" => result'[Top(i)] = result[Top(i)]
      BY DEF Steady
    <3> QED BY <1>1, <2>1, <3>1, <3>2, <3>3, Fixed DEF Tops
  <2>2. CASE ~Parallel
    BY <1>1, <1>2, <2>2, Fixed DEF Steady, Tops, NoError
  <2> QED BY <2>1, <2>2
<1>4. Over'
  <2>1. CASE main = None
    BY <1>1, <2>1 DEF Over
  <2>2. CASE main # None
    <3>1. \A i \in 1..N : pc[Top(i)] \in {"none", "done"}
      BY <1>2, <2>2 DEF Over, Tops
    <3>2. \A i \in 1..N : pc'[Top(i)] = pc[Top(i)] /\ result'[Top(i)] = result[Top(i)]
      BY <3>1 DEF Steady
    <3> QED BY <1>1, <2>2, <3>2, Fixed DEF Over
  <2> QED BY <2>1, <2>2
<1> QED BY <1>3, <1>4

LEMMA TopsSend ==
    ASSUME TypeOK, Results, Tops, Over, NEW f \in Files, Send(f)
    PROVE  Tops' /\ Over'
<1>1. pc[f] = "send" /\ Parallel /\ IsTop(f)
  BY DEF Send, Results
<1>2. PICK t \in 1..N : Top(t) = f
  BY <1>1, Shape
<1>3. \A i \in 1..N : Top(i) \in Files
  BY Shape
<1>4. UNCHANGED <<inputs, current, main, result>>
  BY DEF Send
<1>5. pc'[f] = "done" /\ \A h \in Files : h # f => pc'[h] = pc[h]
  BY DEF Send, Go, TypeOK
<1>6. /\ errN' = IF result[f] = "error" THEN errN + 1 ELSE errN
      /\ matchN' = IF result[f] = "matched" THEN matchN + 1 ELSE matchN
  BY DEF Send
<1>7. errN \in Nat /\ matchN \in Nat
  BY Shape DEF TypeOK
<1>8. Tops'
  <2>1. \A i \in 1..N : pc'[Top(i)] # "none"
    BY <1>1, <1>3, <1>5 DEF Tops
  <2>2. errN' > 0 <=> \E i \in 1..N : pc'[Top(i)] = "done" /\ result[Top(i)] = "error"
    BY <1>1, <1>2, <1>3, <1>5, <1>6, <1>7 DEF Tops
  <2>3. matchN' > 0 <=> \E i \in 1..N : pc'[Top(i)] = "done" /\ result[Top(i)] = "matched"
    BY <1>1, <1>2, <1>3, <1>5, <1>6, <1>7 DEF Tops
  <2> QED BY <1>1, <1>4, <2>1, <2>2, <2>3, Fixed DEF Tops
<1>9. Over'
  <2>1. main = None
    BY <1>1, <1>2 DEF Over
  <2> QED BY <1>4, <2>1 DEF Over
<1> QED BY <1>8, <1>9

LEMMA TopsMove ==
    ASSUME TypeOK, Results, Tops, Over, Launch \/ Finish
    PROVE  Tops' /\ Over'
<1>1. N \in Nat /\ current \in 1..N /\ \A i \in 1..N : Top(i) \in Files
  BY Shape DEF TypeOK
<1>2. CASE Launch
  <2>1. PICK t \in Files : /\ t = Top(current + 1) /\ pc'[t] = "start"
                           /\ \A h \in Files : h # t => pc'[h] = pc[h]
    BY <1>2, Launches
  <2>2. UNCHANGED <<inputs, result, main>> /\ main = None /\ ~Parallel /\ current < N /\ current' = current + 1
    BY <1>2 DEF Launch
  <2>3. \A i \in 1..N : i # current + 1 => pc'[Top(i)] = pc[Top(i)]
    <3>1. current + 1 \in 1..N
      BY <1>1, <2>2
    <3> QED BY <1>1, <2>1, <3>1, Shape
  <2>4. pc[Top(current)] = "done" /\ result[Top(current)] \in NoError
    BY <1>1, <1>2 DEF Launch, TypeOK, NoError
  <2>5. Tops'
    BY <1>1, <2>1, <2>2, <2>3, <2>4, Fixed DEF Tops
  <2>6. Over'
    BY <2>2 DEF Over
  <2> QED BY <2>5, <2>6
<1>3. CASE Finish
  <2>1. UNCHANGED <<inputs, pc, result, current, errN, matchN>>
    BY <1>3 DEF Finish
  <2>2. Tops'
    BY <2>1, Fixed DEF Tops
  <2>3. \A i \in 1..N : pc[Top(i)] = "done" \/ (~Parallel /\ i > current)
    BY <1>1, <1>3 DEF Finish, Tops
  <2>4. ~Parallel => current = N \/ \E i \in 1..N : result[Top(i)] = "error"
    BY <1>1, <1>3 DEF Finish
  <2>5. main' = IF \E i \in 1..N : result[Top(i)] = "error" THEN "error"
                ELSE IF \E i \in 1..N : result[Top(i)] = "matched" THEN "matched" ELSE "nomatch"
    BY <1>3 DEF Finish
  <2>6. Over'
    BY <2>1, <2>3, <2>4, <2>5, Fixed DEF Over
  <2> QED BY <2>2, <2>6
<1> QED BY <1>2, <1>3

\* A file that was begun is found from a top file.
LEMMA AboveKids ==
    ASSUME TypeOK, NEW f \in Files, NEW i \in 1..Kids(f), NEW h \in Above(f)
    PROVE  h \in Above(Kid(f, i))
<1> SUFFICES ASSUME NEW S \in SUBSET Files, Kid(f, i) \in S,
                    \A p \in Files : \A j \in 1..Kids(p) : Kid(p, j) \in S => p \in S
             PROVE  h \in S
  BY DEF Above
<1>1. f \in S
  OBVIOUS
<1> QED BY <1>1 DEF Above

LEMMA Beginnings ==
    ASSUME TypeOK, NEW f \in Files, NEW i \in 1..Kids(f), Begin(f, i)
    PROVE  /\ Kid(f, i) \in Files /\ ~IsTop(Kid(f, i)) /\ Kid(f, i) # f
           /\ pc[f] = "nested" /\ pc[Kid(f, i)] = "none"
           /\ pc'[f] = "waiting" /\ pc'[Kid(f, i)] = "start"
           /\ \A h \in Files \ {f, Kid(f, i)} : pc'[h] = pc[h]
           /\ opts'[Kid(f, i)] = Passed(f, Kid(f, i))
           /\ \A h \in Files \ {Kid(f, i)} : opts'[h] = opts[h]
           /\ kid'[f] = i /\ i = kid[f] + 1 /\ \A h \in Files \ {f} : kid'[h] = kid[h]
<1> DEFINE k == Kid(f, i)
<1>1. k \in Files /\ ~IsTop(k)
  BY Shape
<1>2. /\ pc[f] = "nested" /\ pc[k] = "none" /\ i = kid[f] + 1
      /\ kid' = [kid EXCEPT ![f] = i]
      /\ pc' = [pc EXCEPT ![f] = "waiting", ![k] = "start"]
      /\ opts' = [opts EXCEPT ![k] = Passed(f, k)]
  BY DEF Begin
<1>3. pc \in [Files -> Steps] /\ DOMAIN opts = Files /\ kid \in [Files -> Nat]
  BY DEF TypeOK
<1> HIDE DEF k
<1>4. k # f
  BY <1>2
<1>5. pc'[f] = "waiting" /\ pc'[k] = "start" /\ \A h \in Files \ {f, k} : pc'[h] = pc[h]
  BY <1>1, <1>2, <1>3, <1>4
<1>6. opts'[k] = Passed(f, k) /\ \A h \in Files \ {k} : opts'[h] = opts[h]
  BY <1>1, <1>2, <1>3
<1>7. kid'[f] = i /\ \A h \in Files \ {f} : kid'[h] = kid[h]
  BY <1>2, <1>3
<1> QED BY <1>1, <1>2, <1>4, <1>5, <1>6, <1>7 DEF k

LEMMA Backs ==
    ASSUME TypeOK, NEW f \in Files, NEW i \in 1..Kids(f), Back(f, i)
    PROVE  /\ pc[f] = "waiting" /\ i = kid[f]
           /\ \/ pc'[f] = "nested" /\ result'[f] = result[f] /\ result[Kid(f, i)] # "error"
              \/ pc'[f] = "leave" /\ result'[f] = "error"
           /\ \A h \in Files : h # f => pc'[h] = pc[h] /\ result'[h] = result[h]
           /\ UNCHANGED <<inputs, kid, opts, current, main, errN, matchN, loaded, converged, matched>>
           /\ found' = found \cup {h \in {f} : result[Kid(f, i)] = "matched"}
BY DEF Back, Fail, Go, TypeOK

\* A step begins at most one sub-helmfile, of a file that was begun before.
LEMMA ReachedFile ==
    ASSUME TypeOK, Places, Results, Stages, Reached, Options, NEW f \in Files, File(f)
    PROVE  Reached' /\ Options'
<1>1. CASE Turn(f)
  <2>1. UNCHANGED <<inputs, opts>> /\ \A h \in Files : pc'[h] # "none" => pc[h] # "none"
    BY <1>1 DEF Turn
  <2> QED BY <2>1, Fixed, AboveFixed DEF Reached, Options, inputs
<1>2. ASSUME Quiet, NEW i \in 1..Kids(f), Skip(f, i)
      PROVE  Reached' /\ Options'
  <2>1. UNCHANGED <<inputs, opts, pc>>
    BY <1>2 DEF Quiet, Skip
  <2> QED BY <2>1, Fixed, AboveFixed DEF Reached, Options, inputs
<1>3. ASSUME Quiet, NEW i \in 1..Kids(f), Begin(f, i)
      PROVE  Reached' /\ Options'
  <2>1. /\ Kid(f, i) \in Files /\ pc[f] # "none"
        /\ \A h \in Files : pc'[h] # "none" => pc[h] # "none" \/ h = Kid(f, i)
    BY <1>3, Beginnings
  <2>2. UNCHANGED inputs
    BY <1>3 DEF Quiet
  <2>3. PICK t \in 1..N : Top(t) \in Above(f)
    BY <2>1 DEF Reached
  <2>4. Top(t) \in Above(Kid(f, i))
    BY <2>3, AboveKids
  <2>5. Reached'
    BY <2>1, <2>2, <2>4, Fixed, AboveFixed DEF Reached
  <2>6. OneSelection => Passed(f, Kid(f, i)) = opts[f] /\ opts[f] = tree.cli
    BY <2>1 DEF OneSelection, Passed, Options
  <2>7. /\ opts'[Kid(f, i)] = Passed(f, Kid(f, i)) /\ ~IsTop(Kid(f, i))
        /\ \A h \in Files \ {Kid(f, i)} : opts'[h] = opts[h]
    BY <1>3, Beginnings
  <2>8. Options'
    BY <2>1, <2>2, <2>6, <2>7, Fixed DEF Options
  <2> QED BY <2>5, <2>8
<1>4. ASSUME NEW i \in 1..Kids(f), Back(f, i)
      PROVE  Reached' /\ Options'
  <2>1. UNCHANGED <<inputs, opts>> /\ \A h \in Files : pc'[h] # "none" => pc[h] # "none"
    BY <1>4, Backs
  <2> QED BY <2>1, Fixed, AboveFixed DEF Reached, Options, inputs
<1> QED BY <1>1, <1>2, <1>3, <1>4, Moves

LEMMA ReachedLaunch ==
    ASSUME TypeOK, Results, Tops, Reached, Options, Launch
    PROVE  Reached' /\ Options'
<1>1. PICK t \in Files : /\ t = Top(current + 1) /\ IsTop(t)
                         /\ \A h \in Files : h # t => pc'[h] = pc[h]
  BY Launches
<1>2. UNCHANGED <<inputs, opts>>
  BY DEF Launch
<1>3. t \in Above(t)
  BY DEF Above
<1>4. \E i \in 1..N : Top(i) \in Above(t)
  BY <1>1, <1>3, Shape
<1>5. \A h \in Files : pc'[h] # "none" => pc[h] # "none" \/ h = t
  BY <1>1
<1>6. Reached'
  BY <1>2, <1>4, <1>5, Fixed, AboveFixed DEF Reached
<1>7. Options'
  BY <1>1, <1>2, <1>5, Fixed DEF Options
<1> QED BY <1>6, <1>7

LEMMA ResultsStep ==
    ASSUME TypeOK, TypeOK', Results, NEW f \in Files,
           \/ Turn(f)
           \/ Quiet /\ \E i \in 1..Kids(f) : Skip(f, i) \/ Begin(f, i)
           \/ \E i \in 1..Kids(f) : Back(f, i)
    PROVE  Results'
<1>1. \A h \in Files : /\ pc'[h] \in {"send", "done"} => result'[h] # None
                       /\ result'[h] # None => pc'[h] \in After
  BY DEF TypeOK, After
<1> DEFINE kept == /\ UNCHANGED inputs
                   /\ \A h \in Files : /\ pc'[h] = "leave" => result'[h] \in {None, "error"}
                                       /\ pc'[h] = "send" => Parallel /\ IsTop(h)
<1>2. kept
  <2>1. CASE Turn(f)
    BY <2>1 DEF Turn, Results
  <2>2. ASSUME Quiet, NEW i \in 1..Kids(f), Skip(f, i)
        PROVE  kept
    BY <2>2 DEF Quiet, Skip, Results
  <2>3. ASSUME Quiet, NEW i \in 1..Kids(f), Begin(f, i)
        PROVE  kept
    <3>1. \A h \in Files : pc'[h] = pc[h] \/ pc'[h] \in {"waiting", "start"}
      BY <2>3, Beginnings
    <3> QED BY <2>3, <3>1 DEF Quiet, Results
  <2>4. ASSUME NEW i \in 1..Kids(f), Back(f, i)
        PROVE  kept
    BY <2>4, Backs DEF Results
  <2> QED BY <2>1, <2>2, <2>3, <2>4
<1> QED BY <1>1, <1>2, Fixed DEF Results

----------------------------------------------------------------------------
(* Every step keeps the files in their stages.                              *)

LEMMA StageSame ==
    ASSUME NEW h \in Files, Stage(h), UNCHANGED inputs,
           pc'[h] = pc[h], kid'[h] = kid[h], result'[h] = result[h], h \in found' <=> h \in found,
           h \in loaded' <=> h \in loaded, h \in converged' <=> h \in converged
    PROVE  Stage(h)'
BY Fixed DEF Stage

\* The steps of a file that has not come to its sub-helmfiles or releases yet, or is past them.
LEMMA StageOutside ==
    ASSUME TypeOK, Results, Stages, NEW f \in Files,
           Start(f) \/ Chdir(f) \/ Load(f) \/ Leave(f) \/ Send(f)
    PROVE  Stage(f)'
<1>1. Turn(f)
  BY Turns
<1>2. UNCHANGED <<inputs, kid, converged, found>> /\ Stage(f)
  BY DEF Start, Chdir, Load, Leave, Send, history, Stages
<1>3. f \in converged => f \in loaded
  BY DEF TypeOK
<1>4. pc \in [Files -> Steps] /\ DOMAIN result = Files
  BY DEF TypeOK
<1>5. CASE Start(f)
  <2>1. /\ pc[f] = "start" /\ UNCHANGED loaded
        /\ pc'[f] \in {"load", "chdir"} \/ (pc'[f] = "leave" /\ result'[f] = "error")
    BY <1>4, <1>5 DEF Start, Go, Fail, history
  <2> QED BY <1>2, <1>3, <2>1, Fixed DEF Stage, Before, After
<1>6. CASE Chdir(f)
  <2>1. pc[f] = "chdir" /\ UNCHANGED loaded /\ pc'[f] = "load"
    BY <1>4, <1>6 DEF Chdir, Go, history
  <2> QED BY <1>2, <1>3, <2>1, Fixed DEF Stage, Before, After
<1>7. CASE Load(f)
  <2>1. /\ pc[f] = "load"
        /\ \/ pc'[f] = (IF reverse THEN "repos" ELSE "nested") /\ loaded' = loaded \cup {f}
           \/ pc'[f] = "leave" /\ loaded' = loaded
    BY <1>4, <1>7 DEF Load, Go, Fail
  <2>2. f \notin loaded /\ kid[f] = 0 /\ Kids(f) \in Nat
    BY <1>2, <2>1, Shape DEF Stage, Before
  <2> QED BY <1>2, <1>3, <2>1, <2>2, Fixed DEF Stage, Before, After
<1>8. CASE Leave(f)
  <2>1. /\ pc[f] = "leave" /\ UNCHANGED loaded /\ pc'[f] \in {"send", "done"}
        /\ result[f] = "error" => result'[f] = "error"
    BY <1>1, <1>4, <1>8 DEF Leave, Go, Turn, history
  <2> QED BY <1>2, <2>1, Fixed DEF Stage, Before, After
<1>9. CASE Send(f)
  <2>1. pc[f] = "send" /\ UNCHANGED <<loaded, result>> /\ pc'[f] = "done"
    BY <1>4, <1>9 DEF Send, Go, history
  <2> QED BY <1>2, <2>1, Fixed DEF Stage, Before, After
<1> QED BY <1>5, <1>6, <1>7, <1>8, <1>9

\* The steps between loading and leaving.
LEMMA StageInside ==
    ASSUME TypeOK, Results, Stages, NEW f \in Files,
           \/ (Nested(f) /\ ~(kid[f] < Kids(f))) \/ LockRepos(f)
           \/ AddRepo(f) \/ ReposAdded(f) \/ Converge(f)
    PROVE  Stage(f)'
<1>1. kid[f] \in 0..Kids(f) /\ Kids(f) \in Nat /\ kid[f] \in Nat
  BY Shape DEF TypeOK
<1>2. UNCHANGED <<inputs, kid, loaded>> /\ Stage(f)
  BY DEF Nested, LockRepos, AddRepo, ReposAdded, Converge, addUnchanged, history, Stages
<1>3. pc \in [Files -> Steps] /\ DOMAIN result = Files
  BY DEF TypeOK
<1>4. CASE Nested(f) /\ ~(kid[f] < Kids(f))
  <2>1. /\ pc[f] = "nested" /\ pc'[f] = (IF reverse THEN "leave" ELSE "repos")
        /\ UNCHANGED <<converged, found, result>> /\ kid[f] = Kids(f)
    BY <1>1, <1>3, <1>4 DEF Nested, Go, history
  <2> QED BY <1>2, <2>1, Fixed DEF Stage, Before, After
<1>5. CASE LockRepos(f)
  <2>1. pc[f] = "repos" /\ pc'[f] = "add" /\ UNCHANGED <<converged, found, result>>
    BY <1>3, <1>5 DEF LockRepos, Go, history
  <2> QED BY <1>2, <2>1, Fixed DEF Stage, Before, After
<1>6. CASE AddRepo(f)
  <2>1. /\ pc[f] = "add" /\ UNCHANGED <<converged, found>>
        /\ (UNCHANGED <<pc, result>>) \/ (pc'[f] = "leave" /\ result'[f] = "error")
    BY <1>3, <1>6 DEF AddRepo, Retry, Go, Fail, addUnchanged, history
  <2> QED BY <1>2, <2>1, Fixed DEF Stage, Before, After
<1>7. CASE ReposAdded(f)
  <2>1. pc[f] = "add" /\ pc'[f] = "converge" /\ UNCHANGED <<converged, found, result>>
    BY <1>3, <1>7 DEF ReposAdded, Go, addUnchanged, history
  <2> QED BY <1>2, <2>1, Fixed DEF Stage, Before, After
<1>8. CASE Converge(f)
  <2>1. /\ pc[f] = "converge" /\ converged' = converged \cup {f}
        /\ \/ pc'[f] = (IF reverse THEN "nested" ELSE "leave")
           \/ pc'[f] = "leave" /\ result'[f] = "error"
    BY <1>3, <1>8 DEF Converge, Go, Fail
  <2>2. f \in loaded
    BY <1>2, <2>1 DEF Stage, Before, After
  <2> QED BY <1>1, <1>2, <2>1, <2>2, Fixed DEF Stage, Before, After
<1> QED BY <1>4, <1>5, <1>6, <1>7, <1>8

LEMMA StagesFile ==
    ASSUME TypeOK, Places, Results, Stages, NEW f \in Files, File(f)
    PROVE  Stages'
<1>1. \A h \in Files : Stage(h)
  BY DEF Stages
<1>2. CASE ~(Nested(f) /\ kid[f] < Kids(f)) /\ ~Return(f)
  <2>1. Turn(f)
    BY <1>2, Turns DEF File
  <2>2. Stage(f)'
    BY <1>2, StageOutside, StageInside DEF File
  <2>3. \A h \in Files : h # f => (h \in found' <=> h \in found) /\ (h \in loaded' <=> h \in loaded)
    BY <1>2 DEF File, Start, Chdir, Load, Nested, LockRepos, AddRepo, ReposAdded, Converge, Leave, Send,
                addUnchanged, history
  <2>4. \A h \in Files : h # f => Stage(h)'
    BY <1>1, <2>1, <2>3, StageSame DEF Turn
  <2> QED BY <2>2, <2>4 DEF Stages
<1>3. ASSUME Quiet, NEW i \in 1..Kids(f), Skip(f, i)
      PROVE  Stages'
  <2>1. /\ pc[f] = "nested" /\ i > 0 /\ kid'[f] = i
        /\ \A h \in Files : h # f => kid'[h] = kid[h]
    BY <1>3 DEF Skip, TypeOK
  <2>2. UNCHANGED <<inputs, pc, result, found, loaded, converged>>
    BY <1>3 DEF Skip, Quiet
  <2>3. Stage(f)'
    BY <1>1, <2>1, <2>2, Fixed DEF Stage, Before, After
  <2>4. \A h \in Files : h # f => Stage(h)'
    BY <1>1, <2>1, <2>2, StageSame
  <2> QED BY <2>3, <2>4 DEF Stages
<1>4. ASSUME Quiet, NEW i \in 1..Kids(f), Begin(f, i)
      PROVE  Stages'
  <2>1. PICK k \in Files :
           /\ k # f /\ pc[f] = "nested" /\ pc[k] = "none"
           /\ pc'[f] = "waiting" /\ pc'[k] = "start" /\ \A h \in Files \ {f, k} : pc'[h] = pc[h]
           /\ kid'[f] = i /\ \A h \in Files \ {f} : kid'[h] = kid[h]
    BY <1>4, Beginnings
  <2>2. UNCHANGED <<inputs, result, found, loaded, converged>> /\ i > 0
    BY <1>4 DEF Begin, Quiet
  <2>3. Stage(f)'
    BY <1>1, <2>1, <2>2, Fixed DEF Stage, Before, After
  <2>4. Stage(k)'
    <3>1. Stage(k) /\ kid'[k] = kid[k] /\ (k \in converged => k \in loaded)
      BY <1>1, <2>1 DEF TypeOK
    <3> QED BY <2>1, <2>2, <3>1, Fixed DEF Stage, Before, After
  <2>5. \A h \in Files \ {f, k} : Stage(h)'
    BY <1>1, <2>1, <2>2, StageSame
  <2> QED BY <2>3, <2>4, <2>5 DEF Stages
<1>5. ASSUME NEW i \in 1..Kids(f), Back(f, i)
      PROVE  Stages'
  <2>1. /\ pc[f] = "waiting"
        /\ pc'[f] = "nested" \/ (pc'[f] = "leave" /\ result'[f] = "error")
        /\ \A h \in Files : h # f => pc'[h] = pc[h] /\ result'[h] = result[h] /\ (h \in found' <=> h \in found)
        /\ UNCHANGED <<inputs, kid, loaded, converged>>
    BY <1>5, Backs
  <2>2. Stage(f)'
    BY <1>1, <2>1, Fixed DEF Stage, Before, After
  <2>3. \A h \in Files : h # f => Stage(h)'
    BY <1>1, <2>1, StageSame
  <2> QED BY <2>2, <2>3 DEF Stages
<1> QED BY <1>2, <1>3, <1>4, <1>5, NestedSteps

LEMMA StagesTop ==
    ASSUME TypeOK, Results, Tops, Stages, Launch \/ Finish
    PROVE  Stages'
<1>1. \A h \in Files : Stage(h)
  BY DEF Stages
<1>2. CASE Launch
  <2>1. PICK t \in Files : /\ pc[t] = "none" /\ pc'[t] = "start" /\ \A h \in Files : h # t => pc'[h] = pc[h]
    BY <1>2, Launches
  <2>2. UNCHANGED <<inputs, kid, result, found, loaded, converged>>
    BY <1>2 DEF Launch, history
  <2>3. Stage(t)'
    <3>1. Stage(t) /\ (t \in converged => t \in loaded)
      BY <1>1 DEF TypeOK
    <3> QED BY <2>1, <2>2, <3>1, Fixed DEF Stage, Before, After
  <2>4. \A h \in Files : h # t => Stage(h)'
    BY <1>1, <2>1, <2>2, StageSame
  <2> QED BY <2>3, <2>4 DEF Stages
<1>3. CASE Finish
  BY <1>1, <1>3, StageSame DEF Finish, history, Stages
<1> QED BY <1>2, <1>3

----------------------------------------------------------------------------
(* Every step keeps what was found.                                         *)

LEMMA SelectedFixed ==
    ASSUME NEW h \in Files, UNCHANGED inputs, opts'[h] = opts[h]
    PROVE  SelectedOf(h)' = SelectedOf(h)
BY DEF SelectedOf, inputs

LEMMA FindingSame ==
    ASSUME NEW h \in Files, Finding(h), UNCHANGED inputs, opts'[h] = opts[h],
           pc'[h] \in {"send", "done"} => pc[h] \in {"send", "done"},
           result'[h] = result[h] \/ result'[h] = "error", h \in found' <=> h \in found,
           h \in matched' <=> h \in matched, h \in converged' <=> h \in converged
    PROVE  Finding(h)'
BY SelectedFixed DEF Finding

\* Only these steps change what was found, or what a file returns.
LEMMA FindingConverge ==
    ASSUME TypeOK, Results, Matches, NEW f \in Files, Converge(f)
    PROVE  Finding(f)' /\ matched' \subseteq found' /\ (found' # {} => matched' # {})
<1>1. pc \in [Files -> Steps] /\ DOMAIN result = Files
  BY DEF TypeOK
<1>2. /\ converged' = converged \cup {f} /\ UNCHANGED <<inputs, opts>>
      /\ \/ /\ \E S : S = {f} \cap {h \in Files : SelectedOf(h) # {}}
                      /\ matched' = matched \cup S /\ found' = found \cup S
            /\ pc'[f] \in {"nested", "leave"} /\ result'[f] = result[f]
         \/ pc'[f] = "leave" /\ result'[f] = "error" /\ UNCHANGED <<matched, found>>
  BY <1>1 DEF Converge, Go, Fail
<1>3. SelectedOf(f)' = SelectedOf(f)
  BY <1>2, SelectedFixed
<1> QED BY <1>2, <1>3 DEF Matches, Finding, Found

LEMMA FindingLeave ==
    ASSUME TypeOK, Results, Matches, NEW f \in Files, Leave(f)
    PROVE  Finding(f)'
<1>1. /\ pc[f] = "leave" /\ UNCHANGED <<inputs, opts, converged, matched, found>>
      /\ result'[f] = IF result[f] # None THEN result[f] ELSE IF f \in found THEN "matched" ELSE "nomatch"
  BY DEF Leave, history, TypeOK
<1>2. result[f] \in {None, "error"}
  BY <1>1 DEF Results
<1>3. SelectedOf(f)' = SelectedOf(f)
  BY <1>1, SelectedFixed
<1>4. result'[f] = "error" <=> result[f] = "error"
  BY <1>1, <1>2, Nones
<1> QED BY <1>1, <1>2, <1>3, <1>4, Nones DEF Matches, Finding

\* A sub-helmfile that is left has a parent that waits for it.
LEMMA FoundTurn ==
    ASSUME TypeOK, Places, Results, Matches, NEW f \in Files, Turn(f), found \subseteq found'
    PROVE  \A h \in Files : \A i \in 1..Kids(h) :
              result'[Kid(h, i)] = "matched" /\ ~(i = kid'[h] /\ pc'[h] = "waiting") => h \in found'
<1> SUFFICES ASSUME NEW h \in Files, NEW i \in 1..Kids(h),
                    result'[Kid(h, i)] = "matched", ~(i = kid'[h] /\ pc'[h] = "waiting")
             PROVE  h \in found'
  OBVIOUS
<1>1. Kid(h, i) \in Files
  BY Shape
<1>2. pc[h] = "waiting" => pc'[h] = "waiting"
  BY DEF Turn
<1>3. CASE Kid(h, i) = f
  <2>1. pc[h] = "waiting" /\ i = kid[h]
    BY <1>3, ParentWaits DEF Turn
  <2> QED BY <1>2, <2>1 DEF Turn
<1>4. CASE Kid(h, i) # f
  <2>1. result[Kid(h, i)] = "matched" /\ kid'[h] = kid[h]
    BY <1>1, <1>4 DEF Turn
  <2>2. CASE i = kid[h] /\ pc[h] = "waiting"
    BY <1>2, <2>1, <2>2
  <2>3. CASE ~(i = kid[h] /\ pc[h] = "waiting")
    BY <2>1, <2>3 DEF Matches, Found
  <2> QED BY <2>2, <2>3
<1> QED BY <1>3, <1>4

LEMMA MatchesFile ==
    ASSUME TypeOK, Places, Results, Stages, Matches, NEW f \in Files, File(f)
    PROVE  Matches'
<1>1. \A h \in Files : Finding(h)
  BY DEF Matches
<1>2. CASE ~(Nested(f) /\ kid[f] < Kids(f)) /\ ~Return(f)
  <2>1. Turn(f)
    BY <1>2, Turns DEF File
  <2>2. /\ UNCHANGED <<inputs, kid, opts>>
        /\ \A h \in Files : h # f => /\ pc'[h] = pc[h] /\ result'[h] = result[h]
                                     /\ h \in converged' <=> h \in converged
    BY <2>1 DEF Turn
  <2>3. /\ found \subseteq found'
        /\ \A h \in Files : h # f => (h \in found' <=> h \in found) /\ (h \in matched' <=> h \in matched)
    BY <1>2 DEF File, Start, Chdir, Load, Nested, LockRepos, AddRepo, ReposAdded, Converge, Leave, Send,
                addUnchanged, history
  <2>4. \A h \in Files : h # f => Finding(h)'
    BY <1>1, <2>2, <2>3, FindingSame
  <2>5. Finding(f)' /\ matched' \subseteq found' /\ (found' # {} => matched' # {})
    <3>1. CASE Converge(f)
      BY <3>1, FindingConverge
    <3>2. CASE Leave(f)
      <4>1. UNCHANGED <<found, matched>>
        BY <3>2 DEF Leave, history
      <4> QED BY <3>2, <4>1, FindingLeave DEF Matches, Found
    <3>3. CASE ~Converge(f) /\ ~Leave(f)
      <4>1. /\ UNCHANGED <<found, matched, converged>>
            /\ result'[f] = result[f] \/ result'[f] = "error"
        BY <1>2, <3>3 DEF File, Start, Chdir, Load, Nested, LockRepos, AddRepo, ReposAdded, Send, Fail,
                Retry, addUnchanged, history, TypeOK
      <4>2. pc'[f] \in {"send", "done"} => pc[f] \in {"send", "done"}
        BY <1>2, <3>3 DEF File, Start, Chdir, Load, Nested, LockRepos, AddRepo, ReposAdded, Send, Fail,
                Go, Retry, TypeOK
      <4> QED BY <1>1, <2>2, <4>1, <4>2, FindingSame DEF Matches, Found
    <3> QED BY <3>1, <3>2, <3>3
  <2>6. \A h \in Files : \A i \in 1..Kids(h) :
           result'[Kid(h, i)] = "matched" /\ ~(i = kid'[h] /\ pc'[h] = "waiting") => h \in found'
    BY <2>1, <2>3, FoundTurn
  <2> QED BY <2>2, <2>4, <2>5, <2>6, Fixed DEF Matches, Found
<1>3. ASSUME Quiet, NEW i \in 1..Kids(f), Skip(f, i)
      PROVE  Matches'
  <2>1. UNCHANGED <<inputs, pc, result, opts, found, loaded, converged, matched>> /\ pc[f] = "nested"
    BY <1>3 DEF Skip, Quiet
  <2>2. \A h \in Files : Finding(h)'
    BY <1>1, <2>1, FindingSame
  <2>3. \A h \in Files : \A j \in 1..Kids(h) :
           result[Kid(h, j)] = "matched" /\ ~(j = kid'[h] /\ pc[h] = "waiting") => h \in found
    <3>1. \A h \in Files : kid'[h] = kid[h] \/ h = f
      BY <1>3 DEF Skip, TypeOK
    <3> QED BY <2>1, <3>1 DEF Matches, Found
  <2> QED BY <2>1, <2>2, <2>3, Fixed DEF Matches, Found
<1>4. ASSUME Quiet, NEW i \in 1..Kids(f), Begin(f, i)
      PROVE  Matches'
  <2>1. PICK k \in Files :
           /\ k = Kid(f, i) /\ k # f /\ pc[f] = "nested" /\ pc[k] = "none"
           /\ pc'[f] = "waiting" /\ pc'[k] = "start" /\ \A h \in Files \ {f, k} : pc'[h] = pc[h]
           /\ kid'[f] = i /\ \A h \in Files \ {f} : kid'[h] = kid[h]
           /\ \A h \in Files \ {k} : opts'[h] = opts[h]
    BY <1>4, Beginnings
  <2>2. UNCHANGED <<inputs, result, found, loaded, converged, matched>>
    BY <1>4 DEF Begin, Quiet
  <2>3. \A h \in Files \ {k} : Finding(h)'
    BY <1>1, <2>1, <2>2, FindingSame
  <2>4. Finding(k)'
    <3>1. k \notin found /\ k \notin converged /\ k \notin matched /\ result[k] = None
      BY <2>1, <1>1 DEF Stages, Stage, Before, TypeOK, Results, After
    <3> QED BY <2>1, <2>2, <3>1, Nones DEF Finding
  <2>5. \A h \in Files : \A j \in 1..Kids(h) :
           result[Kid(h, j)] = "matched" /\ ~(j = kid'[h] /\ pc'[h] = "waiting") => h \in found
    <3> SUFFICES ASSUME NEW h \in Files, NEW j \in 1..Kids(h),
                        result[Kid(h, j)] = "matched", ~(j = kid'[h] /\ pc'[h] = "waiting")
                 PROVE  h \in found
      OBVIOUS
    <3>1. ~(j = kid[h] /\ pc[h] = "waiting")
      BY <2>1
    <3> QED BY <3>1 DEF Matches, Found
  <2> QED BY <2>2, <2>3, <2>4, <2>5, Fixed DEF Matches, Found
<1>5. ASSUME NEW i \in 1..Kids(f), Back(f, i)
      PROVE  Matches'
  <2>1. /\ pc[f] = "waiting" /\ i = kid[f] /\ pc'[f] \in {"nested", "leave"}
        /\ result'[f] = result[f] \/ result'[f] = "error"
        /\ \A h \in Files : h # f => pc'[h] = pc[h] /\ result'[h] = result[h]
        /\ UNCHANGED <<inputs, kid, opts, loaded, converged, matched>>
        /\ found' = found \cup {h \in {f} : result[Kid(f, i)] = "matched"}
    BY <1>5, Backs
  <2>2. \A h \in Files : h # f => Finding(h)'
    BY <1>1, <2>1, FindingSame
  <2>3. Finding(f)'
    <3>1. SelectedOf(f)' = SelectedOf(f)
      BY <2>1, SelectedFixed
    <3>2. result[f] = None
      BY <2>1 DEF TypeOK
    <3> QED BY <1>1, <2>1, <3>1, <3>2, Nones DEF Finding
  <2>4. matched' \subseteq found' /\ (found' # {} => matched' # {})
    <3>1. Kid(f, i) \in Files
      BY Shape
    <3>2. result[Kid(f, i)] = "matched" => found # {}
      BY <1>1, <3>1 DEF Finding
    <3> QED BY <2>1, <3>2 DEF Matches, Found
  <2>5. \A h \in Files : \A j \in 1..Kids(h) :
           result'[Kid(h, j)] = "matched" /\ ~(j = kid[h] /\ pc'[h] = "waiting") => h \in found'
    <3> SUFFICES ASSUME NEW h \in Files, NEW j \in 1..Kids(h),
                        result'[Kid(h, j)] = "matched", ~(j = kid[h] /\ pc'[h] = "waiting")
                 PROVE  h \in found'
      OBVIOUS
    <3>1. Kid(h, j) \in Files
      BY Shape
    <3>2. result[Kid(h, j)] = "matched"
      <4>1. result[f] = None
        BY <2>1 DEF TypeOK
      <4> QED BY <2>1, <3>1, <4>1, Nones
    <3>3. CASE j = kid[h] /\ pc[h] = "waiting"
      BY <2>1, <3>2, <3>3
    <3>4. CASE ~(j = kid[h] /\ pc[h] = "waiting")
      BY <2>1, <3>2, <3>4 DEF Matches, Found
    <3> QED BY <3>3, <3>4
  <2> QED BY <2>1, <2>2, <2>3, <2>4, <2>5, Fixed DEF Matches, Found
<1> QED BY <1>2, <1>3, <1>4, <1>5, NestedSteps

----------------------------------------------------------------------------
(* Selectors that conflict: a sub-helmfile is skipped before it is looked   *)
(* at, which leaves nothing out, whatever the selectors, the labels and the *)
(* releases are.                                                            *)

\* Two selectors that match one release are compatible: they ask for one value of a label.
LEMMA MatchedByBoth ==
    ASSUME NEW a, NEW b, NEW labels, Match(a, labels), Match(b, labels)
    PROVE  Compatible(a, b)
<1>1. \A k \in a.positive : labels[k[1]] = k[2]
    BY DEF Match
<1>2. \A l \in b.positive : labels[l[1]] = l[2]
    BY DEF Match
<1>3. ASSUME NEW k \in a.positive, NEW l \in b.positive, k[1] = l[1]
        PROVE  k[2] = l[2]
    BY <1>1, <1>2, <1>3
<1> QED
    BY <1>3 DEF Compatible

\* A release that both the command line and the sub-helmfile's own selectors match keeps the
\* sub-helmfile from being skipped (subhelmfileSelectorsConflict, SelectorsAreCompatible).
THEOREM SkippedHaveNothing ==
    ASSUME NEW cli, NEW own, NEW common, NEW releases,
           ~SelectorsAreCompatible(cli, own)
    PROVE  Matching(cli, common, releases) \cap Matching(own, common, releases) = {}
<1>1. \A a \in cli, b \in own : ~Compatible(a, b)
    BY DEF SelectorsAreCompatible
<1>2. ASSUME NEW r \in releases,
               NEW a \in cli, Match(a, LabelsOf(common, r)),
               NEW b \in own, Match(b, LabelsOf(common, r))
        PROVE  FALSE
    <2>1. Compatible(a, b)
      BY <1>2, MatchedByBoth
    <2> QED
      BY <1>1, <2>1
<1> QED
    BY <1>2 DEF Matching

\* And so for what is selected: with selectors on both sides, conditions and all.
COROLLARY SkippedSelectNothing ==
    ASSUME NEW cli, NEW own, NEW common, NEW releases, NEW values,
           ~SelectorsAreCompatible(cli, own)
    PROVE  Selected(cli, common, releases, values) \cap Selected(own, common, releases, values) = {}
<1>1. cli # {} /\ own # {}
    BY DEF SelectorsAreCompatible
<1>2. /\ Selected(cli, common, releases, values) \subseteq Matching(cli, common, releases)
        /\ Selected(own, common, releases, values) \subseteq Matching(own, common, releases)
    BY <1>1 DEF Selected
<1> QED
    BY <1>2, SkippedHaveNothing

----------------------------------------------------------------------------
(* The invariant holds.                                                     *)

LEMMA VInit == Init => VInv
<1> SUFFICES ASSUME Init
             PROVE  VInv
  OBVIOUS
<1>1. TypeOK
  BY InitTypes
<1>2. \A f \in Files : /\ pc[f] = "start" \/ pc[f] = "none"
                       /\ pc[f] = "start" <=> IsTop(f) /\ (Parallel \/ f = Top(1))
                       /\ result[f] = None /\ kid[f] = 0
                       /\ opts[f] = IF IsTop(f) THEN tree.cli ELSE {}
  BY DEF Init
<1>3. found = {} /\ errN = 0 /\ matchN = 0 /\ current = 1 /\ main = None
      /\ loaded = {} /\ converged = {} /\ matched = {}
  BY DEF Init
<1>4. N \in Nat /\ N > 0 /\ \A i \in 1..N : Top(i) \in Files /\ IsTop(Top(i))
  BY <1>1, Shape
<1>5. Places
  BY <1>1, <1>2, Shape DEF Places
<1>6. Reached
  <2>1. \A f \in Files : f \in Above(f)
    BY DEF Above
  <2> QED BY <1>1, <1>2, <2>1, Shape DEF Reached
<1>7. Results
  BY <1>2 DEF Results
<1>8. Stages
  BY <1>2, <1>3 DEF Stages, Stage, Before, After
<1>9. Tops
  <2>1. CASE Parallel
    <3>1. \A i \in 1..N : pc[Top(i)] = "start"
      BY <1>2, <1>4, <2>1
    <3> QED BY <1>3, <2>1, <3>1 DEF Tops
  <2>2. CASE ~Parallel
    <3>1. 1 \in 1..N /\ \A i \in 1..N : Top(i) = Top(1) <=> i = 1
      BY <1>1, <1>4, Shape
    <3>2. \A i \in 1..N : pc[Top(i)] = IF i = 1 THEN "start" ELSE "none"
      BY <1>2, <1>4, <2>2, <3>1
    <3> QED BY <1>3, <2>2, <3>2 DEF Tops
  <2> QED BY <2>1, <2>2
<1>10. Over
  BY <1>3 DEF Over
<1>11. Matches
  <2>1. \A f \in Files : \A i \in 1..Kids(f) : result[Kid(f, i)] # "matched"
    BY <1>1, <1>2, Shape, Nones
  <2> QED BY <1>2, <1>3, <2>1, Nones DEF Matches, Found, Finding
<1>12. Options
  BY <1>2 DEF Options
<1> QED BY <1>1, <1>5, <1>6, <1>7, <1>8, <1>9, <1>10, <1>11, <1>12 DEF VInv

LEMMA VFile ==
    ASSUME VInv, NEW f \in Files, File(f)
    PROVE  VInv'
<1>1. /\ TypeOK /\ Places /\ Reached /\ Results /\ Stages /\ Tops /\ Over /\ Matches /\ Options
  BY DEF VInv
<1>2. TypeOK'
  BY <1>1, StepTypes
<1>3. \/ Turn(f)
      \/ Quiet /\ \E i \in 1..Kids(f) : Skip(f, i) \/ Begin(f, i)
      \/ \E i \in 1..Kids(f) : Back(f, i)
  BY <1>1, Moves
<1>4. Places'
  BY <1>1, <1>3, PlacesTurn, PlacesSkip, PlacesBegin, PlacesBack
<1>5. Results'
  BY <1>1, <1>2, <1>3, ResultsStep
<1>6. Reached' /\ Options'
  BY <1>1, ReachedFile
<1>7. Stages' /\ Matches'
  BY <1>1, StagesFile, MatchesFile
<1>8. Tops' /\ Over'
  <2>1. CASE Send(f)
    BY <1>1, <2>1, TopsSend
  <2>2. CASE ~Send(f)
    <3>1. UNCHANGED <<errN, matchN>>
      BY <2>2 DEF File, Start, Chdir, Load, Nested, Return, LockRepos, AddRepo, ReposAdded, Converge, Leave,
                  addUnchanged
    <3>2. Turn(f) => pc[f] # "send"
      BY <2>2 DEF File, Start, Chdir, Load, Nested, Return, LockRepos, AddRepo, ReposAdded, Converge, Leave
    <3>3. Steady
      BY <1>1, <1>3, <3>2, Steadies
    <3> QED BY <1>1, <3>1, <3>3, TopsSteady
  <2> QED BY <2>1, <2>2
<1> QED BY <1>2, <1>4, <1>5, <1>6, <1>7, <1>8 DEF VInv

LEMMA VTop ==
    ASSUME VInv, Launch \/ Finish
    PROVE  VInv'
<1>1. /\ TypeOK /\ Places /\ Reached /\ Results /\ Stages /\ Tops /\ Over /\ Matches /\ Options
  BY DEF VInv
<1>2. Stages' /\ Tops' /\ Over'
  BY <1>1, StagesTop, TopsMove
<1>3. CASE Launch
  <2>1. PICK t \in Files : /\ t = Top(current + 1) /\ IsTop(t) /\ pc[t] = "none" /\ pc'[t] = "start"
                           /\ \A h \in Files : h # t => pc'[h] = pc[h]
    BY <1>1, <1>3, Launches
  <2>2. UNCHANGED <<inputs, kid, opts, found, result, loaded, converged, matched>>
    BY <1>3 DEF Launch, history
  <2>3. TypeOK'
    <3>1. pc' \in [Files -> Steps]
      BY <1>1, <1>3, <2>1 DEF Launch, TypeOK, Steps
    <3>2. \A h \in Files : pc'[h] \in {"send", "done"} <=> result'[h] # None /\ pc'[h] # "leave"
      BY <1>1, <2>1, <2>2 DEF TypeOK, Results, After
    <3>3. current' \in 1..N
      BY <1>1, <1>3, Kinds DEF Launch
    <3>4. /\ UNCHANGED <<inputs, result, kid, opts, cwd, prev, updated, added, mu, at, tries, errN,
                          matchN, main, loaded, converged, matched, found>>
      BY <1>3 DEF Launch, shared, repoVars, history
    <3> QED BY <1>1, <3>1, <3>2, <3>3, <3>4, FileTypes DEF TypeOK, Dirs
  <2>4. Results'
    BY <1>1, <2>1, <2>2, Fixed DEF Results, After
  <2>5. Matches'
    <3>1. \A h \in Files : pc'[h] \in {"send", "done"} => pc[h] \in {"send", "done"}
      BY <2>1
    <3>2. \A h \in Files : pc'[h] = "waiting" <=> pc[h] = "waiting"
      BY <2>1
    <3>3. \A h \in Files : Finding(h)'
      BY <1>1, <2>2, <3>1, FindingSame DEF Matches
    <3> QED BY <1>1, <2>2, <3>2, <3>3, Fixed DEF Matches, Found
  <2> QED BY <1>1, <1>2, <1>3, <2>3, <2>4, <2>5, PlacesLaunch, ReachedLaunch DEF VInv
<1>4. CASE Finish
  <2>1. /\ UNCHANGED <<inputs, pc, kid, opts, found, result, loaded, converged, matched>>
        /\ main' \in {"matched", "nomatch", "error"}
    BY <1>4 DEF Finish, history
  <2>2. TypeOK'
    BY <1>1, <1>4, <2>1, FileTypes DEF Finish, TypeOK, Dirs, shared, repoVars
  <2>3. Places' /\ Results' /\ Reached' /\ Options'
    BY <1>1, <2>1, PlacesSame, AboveFixed, Fixed DEF Results, Reached, Options, inputs
  <2>4. \A h \in Files : Finding(h)'
    BY <1>1, <2>1, FindingSame DEF Matches
  <2> QED BY <1>1, <1>2, <2>1, <2>2, <2>3, <2>4, Fixed DEF VInv, Matches, Found
<1> QED BY <1>3, <1>4

\* Without a step everything stays as it is.
LEMMA VStutter ==
    ASSUME VInv, UNCHANGED vars
    PROVE  VInv'
<1>1. UNCHANGED <<inputs, pc, result, kid, opts, found, prev, cwd, updated, mu, at, tries, added,
                  errN, matchN, current, main, loaded, converged, matched>>
  BY DEF vars, shared, repoVars, history
<1>2. /\ TypeOK /\ Places /\ Reached /\ Results /\ Stages /\ Tops /\ Over /\ Matches /\ Options
  BY DEF VInv
<1>3. TypeOK'
  BY <1>1, <1>2, FileTypes DEF TypeOK, Dirs
<1>4. Places' /\ Results' /\ Reached' /\ Options'
  BY <1>1, <1>2, PlacesSame, AboveFixed, Fixed DEF Results, Reached, Options, inputs
<1>5. Stages'
  BY <1>1, <1>2, StageSame DEF Stages
<1>6. Tops' /\ Over'
  BY <1>1, <1>2, Fixed DEF Tops, Over
<1>7. \A h \in Files : Finding(h)'
  BY <1>1, <1>2, FindingSame DEF Matches
<1>8. Found'
  BY <1>1, <1>2, Fixed DEF Matches, Found
<1> QED BY <1>3, <1>4, <1>5, <1>6, <1>7, <1>8 DEF VInv, Matches

LEMMA VNext == VInv /\ [Next]_vars => VInv'
<1> SUFFICES ASSUME VInv, [Next]_vars
             PROVE  VInv'
  OBVIOUS
<1>1. TypeOK /\ Results /\ Tops
  BY DEF VInv
<1>2. CASE \E f \in Files : File(f)
  BY <1>2, VFile
<1>3. CASE Gather \/ NextFile
  BY <1>1, <1>3, TopMoves, VTop
<1>4. CASE UNCHANGED vars
  BY <1>4, VStutter
<1> QED BY <1>2, <1>3, <1>4 DEF Next, Done

LEMMA Visiting == Spec => []VInv
BY VInit, VNext, PTL DEF Spec

\* A visit keeps its state well formed.
THEOREM TypeCorrect == Spec => []TypeOK
<1>1. VInv => TypeOK
  BY DEF VInv
<1> QED BY <1>1, Visiting, PTL

----------------------------------------------------------------------------
(* The order of the visit.                                                  *)

\* A file that lets the next one go first was skipped or returned without an error.
LEMMA BehindPassable ==
    ASSUME TypeOK, NEW f \in Files, NEW i \in 1..Kids(f), Behind(Kid(f, i))
    PROVE  Passable(Kid(f, i))
<1>1. ~IsTop(Kid(f, i))
  BY Shape
<1> QED BY <1>1 DEF Behind, Passable, Skipped, NoError

\* For any tree of files, in every order the goroutines may take: sub-helmfiles are visited in
\* the order they are listed, before the releases of the file (after them for destroy), each
\* only when the one before has ended without an error, and so are the files with
\* --sequential-helmfiles.
THEOREM InOrder == Spec => []VisitOrder
<1>1. ASSUME VInv
      PROVE  VisitOrder
  <2>1. TypeOK /\ Places /\ Results /\ Stages /\ Tops
    BY <1>1 DEF VInv
  <2>2. ASSUME NEW f \in Files, NEW i \in 1..Kids(f), pc[Kid(f, i)] # "none"
        PROVE  /\ \A j \in 1..(i - 1) : Passable(Kid(f, j))
               /\ reverse => f \in converged
    <3>1. kid[f] \in Nat /\ i \in Nat /\ i > 0 /\ Kids(f) \in Nat
      BY <2>1, Kinds
    <3>2. i <= kid[f]
      BY <2>1, <2>2, <3>1 DEF Places
    <3>3. reverse => f \in converged
      BY <2>1, <3>1, <3>2 DEF Stages, Stage
    <3>4. ASSUME NEW j \in 1..(i - 1)
          PROVE  Passable(Kid(f, j))
      <4>1. j \in 1..Kids(f) /\ j < kid[f]
        BY <3>1, <3>2
      <4>2. Behind(Kid(f, j))
        BY <2>1, <4>1 DEF Places
      <4> QED BY <2>1, <4>1, <4>2, BehindPassable
    <3> QED BY <3>3, <3>4
  <2>3. ASSUME NEW f \in Files, f \in converged, ~reverse, NEW i \in 1..Kids(f)
        PROVE  Passable(Kid(f, i))
    <3>1. pc[f] \in After /\ kid[f] = Kids(f)
      BY <2>1, <2>3 DEF Stages, Stage
    <3>2. Kids(f) \in Nat /\ i \in Nat
      BY <2>1, Shape
    <3>3. Behind(Kid(f, i))
      BY <2>1, <2>3, <3>1, <3>2 DEF Places, After
    <3> QED BY <2>1, <3>3, BehindPassable
  <2>4. ASSUME ~Parallel, NEW i \in 2..N, pc[Top(i)] # "none"
        PROVE  Passable(Top(i - 1))
    <3>1. N \in Nat /\ current \in 1..N
      BY <2>1, Shape DEF TypeOK
    <3>2. i \in 1..N /\ i - 1 \in 1..N
      BY <3>1
    <3>3. i <= current
      BY <2>1, <2>4, <3>1, <3>2 DEF Tops
    <3>4. i - 1 < current
      BY <3>1, <3>2, <3>3
    <3>5. result[Top(i - 1)] \in NoError
      BY <2>1, <2>4, <3>2, <3>4 DEF Tops
    <3> QED BY <3>5 DEF Passable, NoError
  <2> QED BY <2>2, <2>3, <2>4 DEF VisitOrder
<1> QED BY <1>1, Visiting, PTL

----------------------------------------------------------------------------
(* The result of the visit.                                                 *)

\* What holds of a file and of every file with a sub-helmfile of which it holds, holds of a
\* top file.
LEMMA Upward ==
    ASSUME Reached, NEW S \in SUBSET Files, NEW f \in S, pc[f] # "none",
           \A p \in Files : \A i \in 1..Kids(p) : Kid(p, i) \in S => p \in S
    PROVE  \E i \in 1..N : Top(i) \in S
<1>1. PICK i \in 1..N : Top(i) \in Above(f)
  BY DEF Reached
<1> QED BY <1>1 DEF Above

\* When the visit is over, no file is still at work.
LEMMA AllIdle ==
    ASSUME VInv, main # None
    PROVE  \A f \in Files : pc[f] \in {"none", "done"}
<1>1. TypeOK /\ Places /\ Reached /\ Tops /\ Over
  BY DEF VInv
<1>2. \A i \in 1..N : pc[Top(i)] \in {"none", "done"}
  BY <1>1 DEF Over, Tops
<1> DEFINE S == {h \in Files : pc[h] \notin {"none", "done"}}
<1>3. \A p \in Files : \A i \in 1..Kids(p) : Kid(p, i) \in S => p \in S
  BY <1>1, ParentWaits
<1>4. ASSUME NEW f \in S
      PROVE  FALSE
  <2>1. \E i \in 1..N : Top(i) \in S
    BY <1>1, <1>3, Upward
  <2> QED BY <1>2, <2>1
<1> QED BY <1>4

\* It then has failed exactly when a file has, and found a match exactly when a file has.
LEMMA ErrorsRise ==
    ASSUME VInv, main # None, NEW f \in Files, result[f] = "error"
    PROVE  main = "error"
<1>1. TypeOK /\ Places /\ Reached /\ Results /\ Over
  BY DEF VInv
<1> DEFINE S == {h \in Files : result[h] = "error"}
<1>2. ASSUME NEW p \in Files, NEW i \in 1..Kids(p), Kid(p, i) \in S
      PROVE  p \in S
  <2>1. kid[p] \in Nat /\ i \in Nat
    BY <1>1, Shape DEF TypeOK
  <2>2. pc[p] # "waiting"
    BY AllIdle
  <2>3. pc[Kid(p, i)] # "none" /\ ~Behind(Kid(p, i))
    BY <1>1, <1>2, Nones DEF Results, After, Behind, NoError
  <2> QED BY <1>1, <2>1, <2>2, <2>3 DEF Places
<1>3. pc[f] # "none"
  BY <1>1, Nones DEF Results, After
<1>4. \E i \in 1..N : Top(i) \in S
  BY <1>1, <1>2, <1>3, Upward
<1> QED BY <1>1, <1>4 DEF Over

LEMMA MatchesRise ==
    ASSUME VInv, main # None, main # "error", NEW f \in matched
    PROVE  main = "matched"
<1>1. TypeOK /\ Places /\ Reached /\ Results /\ Stages /\ Over /\ Matches
  BY DEF VInv
<1>2. \A h \in Files : pc[h] \in {"none", "done"} /\ result[h] # "error"
  BY AllIdle, ErrorsRise
<1> DEFINE S == {h \in Files : result[h] = "matched"}
<1>3. ASSUME NEW h \in Files, h \in found, pc[h] = "done"
      PROVE  h \in S
  BY <1>1, <1>2, <1>3 DEF Matches, Finding
<1>4. ASSUME NEW p \in Files, NEW i \in 1..Kids(p), Kid(p, i) \in S
      PROVE  p \in S
  <2>1. p \in found
    BY <1>1, <1>2, <1>4 DEF Matches, Found
  <2>2. pc[p] = "done"
    BY <1>1, <1>2, <2>1 DEF Stages, Stage, Before
  <2> QED BY <1>3, <2>1, <2>2
<1>5. f \in Files /\ f \in found /\ pc[f] = "done"
  BY <1>1, <1>2 DEF Matches, Found, Stages, Stage, Before, TypeOK
<1>6. \E i \in 1..N : Top(i) \in S
  BY <1>1, <1>3, <1>4, <1>5, Upward
<1> QED BY <1>1, <1>2, <1>6, Shape DEF Over

\* For any tree of files and any selectors, in every order: the command fails exactly when a
\* file it visited failed; without a failure it has visited every file and sub-helmfile that
\* could have a release it is for, and says whether there was one.
THEOREM ResultCorrect == Spec => []ResultSound
<1>1. ASSUME VInv, main # None
      PROVE  main = "error" <=> \E f \in Files : result[f] = "error"
  <2>1. TypeOK /\ Over
    BY <1>1 DEF VInv
  <2>2. main = "error" => \E i \in 1..N : result[Top(i)] = "error"
    BY <1>1, <2>1 DEF Over
  <2> QED BY <1>1, <2>1, <2>2, ErrorsRise, Shape
<1>2. ASSUME VInv, main # None, main # "error"
      PROVE  /\ \A i \in 1..N : Visited(Top(i))
             /\ main = "matched" <=> matched # {}
  <2>1. TypeOK /\ Results /\ Over /\ Matches
    BY <1>2 DEF VInv
  <2>2. N \in Nat /\ current \in 1..N /\ \A i \in 1..N : Top(i) \in Files
    BY <2>1, Shape DEF TypeOK
  <2>3. ~\E i \in 1..N : result[Top(i)] = "error"
    BY <1>1, <1>2, <2>2
  <2>4. \A i \in 1..N : pc[Top(i)] = "done"
    BY <1>2, <2>1, <2>2, <2>3 DEF Over
  <2>5. \A i \in 1..N : Visited(Top(i))
    BY <2>1, <2>2, <2>4 DEF Visited, Results
  <2>6. main = "matched" => matched # {}
    <3>1. main = "matched" => \E i \in 1..N : result[Top(i)] = "matched"
      BY <1>2, <2>1, <2>3 DEF Over
    <3> QED BY <2>1, <2>2, <3>1 DEF Matches, Found, Finding
  <2> QED BY <1>2, <2>5, <2>6, MatchesRise
<1>3. ASSUME VInv, main # None, main # "error", NEW f \in loaded
      PROVE  f \in Files /\ pc[f] = "done" /\ result[f] # "error" /\ kid[f] = Kids(f) /\ f \in converged
  <2>1. TypeOK /\ Stages
    BY <1>3 DEF VInv
  <2>2. f \in Files
    BY <2>1 DEF TypeOK
  <2>3. pc[f] = "done" /\ result[f] # "error"
    <3>1. pc[f] # "none"
      BY <1>3, <2>1, <2>2 DEF Stages, Stage, Before
    <3> QED BY <1>1, <1>3, <2>2, <3>1, AllIdle
  <2> QED BY <1>3, <2>1, <2>2, <2>3 DEF Stages, Stage, After
<1>4. ASSUME VInv, main # None, main # "error", NEW f \in loaded, NEW i \in 1..Kids(f),
             ~Skipped(Kid(f, i))
      PROVE  Visited(Kid(f, i))
  <2>1. TypeOK /\ Places /\ Results
    BY <1>4 DEF VInv
  <2>2. f \in Files /\ pc[f] = "done" /\ result[f] # "error" /\ kid[f] = Kids(f)
    BY <1>3, <1>4
  <2>3. i <= kid[f] /\ ~IsTop(Kid(f, i)) /\ Kid(f, i) \in Files
    BY <2>1, <2>2, Shape
  <2>4. Behind(Kid(f, i))
    BY <2>1, <2>2, <2>3, PastKids
  <2> QED BY <1>4, <2>1, <2>3, <2>4 DEF Behind, Skipped, Visited, Results
<1>5. ASSUME NEW k \in Files, Conflict(k)
      PROVE  Matching(tree.cli, tree.common[k],
                      Matching(tree.selectors[k].filters, tree.common[k], tree.releases[k])) = {}
  <2>1. Matching(tree.cli, tree.common[k], tree.releases[k])
           \cap Matching(tree.selectors[k].filters, tree.common[k], tree.releases[k]) = {}
    BY <1>5, SkippedHaveNothing DEF Conflict
  <2> QED BY <2>1 DEF Matching
<1>6. ASSUME VInv, main # None, main # "error", OneSelection
      PROVE  matched = {f \in loaded : Selected(tree.cli, tree.common[f], tree.releases[f],
                                                tree.values[f]) # {}}
  <2>1. TypeOK /\ Matches /\ Options
    BY <1>6 DEF VInv
  <2>2. \A f \in loaded : f \in Files /\ pc[f] = "done" /\ result[f] # "error" /\ f \in converged
    BY <1>3, <1>6
  <2>3. \A f \in loaded : opts[f] = tree.cli
    BY <1>6, <2>1, <2>2 DEF Options
  <2>4. \A f \in loaded : f \in matched <=> SelectedOf(f) # {}
    BY <2>1, <2>2 DEF Matches, Finding
  <2>5. matched \subseteq loaded
    BY <2>1 DEF TypeOK
  <2> QED BY <2>3, <2>4, <2>5 DEF SelectedOf
<1>7. VInv => ResultSound
  <2> SUFFICES ASSUME VInv, main # None
               PROVE  ResultSound
    BY DEF ResultSound
  <2>1. TypeOK
    BY DEF VInv
  <2>2. ASSUME main # "error", NEW f \in loaded, NEW i \in 1..Kids(f)
        PROVE  LET k == Kid(f, i) IN
               IF Skipped(k)
               THEN Matching(tree.cli, tree.common[k],
                             Matching(tree.selectors[k].filters, tree.common[k],
                                      tree.releases[k])) = {}
               ELSE Visited(k)
    <3>1. Kid(f, i) \in Files
      BY <1>3, <2>2, <2>1, Shape
    <3> QED BY <1>4, <1>5, <2>2, <3>1 DEF Skipped
  <2> QED BY <1>1, <1>2, <1>6, <2>2 DEF ResultSound, OneSelection
<1> QED BY <1>7, Visiting, PTL

----------------------------------------------------------------------------
(* The repositories of the files.                                           *)

LEMMA StockedSame ==
    ASSUME TypeOK, NEW h \in Files, Stocked(h), UNCHANGED inputs, pc'[h] = pc[h], at'[h] = at[h],
           h \in converged' => h \in converged, updated \subseteq updated',
           \A r \in Repos : added[r] > 0 => added'[r] > 0
    PROVE  Stocked(h)'
<1>1. UNCHANGED tree /\ Early(h)' = Early(h)
  BY Fixed DEF Early
<1> QED BY <1>1, Fixed, Lists DEF Stocked

\* Steps that have nothing to do with repositories.
LEMMA ReposAside ==
    ASSUME RInv, UNCHANGED <<inputs, updated, mu, at, added>>,
           \A h \in Files : /\ pc'[h] = "add" <=> pc[h] = "add"
                            /\ Early(h)' => Early(h)
                            /\ pc'[h] = "converge" \/ h \in converged' => pc[h] = "converge" \/ h \in converged
                            /\ result[h] = "error" => result'[h] = "error"
    PROVE  Mutex' /\ Repositories' /\ (AddedOnce => AddedOnce')
<1>1. Mutex /\ Repositories /\ UNCHANGED tree
  BY Fixed DEF RInv
<1>2. Mutex'
  BY <1>1 DEF Mutex
<1>3. \A h \in Files : Stocked(h)'
  BY <1>1, Fixed DEF Repositories, Stocked
<1>4. Repositories'
  BY <1>1, <1>3 DEF Repositories
<1>5. AddedOnce => AddedOnce'
  BY <1>1, Fixed DEF AddedOnce
<1> QED BY <1>2, <1>4, <1>5

LEMMA ReposLock ==
    ASSUME RInv, NEW f \in Files, LockRepos(f)
    PROVE  Mutex' /\ Repositories' /\ (AddedOnce => AddedOnce')
<1>1. TypeOK /\ Mutex /\ Repositories
  BY DEF RInv
<1>2. /\ UNCHANGED <<inputs, updated, at, added, converged, result>>
      /\ pc[f] = "repos" /\ mu = None /\ mu' = f
      /\ pc'[f] = "add" /\ \A h \in Files : h # f => pc'[h] = pc[h]
  BY <1>1 DEF LockRepos, Go, history, TypeOK
<1>3. UNCHANGED tree
  BY <1>2, Fixed
<1>4. Mutex'
  BY <1>1, <1>2, Nones DEF Mutex
<1>5. \A h \in Files : h # f => Stocked(h)'
  BY <1>1, <1>2, StockedSame DEF Repositories
<1>6. Stocked(f)'
  <2>1. Stocked(f) /\ at[f] = 1
    BY <1>1, <1>2 DEF Repositories, Stocked, Early
  <2>2. \A i \in DOMAIN tree.repos[f] : ~(i < 1)
    BY <1>1, Lists
  <2> QED BY <1>2, <1>3, <2>1, <2>2, Fixed DEF Stocked, Early, Before
<1>7. Repositories'
  BY <1>1, <1>2, <1>5, <1>6 DEF Repositories
<1>8. AddedOnce => AddedOnce'
  <2>1. \A h \in Files : pc[h] = "add" => pc'[h] = "add"
    BY <1>2
  <2> QED BY <1>2, <1>3, <2>1, Fixed DEF AddedOnce
<1> QED BY <1>4, <1>7, <1>8

LEMMA ReposAdd ==
    ASSUME RInv, NEW f \in Files, AddRepo(f)
    PROVE  Mutex' /\ Repositories' /\ (ListedApart /\ AddedOnce => AddedOnce')
<1>1. TypeOK /\ Mutex /\ Repositories
  BY DEF RInv
<1> DEFINE goes(i) == UNCHANGED pc /\ UNCHANGED result /\ UNCHANGED mu /\ at' = [at EXCEPT ![f] = i + 1]
<1>2. PICK i \in DOMAIN tree.repos[f], r \in Repos :
         /\ i = at[f] /\ r = tree.repos[f][i] /\ pc[f] = "add"
         /\ UNCHANGED <<inputs, updated, converged>>
         /\ \/ (r \in updated \/ r \notin Wanted(f)) /\ goes(i) /\ UNCHANGED added
            \/ r \notin updated /\ r \in Wanted(f) /\ goes(i) /\ added' = [added EXCEPT ![r] = @ + 1]
            \/ UNCHANGED <<pc, result, mu, at, added>>
            \/ Fail(f) /\ mu' = None /\ UNCHANGED <<at, added>>
  <2>1. at[f] \in DOMAIN tree.repos[f] /\ tree.repos[f][at[f]] \in Repos
    BY <1>1, Lists DEF AddRepo
  <2> QED BY <2>1 DEF AddRepo, Retry, addUnchanged, history
<1>3. UNCHANGED tree
  BY <1>2, Fixed
<1>4. \A h \in Files : h # f => pc'[h] = pc[h] /\ at'[h] = at[h]
  BY <1>1, <1>2 DEF Fail, Go, TypeOK
<1>12. at \in [Files -> Nat] /\ added \in [Repos -> Nat]
  BY <1>1 DEF TypeOK
<1>5. added' \in [Repos -> Nat] /\ \A q \in Repos : added[q] > 0 => added'[q] > 0
  BY <1>2, <1>12
<1>6. Mutex'
  <2>1. CASE Fail(f) /\ mu' = None
    BY <1>1, <1>2, <2>1, Nones DEF Mutex, Fail, Go, TypeOK
  <2>2. CASE UNCHANGED <<pc, mu>>
    BY <1>1, <2>2 DEF Mutex
  <2> QED BY <1>2, <2>1, <2>2
<1>7. \A h \in Files : h # f => Stocked(h)'
  BY <1>1, <1>2, <1>4, <1>5, StockedSame DEF Repositories
<1>8. Stocked(f)'
  <2>2. CASE UNCHANGED <<pc, at>>
    BY <1>1, <1>2, <1>5, <2>2, StockedSame DEF Repositories
  <2>3. CASE goes(i)
    <3>1. pc'[f] = "add" /\ at'[f] = i + 1
      BY <1>1, <1>2, <2>3 DEF TypeOK
    <3>2. r \in Wanted(f) => added'[r] > 0
      <4>1. CASE r \in updated \/ r \notin Wanted(f)
        BY <1>1, <1>5, <4>1 DEF Repositories
      <4>2. CASE r \notin updated /\ r \in Wanted(f)
        <5>1. added' = [added EXCEPT ![r] = @ + 1]
          BY <1>2, <1>12, <2>3, <3>1, <4>2 DEF Fail, Go
        <5> QED BY <1>12, <5>1
      <4> QED BY <4>1, <4>2
    <3>3. ASSUME NEW j \in DOMAIN tree.repos[f], j < i + 1, tree.repos[f][j] \in Wanted(f)
          PROVE  added'[tree.repos[f][j]] > 0
      <4>1. j \in Nat /\ i \in Nat /\ tree.repos[f][j] \in Repos
        BY <1>1, Lists
      <4>2. CASE j = i
        BY <1>2, <3>2, <3>3, <4>2
      <4>3. CASE j < i
        BY <1>1, <1>2, <1>5, <3>3, <4>1, <4>3 DEF Repositories, Stocked
      <4> QED BY <3>3, <4>1, <4>2, <4>3
    <3>4. f \in converged => Wanted(f) \subseteq updated
      BY <1>1 DEF Repositories, Stocked
    <3> QED BY <1>2, <1>3, <3>1, <3>3, <3>4, Fixed DEF Stocked, Early, Before
  <2>4. CASE Fail(f)
    <3>1. pc'[f] = "leave"
      BY <1>1, <2>4 DEF Fail, Go, TypeOK
    <3>2. f \in converged => Wanted(f) \subseteq updated
      BY <1>1 DEF Repositories, Stocked
    <3> QED BY <1>2, <3>1, <3>2, Fixed DEF Stocked, Early, Before
  <2> QED BY <1>2, <2>2, <2>3, <2>4
<1>9. Repositories'
  <2>1. \A q \in updated : q \in Repos
    BY <1>1 DEF TypeOK
  <2> QED BY <1>1, <1>2, <1>5, <1>7, <1>8, <2>1 DEF Repositories
<1>10. ASSUME ListedApart, AddedOnce, \A h \in Files : result'[h] # "error"
       PROVE  \A q \in Repos :
                 /\ added'[q] <= 1
                 /\ added'[q] = 1 /\ q \notin updated =>
                       \E h \in Files : /\ pc'[h] = "add" /\ q \in Wanted(h)
                                        /\ \E j \in DOMAIN tree.repos[h] : j < at'[h] /\ tree.repos[h][j] = q
  <2>1. ~Fail(f)
    BY <1>1, <1>10 DEF Fail, TypeOK
  <2>2. UNCHANGED pc /\ \A h \in Files : result[h] # "error"
    BY <1>2, <1>10, <2>1
  <2>3. at \in [Files -> Nat] /\ added \in [Repos -> Nat] /\ i \in Nat
    BY <1>1, <1>12, Lists
  <2>4. \A h \in Files : at'[h] >= at[h]
    BY <1>2, <2>1, <2>3
  <2>5. ASSUME NEW q \in Repos, added'[q] = added[q]
        PROVE  /\ added'[q] <= 1
               /\ added'[q] = 1 /\ q \notin updated =>
                     \E h \in Files : /\ pc'[h] = "add" /\ q \in Wanted(h)
                                      /\ \E j \in DOMAIN tree.repos[h] : j < at'[h] /\ tree.repos[h][j] = q
    <3>1. added'[q] <= 1
      BY <1>10, <2>2, <2>5 DEF AddedOnce
    <3>2. ASSUME added[q] = 1, q \notin updated
          PROVE  \E h \in Files : /\ pc'[h] = "add" /\ q \in Wanted(h)
                                  /\ \E j \in DOMAIN tree.repos[h] : j < at'[h] /\ tree.repos[h][j] = q
      <4>1. PICK h \in Files : /\ pc[h] = "add" /\ q \in Wanted(h)
                               /\ \E j \in DOMAIN tree.repos[h] : j < at[h] /\ tree.repos[h][j] = q
        BY <1>10, <2>2, <3>2 DEF AddedOnce
      <4>3. PICK j \in DOMAIN tree.repos[h] : j < at[h] /\ tree.repos[h][j] = q
        BY <4>1
      <4>2. j < at'[h]
        <5>1. j \in Nat /\ at[h] \in Nat /\ at'[h] \in Nat
          BY <1>1, <1>2, <2>1, <2>3, Lists
        <5> QED BY <2>4, <4>3, <5>1
      <4> QED BY <2>2, <4>1, <4>2, <4>3
    <3> QED BY <2>5, <3>1, <3>2
  <2>6. CASE UNCHANGED added
    BY <2>5, <2>6
  <2>7. CASE r \notin updated /\ r \in Wanted(f) /\ goes(i) /\ added' = [added EXCEPT ![r] = @ + 1]
    <3>1. added[r] # 1
      <4> SUFFICES ASSUME added[r] = 1
                   PROVE  FALSE
        OBVIOUS
      <4>1. PICK h \in Files : /\ pc[h] = "add"
                               /\ \E j \in DOMAIN tree.repos[h] : j < at[h] /\ tree.repos[h][j] = r
        BY <1>10, <2>2, <2>7 DEF AddedOnce
      <4>2. h = f
        BY <1>1, <1>2, <4>1 DEF Mutex
      <4>3. PICK j \in DOMAIN tree.repos[f] : j < at[f] /\ tree.repos[f][j] = r
        BY <4>1, <4>2
      <4>4. j = i
        BY <1>2, <1>10, <4>3 DEF ListedApart
      <4> QED BY <1>2, <2>3, <4>3, <4>4
    <3>2. added'[r] = 1
      <4>1. added[r] <= 1 /\ added[r] \in Nat
        BY <1>10, <2>2, <2>3 DEF AddedOnce
      <4> QED BY <2>3, <2>7, <3>1, <4>1
    <3>3. pc'[f] = "add" /\ r \in Wanted(f) /\ i < at'[f] /\ tree.repos[f][i] = r
      BY <1>2, <2>2, <2>3, <2>7
    <3>4. \A q \in Repos : q # r => added'[q] = added[q]
      BY <2>3, <2>7
    <3> QED BY <2>5, <3>2, <3>3, <3>4
  <2> QED BY <1>2, <2>1, <2>6, <2>7
<1>11. ListedApart /\ AddedOnce => AddedOnce'
  BY <1>2, <1>3, <1>10, Fixed DEF AddedOnce
<1> QED BY <1>6, <1>9, <1>11

LEMMA ReposEnd ==
    ASSUME RInv, NEW f \in Files, ReposAdded(f)
    PROVE  Mutex' /\ Repositories' /\ (AddedOnce => AddedOnce')
<1>1. TypeOK /\ Mutex /\ Repositories
  BY DEF RInv
<1>2. /\ UNCHANGED <<inputs, at, added, converged, result>>
      /\ pc[f] = "add" /\ mu' = None /\ updated' = updated \cup Wanted(f) /\ at[f] > Len(tree.repos[f])
      /\ pc'[f] = "converge" /\ \A h \in Files : h # f => pc'[h] = pc[h]
  BY <1>1 DEF ReposAdded, Go, addUnchanged, history, TypeOK
<1>3. UNCHANGED tree
  BY <1>2, Fixed
<1>4. Mutex'
  BY <1>1, <1>2, Nones DEF Mutex
<1>5. \A h \in Files : h # f => Stocked(h)'
  BY <1>1, <1>2, StockedSame DEF Repositories
<1>6. Stocked(f)'
  BY <1>2, Fixed DEF Stocked, Early, Before
<1>7. \A r \in Wanted(f) : added[r] > 0
  <2> SUFFICES ASSUME NEW r \in Wanted(f)
               PROVE  added[r] > 0
    OBVIOUS
  <2>1. PICK i \in DOMAIN tree.repos[f] : tree.repos[f][i] = r
    BY DEF Wanted
  <2>2. i < at[f]
    <3>1. at[f] \in Nat /\ Len(tree.repos[f]) \in Nat /\ i \in 1..Len(tree.repos[f])
      BY <1>1, Lists DEF TypeOK
    <3> QED BY <1>2, <3>1
  <2> QED BY <1>1, <1>2, <2>1, <2>2 DEF Repositories, Stocked
<1>8. Repositories'
  BY <1>1, <1>2, <1>5, <1>6, <1>7 DEF Repositories
<1>9. AddedOnce => AddedOnce'
  <2> SUFFICES ASSUME AddedOnce, \A h \in Files : result[h] # "error", NEW r \in Repos,
                      added[r] = 1, r \notin updated'
               PROVE  FALSE
    BY <1>2 DEF AddedOnce
  <2>1. PICK h \in Files : pc[h] = "add" /\ r \in Wanted(h)
    BY <1>2 DEF AddedOnce
  <2>2. h = f
    BY <1>1, <1>2, <2>1 DEF Mutex
  <2> QED BY <1>2, <2>1, <2>2
<1> QED BY <1>4, <1>8, <1>9

LEMMA ReposFile ==
    ASSUME VInv, RInv, NEW f \in Files, File(f)
    PROVE  Mutex' /\ Repositories' /\ (ListedApart /\ AddedOnce => AddedOnce')
<1>1. TypeOK /\ Places /\ Results /\ Stages
  BY DEF VInv
<1>2. pc \in [Files -> Steps] /\ DOMAIN result = Files
  BY <1>1 DEF TypeOK
<1>3. CASE /\ ~(Nested(f) /\ kid[f] < Kids(f)) /\ ~Return(f)
           /\ ~(LockRepos(f) \/ AddRepo(f) \/ ReposAdded(f))
  <2>7. Turn(f)
    BY <1>1, <1>3, Turns DEF File
  <2>1. /\ UNCHANGED inputs
        /\ \A h \in Files : h # f => pc'[h] = pc[h] /\ result'[h] = result[h]
        /\ \A h \in Files : h \in converged' <=> h \in converged \/ (h = f /\ pc[f] = "converge")
        /\ \A h \in Files : result[h] = "error" => result'[h] = "error"
    BY <2>7 DEF Turn
  <2>2. UNCHANGED <<updated, mu, at, added>>
    BY <1>3 DEF File, Start, Chdir, Load, Nested, Converge, Leave, Send, shared, repoVars
  <2>3. /\ pc[f] # "add" /\ pc'[f] # "add" /\ pc'[f] # "converge"
        /\ \/ pc'[f] \in {"leave", "send", "done"}
           \/ pc[f] \in Before
           \/ ~reverse /\ pc[f] = "nested" /\ pc'[f] = "repos"
           \/ reverse /\ pc[f] = "converge" /\ pc'[f] = "nested"
    <3>1. CASE Start(f)
      BY <1>2, <3>1 DEF Start, Go, Fail, Before
    <3>2. CASE Chdir(f)
      BY <1>2, <3>2 DEF Chdir, Go, Before
    <3>3. CASE Load(f)
      BY <1>2, <3>3 DEF Load, Go, Fail, Before
    <3>4. CASE Nested(f)
      BY <1>2, <1>3, <3>4 DEF Nested, Go
    <3>5. CASE Converge(f)
      BY <1>2, <3>5 DEF Converge, Go, Fail
    <3>6. CASE Leave(f)
      BY <1>2, <3>6 DEF Leave, Go
    <3>7. CASE Send(f)
      BY <1>2, <3>7 DEF Send, Go
    <3> QED BY <1>3, <3>1, <3>2, <3>3, <3>4, <3>5, <3>6, <3>7 DEF File
  <2>4. \A h \in Files : Early(h)' => Early(h)
    BY <2>1, <2>3, Fixed DEF Early, Before
  <2>5. \A h \in Files : pc'[h] = "converge" \/ h \in converged' => pc[h] = "converge" \/ h \in converged
    BY <2>1, <2>3
  <2>6. \A h \in Files : pc'[h] = "add" <=> pc[h] = "add"
    BY <2>1, <2>3
  <2> QED BY <2>1, <2>2, <2>4, <2>5, <2>6, ReposAside
<1>4. ASSUME Quiet, UNCHANGED <<updated, mu, at, added>>, NEW i \in 1..Kids(f), Skip(f, i)
      PROVE  Mutex' /\ Repositories' /\ (ListedApart /\ AddedOnce => AddedOnce')
  <2>1. UNCHANGED <<inputs, pc, result, converged>>
    BY <1>4 DEF Quiet, Skip
  <2>2. \A h \in Files : Early(h)' => Early(h)
    BY <2>1, Fixed DEF Early
  <2> QED BY <1>4, <2>1, <2>2, ReposAside
<1>5. ASSUME Quiet, UNCHANGED <<updated, mu, at, added>>, NEW i \in 1..Kids(f), Begin(f, i)
      PROVE  Mutex' /\ Repositories' /\ (ListedApart /\ AddedOnce => AddedOnce')
  <2>1. UNCHANGED <<inputs, result, converged>>
    BY <1>5 DEF Quiet
  <2>2. \A h \in Files : \/ pc'[h] = pc[h]
                         \/ pc[h] = "nested" /\ pc'[h] = "waiting"
                         \/ pc[h] = "none" /\ pc'[h] = "start"
    BY <1>1, <1>5, Beginnings
  <2>3. \A h \in Files : Early(h)' => Early(h)
    BY <2>1, <2>2, Fixed DEF Early, Before
  <2>4. \A h \in Files : /\ pc'[h] = "add" <=> pc[h] = "add"
                         /\ pc'[h] = "converge" <=> pc[h] = "converge"
    BY <2>2
  <2> QED BY <1>5, <2>1, <2>3, <2>4, ReposAside
<1>6. ASSUME UNCHANGED <<updated, mu, at, added>>, NEW i \in 1..Kids(f), Back(f, i)
      PROVE  Mutex' /\ Repositories' /\ (ListedApart /\ AddedOnce => AddedOnce')
  <2>1. /\ pc[f] = "waiting" /\ pc'[f] \in {"nested", "leave"}
        /\ result'[f] = result[f] \/ result'[f] = "error"
        /\ \A h \in Files : h # f => pc'[h] = pc[h] /\ result'[h] = result[h]
        /\ UNCHANGED <<inputs, converged>>
    BY <1>1, <1>6, Backs
  <2>2. \A h \in Files : Early(h)' => Early(h)
    BY <2>1, Fixed DEF Early, Before
  <2>3. \A h \in Files : /\ pc'[h] = "add" <=> pc[h] = "add"
                         /\ pc'[h] = "converge" <=> pc[h] = "converge"
                         /\ result[h] = "error" => result'[h] = "error"
    BY <2>1
  <2> QED BY <1>6, <2>1, <2>2, <2>3, ReposAside
<1>7. CASE Nested(f) /\ kid[f] < Kids(f)
  <2>1. UNCHANGED <<updated, mu, at, added>>
    BY <1>7 DEF Nested, shared, repoVars
  <2> QED BY <1>1, <1>4, <1>5, <1>7, <2>1, NestedSteps
<1>8. CASE Return(f)
  <2>1. UNCHANGED <<updated, mu, at, added>>
    BY <1>8 DEF Return, shared, repoVars
  <2> QED BY <1>1, <1>6, <1>8, <2>1, NestedSteps
<1>9. CASE LockRepos(f) \/ AddRepo(f) \/ ReposAdded(f)
  BY <1>9, ReposLock, ReposAdd, ReposEnd
<1> QED BY <1>1, <1>3, <1>7, <1>8, <1>9, Turns DEF File

LEMMA ReposTop ==
    ASSUME VInv, RInv, Launch \/ Finish
    PROVE  Mutex' /\ Repositories' /\ (AddedOnce => AddedOnce')
<1>1. UNCHANGED <<inputs, updated, mu, at, added, result, converged>>
  BY DEF Launch, Finish, shared, repoVars, history
<1>2. \A h \in Files : pc'[h] = pc[h] \/ (pc[h] = "none" /\ pc'[h] = "start")
  <2>1. CASE Launch
    BY <2>1, Launches DEF VInv
  <2>2. CASE Finish
    BY <2>2 DEF Finish
  <2> QED BY <2>1, <2>2
<1>3. \A h \in Files : Early(h)' => Early(h)
  BY <1>1, <1>2, Fixed DEF Early, Before
<1>4. \A h \in Files : /\ pc'[h] = "add" <=> pc[h] = "add"
                       /\ pc'[h] = "converge" <=> pc[h] = "converge"
  BY <1>2
<1> QED BY <1>1, <1>3, <1>4, ReposAside

LEMMA RInit == Init => RInv /\ AddedOnce
<1> SUFFICES ASSUME Init
             PROVE  RInv /\ AddedOnce
  OBVIOUS
<1>1. TypeOK
  BY InitTypes
<1>2. /\ updated = {} /\ mu = None /\ converged = {}
      /\ \A f \in Files : at[f] = 1 /\ pc[f] \in {"none", "start"}
      /\ \A r \in Repos : added[r] = 0
  BY DEF Init
<1>3. Mutex /\ Repositories
  BY <1>2, Nones DEF Mutex, Repositories, Stocked
<1>4. AddedOnce
  BY <1>2 DEF AddedOnce
<1> QED BY <1>1, <1>3, <1>4 DEF RInv

LEMMA RNext ==
    ASSUME VInv, RInv, [Next]_vars
    PROVE  RInv' /\ (ListedApart /\ AddedOnce => AddedOnce')
<1>1. TypeOK' /\ TypeOK /\ Results /\ Tops
  BY VNext DEF VInv
<1>2. CASE \E f \in Files : File(f)
  BY <1>1, <1>2, ReposFile DEF RInv
<1>3. CASE Gather \/ NextFile
  BY <1>1, <1>3, TopMoves, ReposTop DEF RInv
<1>4. CASE UNCHANGED vars
  <2>1. UNCHANGED <<inputs, pc, result, updated, mu, at, added, converged>>
    BY <1>4 DEF vars, shared, repoVars, history
  <2>2. \A h \in Files : Early(h)' = Early(h)
    BY <2>1, Fixed DEF Early
  <2> QED BY <1>1, <2>1, <2>2, ReposAside DEF RInv
<1> QED BY <1>2, <1>3, <1>4 DEF Next, Done

\* The files and what they list stay what they are.
LEMMA InputsKept == [Next]_vars => UNCHANGED inputs
<1> SUFFICES ASSUME [Next]_vars
             PROVE  UNCHANGED inputs
  OBVIOUS
<1>1. ASSUME NEW f \in Files, File(f)
      PROVE  UNCHANGED inputs
  BY <1>1 DEF File, Start, Chdir, Load, Nested, Return, LockRepos, AddRepo, ReposAdded, Converge, Leave,
              Send, addUnchanged
<1> QED BY <1>1 DEF Next, Gather, NextFile, Done, vars

LEMMA ListedBack == ListedApart' /\ [Next]_vars => ListedApart
BY InputsKept, Fixed DEF ListedApart

\* For any files and repositories and in every order of the goroutines, whatever is tried again
\* or fails: a file is converged on when the repositories it wants are added, and none is added
\* twice by the files of one command, unless adding one failed or a file lists it twice.
THEOREM ReposOnce == Spec => [](ListedApart => EveryRepoOnce)
<1> DEFINE I == VInv /\ RInv /\ (ListedApart => AddedOnce)
<1>1. Init => I
  BY VInit, RInit
<1>2. I /\ [Next]_vars => I'
  <2> SUFFICES ASSUME I, [Next]_vars
               PROVE  I'
    OBVIOUS
  <2>1. VInv'
    BY VNext
  <2>2. RInv' /\ (ListedApart /\ AddedOnce => AddedOnce')
    BY RNext
  <2>3. ListedApart' => ListedApart
    BY ListedBack
  <2> QED BY <2>1, <2>2, <2>3
<1>3. I => (ListedApart => EveryRepoOnce)
  BY DEF RInv, Repositories, Stocked, AddedOnce, EveryRepoOnce, TypeOK
<1> QED BY <1>1, <1>2, <1>3, PTL DEF Spec

----------------------------------------------------------------------------
(* The working directory.                                                   *)

LEMMA FromFixed ==
    ASSUME UNCHANGED inputs
    PROVE  \A f : From(f)' = From(f)
<1>1. \A f : Hosts(f)' = Hosts(f)
  BY Fixed DEF Hosts
<1> QED BY <1>1 DEF From

\* A sub-helmfile starts from its parent's directory, if that works in it.
LEMMA Froms ==
    ASSUME TypeOK
    PROVE  /\ \A f \in Files : \A i \in 1..Kids(f) :
                 /\ ParentOf(Kid(f, i)) = f
                 /\ From(Kid(f, i)) = IF Based(f) THEN Root ELSE DirOf[f]
           /\ \A k \in Files : (\A f \in Files : \A i \in 1..Kids(f) : Kid(f, i) # k) => From(k) = Root
           /\ \A k \in Files : From(k) \in Dirs /\ From(k) # None
<1>1. ASSUME NEW f \in Files, NEW i \in 1..Kids(f)
      PROVE  ParentOf(Kid(f, i)) = f
  <2>1. tree \in Trees /\ reverse \in BOOLEAN
    BY DEF TypeOK
  <2>2. tree.nested \in [Files -> Seq(Files)]
    BY <2>1, VisitStatesAssumption
  <2>3. \A h \in Files : Kids(h) \in Nat /\ DOMAIN tree.nested[h] = 1..Kids(h)
    BY <2>2 DEF Kids
  <2>4. PICK j \in 1..Kids(f) : Kid(f, i) = tree.nested[f][j]
    BY <2>1, <2>3 DEF Kid
  <2>5. PICK p \in Files : /\ p = ParentOf(Kid(f, i))
                           /\ \E l \in 1..Kids(p) : tree.nested[p][l] = Kid(f, i)
    BY <2>4 DEF ParentOf
  <2> QED BY <2>1, <2>3, <2>4, <2>5, ListedOnce
<1>2. ASSUME NEW f \in Files, NEW i \in 1..Kids(f)
      PROVE  From(Kid(f, i)) = IF Based(f) THEN Root ELSE DirOf[f]
  <2>1. \A p \in Files : \A j \in 1..Kids(p) : Kid(p, j) = Kid(f, i) => p = f
    BY Shape
  <2>2. Hosts(Kid(f, i)) = IF Based(f) THEN {} ELSE {f}
    BY <2>1 DEF Hosts
  <2>3. Some({f}) = f
    BY DEF Some
  <2> QED BY <2>2, <2>3 DEF From
<1>3. ASSUME NEW k \in Files, \A f \in Files : \A i \in 1..Kids(f) : Kid(f, i) # k
      PROVE  From(k) = Root
  BY <1>3 DEF From, Hosts
<1>4. ASSUME NEW k \in Files
      PROVE  From(k) \in Dirs /\ From(k) # None
  <2>1. Root \in Dirs /\ \A f \in Files : DirOf[f] \in Dirs
    BY DEF Dirs
  <2>2. From(k) \in Dirs
    BY <1>2, <1>3, <2>1
  <2> QED BY <2>2, Nones
<1> QED BY <1>1, <1>2, <1>3, <1>4

LEMMA FocusSame ==
    ASSUME NEW h \in Files, UNCHANGED inputs, pc'[h] = pc[h], kid'[h] = kid[h],
           \A i \in 1..Kids(h) : pc'[Kid(h, i)] = "done" <=> pc[Kid(h, i)] = "done"
    PROVE  Focus(h)' <=> Focus(h)
BY Fixed DEF Focus

LEMMA PlacedSame ==
    ASSUME NEW h \in Files, Placed(h), UNCHANGED inputs, pc'[h] = pc[h], prev'[h] = prev[h],
           (cwd' = cwd /\ (Focus(h)' <=> Focus(h))) \/ ~(Focus(h)')
    PROVE  Placed(h)'
<1>1. CASE cwd' = cwd /\ (Focus(h)' <=> Focus(h))
  BY <1>1, Fixed, FromFixed DEF Placed
<1>2. CASE ~(Focus(h)')
  <2>1. Based(h) \/ pc[h] \notin {"start", "chdir"}
    BY <1>2, Fixed DEF Focus
  <2> QED BY <1>2, <2>1, Fixed, FromFixed DEF Placed
<1> QED BY <1>1, <1>2

\* Only one file below the top files works at a time.
LEMMA OneBelow ==
    ASSUME VInv, Alone, NEW f \in Files, Based(f), pc[f] = "nested", Kids(f) > 0
    PROVE  \A h \in Files : ~Focus(h)
<1> SUFFICES ASSUME NEW h \in Files, Focus(h)
             PROVE  FALSE
  OBVIOUS
<1>1. TypeOK /\ Places /\ Reached /\ Stages /\ Tops
  BY DEF VInv
<1>2. ~IsTop(h) /\ pc[h] \notin {"none", "done"}
  BY DEF Focus, Based
<1> DEFINE S == {g \in Files : g = h \/ pc[g] = "waiting"}
<1>3. \A p \in Files : \A i \in 1..Kids(p) : Kid(p, i) \in S => p \in S
  BY <1>1, <1>2, ParentWaits
<1>4. PICK i \in 1..N : Top(i) \in S
  BY <1>1, <1>2, <1>3, Upward
<1>5. Top(i) \in Files /\ IsTop(Top(i))
  BY <1>1, Shape
<1>6. pc[Top(i)] = "waiting" /\ Top(i) # f
  BY <1>2, <1>4, <1>5
<1>7. PICK j \in 1..N : Top(j) = f
  BY <1>1, Shape DEF Based
<1>8. kid[Top(i)] \in 0..Kids(Top(i)) /\ kid[Top(i)] > 0 /\ Kids(Top(i)) \in Nat
  BY <1>1, <1>5, <1>6, Shape DEF TypeOK, Stages, Stage
<1>9. CASE Parallel
  BY <1>6, <1>7, <1>8, <1>9 DEF Alone
<1>10. CASE ~Parallel
  <2>1. i = current /\ j = current
    <3>1. i \in Nat /\ j \in Nat /\ current \in Nat
      BY <1>1, Shape DEF TypeOK
    <3> QED BY <1>1, <1>6, <1>7, <1>10, <3>1 DEF Tops
  <2> QED BY <1>6, <1>7, <2>1
<1> QED BY <1>9, <1>10

\* A file that works on where it is.
LEMMA DirsWork ==
    ASSUME TypeOK, Directories, NEW f \in Files, Turn(f), UNCHANGED <<cwd, prev>>,
           pc[f] \notin {"start", "chdir", "send"}, pc'[f] \notin {"start", "chdir", "done"}
    PROVE  Directories'
<1>1. UNCHANGED <<inputs, kid>> /\ \A h \in Files : h # f => pc'[h] = pc[h]
  BY DEF Turn
<1>2. \A h \in Files : pc'[h] = "done" <=> pc[h] = "done"
  BY <1>1 DEF Turn
<1>3. \A h \in Files : Focus(h)' <=> Focus(h)
  <2>1. \A h \in Files : h # f => (Focus(h)' <=> Focus(h))
    BY <1>1, <1>2, FocusSame, Shape
  <2>2. Focus(f)' <=> Focus(f)
    BY <1>1, Fixed DEF Focus, Turn
  <2> QED BY <2>1, <2>2
<1>4. \A h \in Files : h # f => Placed(h)'
  BY <1>1, <1>3, PlacedSame DEF Directories
<1>5. Placed(f)'
  <2>1. Placed(f)
    BY DEF Directories
  <2> QED BY <1>1, <1>3, <2>1, Fixed, FromFixed DEF Placed, Turn
<1> QED BY <1>3, <1>4, <1>5 DEF Directories

LEMMA DirsStart ==
    ASSUME TypeOK, Reached, Directories, NEW f \in Files, Start(f), Turn(f)
    PROVE  Directories'
<1>1. UNCHANGED <<inputs, kid, cwd>> /\ \A h \in Files : h # f => pc'[h] = pc[h]
  BY DEF Turn, Start, shared
<1>2. pc[f] = "start" /\ Placed(f) /\ cwd \in Dirs /\ cwd # None /\ DirOf[f] # None
  BY Nones DEF Start, Directories, TypeOK, Dirs
<1>3. IsTop(f) \/ Based(ParentOf(f)) \/ cwd = DirOf[ParentOf(f)]
  <2>1. CASE \E p \in Files : \E i \in 1..Kids(p) : Kid(p, i) = f
    <3>1. PICK p \in Files : \E i \in 1..Kids(p) : Kid(p, i) = f
      BY <2>1
    <3>2. ParentOf(f) = p /\ ~IsTop(f) /\ From(f) = IF Based(p) THEN Root ELSE DirOf[p]
      BY <3>1, Froms, Shape
    <3> QED BY <1>2, <3>2 DEF Placed, Based
  <2>2. CASE ~\E p \in Files : \E i \in 1..Kids(p) : Kid(p, i) = f
    <3> DEFINE S == {f}
    <3>1. \A p \in Files : \A i \in 1..Kids(p) : Kid(p, i) \in S => p \in S
      BY <2>2
    <3>2. \E i \in 1..N : Top(i) \in S
      BY <1>2, <3>1, Upward
    <3> QED BY <3>2, Shape
  <2> QED BY <2>1, <2>2
<1>4. /\ prev' = [prev EXCEPT ![f] = IF Based(f) \/ cwd = DirOf[f] THEN None ELSE cwd]
      /\ Go(f, IF prev'[f] = None THEN "load" ELSE "chdir")
  BY <1>3 DEF Start
<1>5. /\ prev'[f] = IF Based(f) \/ cwd = DirOf[f] THEN None ELSE cwd
      /\ \A h \in Files : h # f => prev'[h] = prev[h]
      /\ pc'[f] = IF prev'[f] = None THEN "load" ELSE "chdir"
  BY <1>4 DEF TypeOK, Go
<1>6. \A h \in Files : Focus(h)' <=> Focus(h)
  <2>1. \A h \in Files : pc'[h] = "done" <=> pc[h] = "done"
    BY <1>1, <1>2, <1>5
  <2>2. \A h \in Files : h # f => (Focus(h)' <=> Focus(h))
    BY <1>1, <2>1, FocusSame, Shape
  <2>3. Focus(f)' <=> Focus(f)
    BY <1>1, <1>2, <1>5, Fixed DEF Focus
  <2> QED BY <2>2, <2>3
<1>7. \A h \in Files : h # f => Placed(h)'
  BY <1>1, <1>5, <1>6, PlacedSame DEF Directories
<1>8. Placed(f)'
  BY <1>1, <1>2, <1>5, Fixed, FromFixed DEF Placed
<1> QED BY <1>1, <1>6, <1>7, <1>8 DEF Directories

LEMMA DirsChdir ==
    ASSUME TypeOK, Directories, NEW f \in Files, Chdir(f), Turn(f)
    PROVE  Directories'
<1>1. /\ UNCHANGED <<inputs, kid, prev>> /\ \A h \in Files : h # f => pc'[h] = pc[h]
      /\ pc[f] = "chdir" /\ pc'[f] = "load" /\ cwd' = DirOf[f]
  BY DEF Turn, Chdir, Go, TypeOK
<1>2. Placed(f) /\ Focus(f) /\ ~Based(f)
  BY <1>1 DEF Directories, Placed, Focus
<1>3. \A h \in Files : h # f => ~(Focus(h)')
  <2>1. \A h \in Files : pc'[h] = "done" <=> pc[h] = "done"
    BY <1>1
  <2>2. \A h \in Files : h # f => (Focus(h)' <=> Focus(h))
    BY <1>1, <2>1, FocusSame, Shape
  <2> QED BY <1>2, <2>2 DEF Directories
<1>4. Focus(f)'
  BY <1>1, <1>2, Fixed DEF Focus
<1>5. \A h \in Files : h # f => Placed(h)'
  BY <1>1, <1>3, PlacedSame DEF Directories
<1>6. Placed(f)'
  BY <1>1, <1>2, Fixed, FromFixed DEF Placed
<1> QED BY <1>3, <1>4, <1>5, <1>6 DEF Directories

\* Leaving a file goes back to where it was entered from, and its parent finds itself there.
LEMMA DirsLeave ==
    ASSUME VInv, Directories, NEW f \in Files, Leave(f), Turn(f)
    PROVE  Directories'
<1>1. TypeOK /\ Places /\ Directories
  BY DEF VInv
<1>2. /\ UNCHANGED <<inputs, kid, prev>> /\ \A h \in Files : h # f => pc'[h] = pc[h]
      /\ pc[f] = "leave" /\ pc'[f] = IF Parallel /\ IsTop(f) THEN "send" ELSE "done"
      /\ cwd' = IF prev[f] = None THEN cwd ELSE prev[f]
  BY <1>1 DEF Turn, Leave, Go, TypeOK
<1>3. \A h \in Files : ~Based(h) => ~(h = f /\ pc'[h] = "send")
  BY <1>2 DEF Parallel, Based
<1>4. ASSUME NEW h \in Files, h # f, NEW i \in 1..Kids(h), Kid(h, i) = f
      PROVE  pc[h] = "waiting" /\ i = kid[h]
  BY <1>1, <1>2, <1>4, ParentWaits
<1>5. CASE Based(f)
  <2>1. cwd' = cwd
    BY <1>1, <1>2, <1>5 DEF Directories, Placed
  <2>2. \A h \in Files : \A i \in 1..Kids(h) : pc'[Kid(h, i)] = "done" <=> pc[Kid(h, i)] = "done"
    BY <1>1, <1>2, <1>5, Shape DEF Based
  <2>3. \A h \in Files : h # f => (Focus(h)' <=> Focus(h))
    BY <1>2, <2>2, FocusSame
  <2>4. ~Focus(f) /\ ~(Focus(f)')
    BY <1>2, <1>5, Fixed DEF Focus
  <2>5. \A h \in Files : h # f => Placed(h)'
    BY <1>1, <1>2, <2>1, <2>3, PlacedSame DEF Directories
  <2>6. Placed(f)'
    BY <1>1, <1>2, <1>5, Fixed DEF Directories, Placed
  <2> QED BY <1>1, <2>1, <2>3, <2>4, <2>5, <2>6 DEF Directories
<1>6. CASE ~Based(f)
  <2>1. Focus(f) /\ Placed(f) /\ cwd = DirOf[f] /\ pc'[f] = "done"
    BY <1>1, <1>2, <1>3, <1>6 DEF Directories, Placed, Focus
  <2>2. cwd' = From(f)
    BY <1>1, <1>2, <1>6, <2>1, Froms DEF Placed
  <2>3. ~(Focus(f)')
    BY <2>1, Fixed DEF Focus
  <2>4. \A h \in Files : h # f => ~Focus(h)
    BY <1>1, <2>1 DEF Directories
  <2>5. ASSUME NEW h \in Files, h # f, \A i \in 1..Kids(h) : Kid(h, i) # f
        PROVE  ~(Focus(h)')
    <3>1. \A i \in 1..Kids(h) : pc'[Kid(h, i)] = "done" <=> pc[Kid(h, i)] = "done"
      BY <1>1, <1>2, <2>5, Shape
    <3> QED BY <1>2, <2>4, <2>5, <3>1, FocusSame
  <2>6. Placed(f)'
    BY <1>2, <1>6, <2>1, <2>3, Fixed, FromFixed DEF Placed
  <2>7. CASE \E p \in Files : ~Based(p) /\ p # f /\ \E i \in 1..Kids(p) : Kid(p, i) = f
    <3>8. PICK p \in Files : ~Based(p) /\ p # f /\ \E i \in 1..Kids(p) : Kid(p, i) = f
      BY <2>7
    <3>9. PICK i \in 1..Kids(p) : Kid(p, i) = f
      BY <3>8
    <3>1. ~Based(p) /\ p # f /\ Kid(p, i) = f
      BY <3>8, <3>9
    <3>2. pc[p] = "waiting" /\ i = kid[p]
      BY <1>4, <3>1
    <3>3. cwd' = DirOf[p]
      BY <1>1, <2>2, <3>1, Froms
    <3>4. Focus(p)'
      BY <1>2, <2>1, <3>1, <3>2, Fixed DEF Focus
    <3>5. \A h \in Files : h # p => ~(Focus(h)')
      <4>1. \A h \in Files : \A j \in 1..Kids(h) : Kid(h, j) = f => h = p
        BY <1>1, <3>1, Shape
      <4> QED BY <2>3, <2>5, <4>1
    <3>6. Placed(p)'
      <4>1. Placed(p) /\ pc'[p] = "waiting"
        BY <1>1, <1>2, <3>1, <3>2 DEF Directories
      <4> QED BY <1>2, <3>1, <3>2, <3>3, <4>1, Fixed, FromFixed DEF Placed
    <3>7. \A h \in Files : h # f /\ h # p => Placed(h)'
      BY <1>1, <1>2, <3>5, PlacedSame DEF Directories
    <3> QED BY <2>6, <3>4, <3>5, <3>6, <3>7 DEF Directories
  <2>8. CASE ~\E p \in Files : ~Based(p) /\ p # f /\ \E i \in 1..Kids(p) : Kid(p, i) = f
    <3>1. \A h \in Files : ~(Focus(h)')
      <4>1. \A h \in Files : Based(h) => ~(Focus(h)')
        BY <1>2, Fixed DEF Focus
      <4> QED BY <2>3, <2>5, <2>8, <4>1
    <3>2. \A p \in Files : \A i \in 1..Kids(p) : Kid(p, i) = f => p # f
      BY <1>1, <1>2, ParentWaits
    <3>3. Hosts(f) = {}
      BY <2>8, <3>2 DEF Hosts
    <3>4. cwd' = Root
      BY <2>2, <3>3 DEF From
    <3>5. \A h \in Files : h # f => Placed(h)'
      BY <1>1, <1>2, <3>1, PlacedSame DEF Directories
    <3> QED BY <2>6, <3>1, <3>4, <3>5 DEF Directories
  <2> QED BY <2>7, <2>8
<1> QED BY <1>5, <1>6

\* The goroutine of a file of the directory has its own base directory.
LEMMA DirsSend ==
    ASSUME VInv, Directories, NEW f \in Files, Send(f)
    PROVE  Directories'
<1>1. TypeOK /\ Results
  BY DEF VInv
<1>2. /\ UNCHANGED <<inputs, kid, prev, cwd>> /\ \A h \in Files : h # f => pc'[h] = pc[h]
      /\ pc[f] = "send" /\ pc'[f] = "done" /\ IsTop(f) /\ Based(f)
  BY <1>1 DEF Send, Go, TypeOK, Results, Parallel, Based, shared
<1>3. \A h \in Files : \A i \in 1..Kids(h) : pc'[Kid(h, i)] = "done" <=> pc[Kid(h, i)] = "done"
  BY <1>1, <1>2, Shape
<1>4. \A h \in Files : h # f => (Focus(h)' <=> Focus(h))
  BY <1>2, <1>3, FocusSame
<1>5. ~Focus(f) /\ ~(Focus(f)')
  BY <1>2, Fixed DEF Focus
<1>6. \A h \in Files : h # f => Placed(h)'
  BY <1>2, <1>4, PlacedSame DEF Directories
<1>7. Placed(f)'
  BY <1>2, Fixed DEF Directories, Placed
<1> QED BY <1>2, <1>4, <1>5, <1>6, <1>7 DEF Directories

LEMMA DirsSkip ==
    ASSUME TypeOK, Directories, Quiet, UNCHANGED <<cwd, prev>>, NEW f \in Files, NEW i \in 1..Kids(f), Skip(f, i)
    PROVE  Directories'
<1>1. UNCHANGED <<inputs, pc>> /\ pc[f] = "nested" /\ \A h \in Files : h # f => kid'[h] = kid[h]
  BY DEF Quiet, Skip, TypeOK
<1>2. \A h \in Files : Focus(h)' <=> Focus(h)
  <2>1. \A h \in Files : h # f => (Focus(h)' <=> Focus(h))
    BY <1>1, FocusSame
  <2>2. Focus(f)' <=> Focus(f)
    BY <1>1, Fixed DEF Focus
  <2> QED BY <2>1, <2>2
<1>3. \A h \in Files : Placed(h)'
  BY <1>1, <1>2, PlacedSame DEF Directories
<1> QED BY <1>2, <1>3 DEF Directories

\* A sub-helmfile works in the directory of its parent, or where helmfile was started if the
\* parent has its own base directory; nobody else does.
LEMMA DirsBegin ==
    ASSUME VInv, Alone, Directories, Quiet, UNCHANGED <<cwd, prev>>,
           NEW f \in Files, NEW i \in 1..Kids(f), Begin(f, i)
    PROVE  Directories'
<1>1. TypeOK
  BY DEF VInv
<1>2. PICK k \in Files :
         /\ k = Kid(f, i) /\ ~IsTop(k) /\ k # f
         /\ pc[f] = "nested" /\ pc[k] = "none" /\ pc'[f] = "waiting" /\ pc'[k] = "start"
         /\ \A h \in Files \ {f, k} : pc'[h] = pc[h]
         /\ kid'[f] = i /\ i = kid[f] + 1 /\ \A h \in Files \ {f} : kid'[h] = kid[h]
  BY <1>1, Beginnings
<1>3. UNCHANGED inputs /\ ~Based(k)
  BY <1>2 DEF Quiet, Based
<1>4. \A h \in Files : pc'[h] = "done" <=> pc[h] = "done"
  BY <1>2
<1>5. \A h \in Files \ {f, k} : Focus(h)' <=> Focus(h)
  BY <1>1, <1>2, <1>3, <1>4, FocusSame, Shape
<1>6. ~Focus(k) /\ Focus(k)'
  BY <1>2, <1>3, Fixed DEF Focus
<1>7. ~(Focus(f)')
  BY <1>2, <1>3, Fixed DEF Focus
<1>8. From(k) = IF Based(f) THEN Root ELSE DirOf[f]
  BY <1>1, <1>2, Froms
<1>9. /\ \A h \in Files : Focus(h) => h = f
      /\ cwd = From(k)
  <2>1. CASE Based(f)
    <3>1. Kids(f) > 0
      BY <1>1, Shape
    <3>2. \A h \in Files : ~Focus(h)
      BY <1>2, <2>1, <3>1, OneBelow
    <3> QED BY <1>8, <2>1, <3>2 DEF Directories
  <2>2. CASE ~Based(f)
    <3>1. Focus(f)
      BY <1>2, <2>2 DEF Focus
    <3>2. cwd = DirOf[f]
      BY <1>2, <2>2, <3>1 DEF Directories, Placed
    <3> QED BY <1>8, <2>2, <3>1, <3>2 DEF Directories
  <2> QED BY <2>1, <2>2
<1>10. \A h \in Files : h # k => ~(Focus(h)')
  BY <1>5, <1>7, <1>9
<1>11. \A h \in Files \ {f, k} : Placed(h)'
  BY <1>2, <1>3, <1>10, PlacedSame DEF Directories
<1>12. Placed(f)'
  <2>1. Placed(f)
    BY DEF Directories
  <2> QED BY <1>2, <1>3, <1>7, <2>1, Fixed, FromFixed DEF Placed
<1>13. Placed(k)'
  BY <1>2, <1>3, <1>9, Fixed, FromFixed DEF Placed
<1> QED BY <1>6, <1>10, <1>11, <1>12, <1>13 DEF Directories

\* A parent whose sub-helmfile is done was at work in its directory already.
LEMMA DirsBack ==
    ASSUME TypeOK, Directories, UNCHANGED <<cwd, prev>>, NEW f \in Files, NEW i \in 1..Kids(f), Back(f, i)
    PROVE  Directories'
<1>1. /\ pc[f] = "waiting" /\ i = kid[f] /\ pc'[f] \in {"nested", "leave"}
      /\ \A h \in Files : h # f => pc'[h] = pc[h]
      /\ UNCHANGED <<inputs, kid>>
  BY Backs
<1>2. pc[Kid(f, i)] = "done"
  BY DEF Back
<1>3. \A h \in Files : pc'[h] = "done" <=> pc[h] = "done"
  BY <1>1
<1>4. \A h \in Files : Focus(h)' <=> Focus(h)
  <2>1. \A h \in Files : h # f => (Focus(h)' <=> Focus(h))
    BY <1>1, <1>3, FocusSame, Shape
  <2>2. Focus(f)' <=> Focus(f)
    BY <1>1, <1>2, Fixed DEF Focus
  <2> QED BY <2>1, <2>2
<1>5. \A h \in Files : h # f => Placed(h)'
  BY <1>1, <1>4, PlacedSame DEF Directories
<1>6. Placed(f)'
  <2>1. Placed(f)
    BY DEF Directories
  <2> QED BY <1>1, <1>4, <2>1, Fixed, FromFixed DEF Placed
<1> QED BY <1>4, <1>5, <1>6 DEF Directories

LEMMA DirsTop ==
    ASSUME VInv, Directories, Launch \/ Finish
    PROVE  Directories'
<1>1. TypeOK /\ Results /\ Tops
  BY DEF VInv
<1>2. CASE Launch
  <2>1. PICK t \in Files : /\ IsTop(t) /\ pc[t] = "none" /\ pc'[t] = "start"
                           /\ \A h \in Files : h # t => pc'[h] = pc[h]
    BY <1>1, <1>2, Launches
  <2>2. UNCHANGED <<inputs, kid, cwd, prev>>
    BY <1>2 DEF Launch, shared
  <2>3. Based(t)
    <3>1. N \in Nat /\ current \in 1..N /\ current < N
      BY <1>1, <1>2, Shape DEF TypeOK, Launch
    <3> QED BY <2>1, <3>1 DEF Based
  <2>4. \A h \in Files : pc'[h] = "done" <=> pc[h] = "done"
    BY <2>1
  <2>5. \A h \in Files : Focus(h)' <=> Focus(h)
    <3>1. \A h \in Files : h # t => (Focus(h)' <=> Focus(h))
      BY <1>1, <2>1, <2>2, <2>4, FocusSame, Shape
    <3>2. ~Focus(t) /\ ~(Focus(t)')
      BY <2>2, <2>3, Fixed DEF Focus
    <3> QED BY <3>1, <3>2
  <2>6. \A h \in Files : h # t => Placed(h)'
    BY <2>1, <2>2, <2>5, PlacedSame DEF Directories
  <2>7. Placed(t)'
    BY <2>1, <2>2, <2>3, Fixed DEF Directories, Placed
  <2> QED BY <2>2, <2>5, <2>6, <2>7 DEF Directories
<1>3. CASE Finish
  <2>1. UNCHANGED <<inputs, pc, kid, cwd, prev>>
    BY <1>3 DEF Finish, shared
  <2>2. \A h \in Files : Focus(h)' <=> Focus(h)
    BY <2>1, FocusSame
  <2> QED BY <2>1, <2>2, PlacedSame DEF Directories
<1> QED BY <1>2, <1>3

LEMMA DirsFile ==
    ASSUME VInv, Alone, Directories, NEW f \in Files, File(f)
    PROVE  Directories'
<1>1. TypeOK /\ Places /\ Reached /\ Results /\ Stages
  BY DEF VInv
<1>2. CASE ~(Nested(f) /\ kid[f] < Kids(f)) /\ ~Return(f)
  <2>1. Turn(f) /\ pc \in [Files -> Steps]
    BY <1>1, <1>2, Turns DEF File, TypeOK
  <2>2. CASE Start(f) \/ Chdir(f) \/ Leave(f) \/ Send(f)
    BY <1>1, <2>1, <2>2, DirsStart, DirsChdir, DirsLeave, DirsSend
  <2>3. CASE Load(f) \/ Nested(f) \/ LockRepos(f) \/ AddRepo(f) \/ ReposAdded(f) \/ Converge(f)
    <3>1. UNCHANGED <<cwd, prev>>
      BY <2>3 DEF Load, Nested, LockRepos, AddRepo, ReposAdded, Converge, addUnchanged, shared
    <3>2. pc[f] \in {"load", "nested", "repos", "add", "converge"}
      BY <2>3 DEF Load, Nested, LockRepos, AddRepo, ReposAdded, Converge
    <3>3. pc'[f] \notin {"start", "chdir", "done"}
      <4>1. CASE Load(f)
        BY <2>1, <4>1 DEF Load, Go, Fail
      <4>2. CASE Nested(f)
        BY <1>2, <2>1, <4>2 DEF Nested, Go
      <4>3. CASE LockRepos(f) \/ ReposAdded(f)
        BY <2>1, <4>3 DEF LockRepos, ReposAdded, Go
      <4>4. CASE AddRepo(f)
        BY <2>1, <3>2, <4>4 DEF AddRepo, Retry, Fail, Go
      <4>5. CASE Converge(f)
        BY <2>1, <4>5 DEF Converge, Fail, Go
      <4> QED BY <2>3, <4>1, <4>2, <4>3, <4>4, <4>5
    <3> QED BY <1>1, <2>1, <3>1, <3>2, <3>3, DirsWork
  <2> QED BY <1>2, <2>2, <2>3 DEF File
<1>3. CASE Nested(f) /\ kid[f] < Kids(f)
  <2>1. UNCHANGED <<cwd, prev>>
    BY <1>3 DEF Nested, shared
  <2> QED BY <1>1, <1>3, <2>1, NestedSteps, DirsSkip, DirsBegin
<1>4. CASE Return(f)
  <2>1. UNCHANGED <<cwd, prev>>
    BY <1>4 DEF Return, shared
  <2> QED BY <1>1, <1>4, <2>1, NestedSteps, DirsBack
<1> QED BY <1>2, <1>3, <1>4

LEMMA DirsInit == Init => Directories
<1> SUFFICES ASSUME Init
             PROVE  Directories
  OBVIOUS
<1>1. TypeOK
  BY InitTypes
<1>2. /\ cwd = Root
      /\ \A f \in Files : /\ prev[f] = None /\ pc[f] \in {"none", "start"}
                          /\ pc[f] = "start" <=> IsTop(f) /\ (Parallel \/ f = Top(1))
  BY DEF Init
<1>3. \A f \in Files : Focus(f) => f = Top(1)
  BY <1>1, <1>2, Shape DEF Focus, Based, Parallel
<1>4. \A f \in Files : pc[f] = "start" => From(f) = Root
  BY <1>1, <1>2, Shape, Froms
<1>5. \A f \in Files : Placed(f)
  BY <1>2, <1>4 DEF Placed, Focus
<1> QED BY <1>2, <1>3, <1>5 DEF Directories

\* In every order, as long as the sub-helmfiles visited in parallel are all below one file: a
\* file loaded from the working directory works in its own directory, and helmfile ends where it
\* started, whatever fails.
THEOREM WithinDirectory == Spec => [](Alone => OwnDirectory)
<1> DEFINE I == VInv /\ DInv
<1>1. Init => I
  BY VInit, DirsInit DEF DInv
<1>2. I /\ [Next]_vars => I'
  <2> SUFFICES ASSUME VInv, DInv, [Next]_vars
               PROVE  DInv'
    BY VNext
  <2>1. TypeOK /\ Results /\ Tops
    BY DEF VInv
  <2>2. UNCHANGED inputs
    BY InputsKept
  <2>3. UNCHANGED tree /\ (Alone' => Alone)
    BY <2>2, Fixed DEF Alone
  <2>4. CASE \E f \in Files : File(f)
    BY <2>3, <2>4, DirsFile DEF DInv
  <2>5. CASE Gather \/ NextFile
    BY <2>1, <2>3, <2>5, TopMoves, DirsTop DEF DInv
  <2>6. CASE UNCHANGED vars
    <3>1. UNCHANGED <<inputs, pc, kid, cwd, prev>>
      BY <2>6 DEF vars, shared
    <3>2. \A h \in Files : Focus(h)' <=> Focus(h)
      BY <3>1, FocusSame
    <3> QED BY <2>3, <3>1, <3>2, PlacedSame DEF DInv, Directories
  <2> QED BY <2>4, <2>5, <2>6 DEF Next, Done
<1>3. I => (Alone => OwnDirectory)
  <2> SUFFICES ASSUME VInv, Directories
               PROVE  OwnDirectory
    BY DEF DInv
  <2>1. ASSUME NEW f \in Files, pc[f] \in {"load", "nested", "repos", "add", "converge"}, ~Based(f)
        PROVE  cwd = DirOf[f]
    BY <2>1 DEF Directories, Placed, Focus
  <2>2. main # None => cwd = Root
    <3>1. main # None => \A f \in Files : ~Focus(f)
      BY AllIdle DEF Focus
    <3> QED BY <3>1 DEF Directories
  <2> QED BY <2>1, <2>2 DEF OwnDirectory
<1> QED BY <1>1, <1>2, <1>3, PTL DEF Spec
=============================================================================
