--------------------------- MODULE MCVisitStates ---------------------------
(* Instances of VisitStates for TLC: one state file with two levels of      *)
(* sub-helmfiles, a helmfile.d of three files, and one of two files whose   *)
(* first has two sub-helmfiles, under selectors that match, exclude or      *)
(* conflict, with conditions that hold, do not, or cannot be evaluated.     *)
EXTENDS VisitStates, TLC

CONSTANTS fileA, fileB, fileC, fileD, dirA, dirB, dirC, dirD, stable, incubator, registry

Four == {fileA, fileB, fileC, fileD}
Dirs == fileA :> dirA @@ fileB :> dirB @@ fileC :> dirC @@ fileD :> dirD
RepoNames == {stable, incubator, registry}

Front == [positive |-> {<<"tier", "front">>}, negative |-> {}]
Back == [positive |-> {<<"tier", "back">>}, negative |-> {}]
NotFront == [positive |-> {}, negative |-> {<<"tier", "front">>}]
Api == [positive |-> {<<"name", "api">>}, negative |-> {}]
WebInFront == [positive |-> {<<"tier", "front">>, <<"name", "web">>}, negative |-> {}]

Release(name, tier, condition) == [name |-> name, labels |-> tier, condition |-> condition]
Always == [form |-> "none", field |-> ""]
If(field) == [form |-> "field", field |-> field]

Base == [nested |-> [f \in Four |-> <<>>],
         repos |-> fileA :> <<stable>> @@ fileB :> <<stable, registry>> @@ fileC :> <<>>
                   @@ fileD :> <<incubator, registry>>,
         logins |-> {registry}, offline |-> {},
         releases |-> fileA :> {Release("db", [tier |-> "back"], Always)}
                      @@ fileB :> {Release("web", [tier |-> "front"], Always)}
                      @@ fileC :> {Release("api", <<>>, Always),
                                   Release("job", [tier |-> "back"], If("jobs"))}
                      @@ fileD :> {Release("web", <<>>, Always)},
         common |-> fileA :> <<>> @@ fileB :> <<>> @@ fileC :> [tier |-> "front"] @@ fileD :> <<>>,
         values |-> [f \in Four |-> [jobs |-> "off"]],
         cli |-> {}, explicit |-> FALSE,
         selectors |-> [f \in Four |-> [given |-> FALSE, filters |-> {}, inherited |-> FALSE]]]

Tree(files, subs) == [Base EXCEPT !.nested = subs @@ @] @@ [top |-> files]
Deep == Tree(<<fileA>>, fileA :> <<fileB, fileC>> @@ fileC :> <<fileD>>)
Wide == Tree(<<fileA, fileB, fileC>>, <<>>)
Mixed == Tree(<<fileA, fileB>>, fileA :> <<fileC, fileD>>)

Only(t, selectors) == [t EXCEPT !.cli = selectors]
Own(t, file, selectors) ==
    [t EXCEPT !.selectors[file] = [given |-> TRUE, filters |-> selectors, inherited |-> FALSE]]
Inheriting(t, file) == [t EXCEPT !.selectors[file].inherited = TRUE]

SingleTrees ==
    {Deep, Wide, Mixed, Only(Deep, {Back}), Only(Wide, {Back}), Only(Mixed, {Front}),
     Only(Own(Deep, fileC, {Back, NotFront}), {Front}),
     Only(Own(Deep, fileC, {WebInFront}), {Front}),
     Only(Own(Mixed, fileC, {Front}), {Back, WebInFront}),
     Only(Own(Deep, fileC, {Front}), {Api}), Only(Own(Mixed, fileD, {}), {Back}),
     Only(Inheriting([Deep EXCEPT !.explicit = TRUE], fileC), {NotFront}),
     [Only(Deep, {Back}) EXCEPT !.values[fileC] = [jobs |-> "on"]],
     [Mixed EXCEPT !.values[fileC] = [jobs |-> "scalar"]],
     [Wide EXCEPT !.values[fileC] = <<>>, !.offline = {fileB}]}
=============================================================================
