--------------------------- MODULE ReleaseValues ---------------------------
(***************************************************************************)
(* The values of a release: the entries of `values:` and `secrets:` become *)
(* temporary files whose names helm is given.  A generator either returns  *)
(* the files it wrote or an error, and what it wrote before the error is   *)
(* nobody's any more ("left").  The values are read a second time, without *)
(* files, for the templates of patches and transformers.                   *)
(*                                                                         *)
(* An entry is [kind, paths, renders]: a "file" whose pattern matches      *)
(* `paths` files and whose template renders or not, a "map" given inline,  *)
(* or something "other".  A secret is [kind, paths, decrypts, renders].    *)
(* A release is a record with values, secrets, handler (missingFileHandler *)
(* or "unset"), valsOK (its ref+ expressions can be evaluated) and setsOK  *)
(* (so can those of set, setString and env).                               *)
(***************************************************************************)
EXTENDS Naturals, Sequences, FiniteSetsExt

Skipping == {"Warn", "Info", "Debug"}
\* Storage.resolveFile: what becomes of a pattern that matches nothing
ResolveFile(handler, paths) ==
  IF paths > 0 THEN "found" ELSE IF handler \in Skipping THEN "skip" ELSE "error"

\* the release's handler, that of the state file, "Error"
MissingFileHandler(rel, fromState) == IF rel.handler # "unset" THEN rel.handler ELSE fromState

\* the index of the first entry that cannot be used, or one past the last
FirstBad(bad) == Min({i \in DOMAIN bad : bad[i]} \cup {Len(bad) + 1})

Unusable(e, handler) ==
  \/ e.kind = "other"
  \/ e.kind = "file" /\ ResolveFile(handler, e.paths) = "error"
  \/ e.kind = "file" /\ e.paths > 1
  \/ e.kind = "file" /\ e.paths = 1 /\ ~e.renders
Used(e) == e.kind = "map" \/ e.paths = 1

\* generateTemporaryReleaseValuesFilesCore: one file for every entry in use up
\* to the first that cannot be; a file is <<owner, index>>
Generate(owner, entries, handler) ==
  LET bad == FirstBad([i \in DOMAIN entries |-> Unusable(entries[i], handler)])
  IN  [ok |-> bad > Len(entries),
       files |-> {<<owner, i>> : i \in {k \in 1..(bad - 1) : Used(entries[k])}}]

Nothing == [ok |-> FALSE, files |-> {}, left |-> {}]
Generated(g) == IF g.ok THEN [ok |-> TRUE, files |-> g.files, left |-> {}]
                ELSE [ok |-> FALSE, files |-> {}, left |-> g.files]

VanillaValues(owner, rel, fromState) ==
  IF ~rel.valsOK THEN Nothing
  ELSE Generated(Generate(<<owner, "values">>, rel.values, MissingFileHandler(rel, fromState)))

\* Every secret is decrypted before the first file is written, with the handler
\* of the release alone; what was decrypted is removed in any case.
SecretValues(owner, rel, fromState) ==
  LET undecryptable(s) ==
        \/ s.kind = "file" /\ (ResolveFile(rel.handler, s.paths) = "error" \/ s.paths > 1)
        \/ Used(s) /\ ~s.decrypts
      decrypted == SelectSeq(rel.secrets, Used)
      asFiles == [i \in DOMAIN decrypted |->
                    [kind |-> "file", paths |-> 1, renders |-> decrypted[i].renders]]
  IN  IF FirstBad([i \in DOMAIN rel.secrets |-> undecryptable(rel.secrets[i])]) <= Len(rel.secrets) THEN Nothing
      ELSE Generated(Generate(<<owner, "secrets">>, asFiles, MissingFileHandler(rel, fromState)))

\* generateValuesFiles: the values files are forgotten when the secrets fail
ValuesFiles(owner, rel, fromState) ==
  LET v == VanillaValues(owner, rel, fromState)
      s == SecretValues(owner, rel, fromState)
  IN  IF ~v.ok THEN v
      ELSE IF ~s.ok THEN [s EXCEPT !.left = @ \cup v.files]
      ELSE [s EXCEPT !.files = @ \cup v.files]

\* namespaceAndValuesFlags returns the files with an error that comes later
ValuesAndFlags(owner, rel, fromState) ==
  LET r == ValuesFiles(owner, rel, fromState)
  IN  IF r.ok /\ ~rel.setsOK THEN [r EXCEPT !.ok = FALSE] ELSE r

\* resolveReleaseValues, for the templates of patches: the entries merged over
\* the values of the state file
UnusableInTemplates(e, handler) ==
  \/ e.kind = "file" /\ CASE ResolveFile(handler, e.paths) = "error" -> TRUE
                          [] ResolveFile(handler, e.paths) = "skip" -> FALSE
                          [] OTHER -> e.paths > 1 \/ ~e.renders
  \/ e.kind = "other"
TemplateValues(rel, fromState) ==
  LET handler == MissingFileHandler(rel, fromState)
      bad == FirstBad([i \in DOMAIN rel.values |-> UnusableInTemplates(rel.values[i], handler)])
  IN  IF ~rel.valsOK \/ bad <= Len(rel.values) THEN [ok |-> FALSE, merged |-> {}]
      ELSE [ok |-> TRUE, merged |-> {i \in DOMAIN rel.values : Used(rel.values[i])}]

\* PrepareChartify: patches, patches of another kind and transformers, one
\* generator after the other, then the values; `clean` knows the files of the
\* generators that succeeded.  The patches' templates need the values.
ChartifyFiles(owner, rel, fromState) ==
  LET readable == TemplateValues(rel, fromState).ok
      patches == [i \in DOMAIN rel.patches |->
                    [rel.patches[i] EXCEPT !.renders = @ /\ readable]]
      p == Generated(Generate(<<owner, "patches">>, patches, MissingFileHandler(rel, fromState)))
      v == ValuesFiles(owner, rel, fromState)
  IN  IF ~p.ok THEN p
      ELSE IF ~v.ok THEN [v EXCEPT !.files = p.files]
      ELSE IF ~rel.setsOK THEN [v EXCEPT !.ok = FALSE, !.files = @ \cup p.files]
      ELSE [v EXCEPT !.files = @ \cup p.files]
=============================================================================
