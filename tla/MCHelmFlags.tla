---------------------------- MODULE MCHelmFlags ----------------------------
EXTENDS HelmFlags

LOCAL Options ==
  LET pointer == {"unset", "off", "on"}
      flag == {"unset", "on"}
      mode == {"unset", "helm-legacy", "kubedog"}
      both(rel, def) == [rel : rel, def : def]
      three(rel, def) == [rel : rel, cli : flag, def : def]
      value == three(flag, flag)
  IN [ version |-> [rel : flag, url : flag], digest |-> [rel : flag], devel |-> both(pointer, flag),
       enableDNS |-> both(pointer, flag),
       verify |-> [rel : pointer, repo : flag, def : flag],
       keyring |-> [rel : flag, repo : flag, def : flag],
       plainHttp |-> [rel : flag, repo : flag, def : flag],
       insecure |-> [rel : flag, repo : flag, def : flag],
       kubeContext |-> [rel : flag, env : flag, def : flag],
       adopt |-> [rel : flag], set |-> [cli : flag], showOnly |-> [cli : flag],
       postRenderer |-> value, postRendererArgs |-> value,
       skipSchemaValidation |-> three(pointer, pointer),
       templateArgs |-> [cli : flag, def : flag], diffArgs |-> [cli : flag, def : flag],
       syncArgs |-> [cli : flag, def : flag], skipCRDs |-> [cli : flag, def : flag],
       reuseValues |-> three(pointer, flag), resetValues |-> [cli : flag],
       kubeVersion |-> [rel : flag, st : flag, cli : flag, det : flag],
       disableAutoDetected |-> both(pointer, pointer),
       apiVersions |-> [rel : flag, st : flag], serverSide |-> value,
       trackMode |-> [rel : mode, cli : mode, def : mode], wait |-> three(pointer, flag),
       waitForJobs |-> three(pointer, flag), timeout |-> value,
       force |-> both(pointer, flag), forceConflicts |-> both(pointer, flag),
       recreatePods |-> both(pointer, flag), atomic |-> both(pointer, flag),
       rollbackOnFailure |-> both(pointer, flag), cleanupOnFail |-> both(pointer, flag),
       createNamespace |-> both(pointer, pointer),
       syncReleaseLabels |-> three(pointer, pointer),
       description |-> [cli : flag, rel : flag], hideNotes |-> [cli : flag],
       takeOwnership |-> three(pointer, pointer),
       disableOpenAPIValidation |-> both(pointer, pointer),
       disableValidation |-> [rel : pointer, def : pointer, arg : flag],
       suppressOutputLineRegex |-> value, deleteWait |-> both(pointer, flag),
       deleteTimeout |-> both(flag, flag), cascade |-> value ]

LOCAL OptionPairs ==
  {{"version", "digest"}, {"version", "devel"}, {"force", "forceConflicts"}, {"atomic", "rollbackOnFailure"}, {"plainHttp", "insecure"},
   {"verify", "keyring"}, {"kubeVersion", "disableAutoDetected"},
   {"reuseValues", "resetValues"}, {"wait", "trackMode"},
   {"takeOwnership", "serverSide"}, {"deleteWait", "deleteTimeout"}}

\* every option alone with every combination of its layers, and the options
\* that depend on one another two at a time
MCConfs ==
  UNION ({ {[p \in {o} |-> x] : x \in Options[o]} : o \in DOMAIN Options }
         \cup { {[p \in pair |-> f[p]] :
                  f \in {g \in [pair -> UNION {Options[o] : o \in pair}] :
                           \A o \in pair : g[o] \in Options[o]}} : pair \in OptionPairs })
=============================================================================
