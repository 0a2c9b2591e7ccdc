----------------------------- MODULE RemoteFiles -----------------------------
(***************************************************************************)
(* State files may be given by URLs.  What is fetched is kept in a cache   *)
(* directory that outlives the process, and what is found there is taken   *)
(* for complete: what a fetch that fails leaves there matters.             *)
(*                                                                         *)
(* setup.load[r].from is where run r has its state file from: [getter,     *)
(* url, cache], a "local" file, or one fetched by the "http", the "s3" or  *)
(* a "go" getter, from the cache or (`cache=false`) not.                   *)
(***************************************************************************)
EXTENDS ChartPreparation

VARIABLES
  remotes     \* of every URL: "none" of it is in the cache, "part", or the "whole"

unchangedByLoading == <<setup, hooked, lock, cache, dirs, prep, mine, path, tracked, built, updated>>

Load(r) == setup.load[r]
From(r) == Load(r).from
LoadFails(r) == pc' = [pc EXCEPT ![r] = "done"] /\ reported' = reported \cup {r}
Keep(r, what) == remotes' = [remotes EXCEPT ![From(r).url] = what]

\* Parse, IsRemote: anything else is a local path, whether it is there or not
IsRemote(r) == From(r).getter # "local"
Locate(r) ==
  /\ pc[r] = "locate" /\ MayStart(r) /\ ~IsRemote(r)
  /\ Go(r, "load") \/ LoadFails(r)
  /\ UNCHANGED <<unchangedByLoading, files, remotes>>

\* Fetch: by an http getter a file, by others a directory is looked for, and it
\* need only be there
Cached(r) == From(r).cache /\ remotes[From(r).url] # "none"
FetchCached(r) ==
  /\ pc[r] = "locate" /\ MayStart(r) /\ IsRemote(r) /\ Cached(r)
  /\ Go(r, "load")
  /\ UNCHANGED <<unchangedByLoading, files, remotes>>
StartGet(r) ==
  /\ pc[r] = "locate" /\ MayStart(r) /\ IsRemote(r) /\ ~Cached(r)
  /\ Go(r, "getting") /\ UNCHANGED <<unchangedByLoading, files, remotes>>

\* S3FileExists: no such bucket or object, or S3 cannot be asked
NoSuchObject(r) ==
  /\ pc[r] = "getting" /\ From(r).getter = "s3" /\ LoadFails(r) /\ Keep(r, "none")
  /\ UNCHANGED <<unchangedByLoading, files>>
\* after an error the directory is removed, but not by the http getter
GetFails(r) ==
  /\ \/ pc[r] = "receiving"
     \/ pc[r] = "getting" /\ From(r).getter # "s3"
  /\ LoadFails(r)
  /\ IF From(r).getter = "http" THEN UNCHANGED remotes ELSE Keep(r, "none")
  /\ UNCHANGED <<unchangedByLoading, files>>
\* HttpGetter.Get and S3Getter.Get first ask whether there is such a file, then
\* create it and copy what they receive
HttpGet(r) ==
  /\ pc[r] = "getting" /\ From(r).getter = "http"
  /\ Go(r, "receiving") /\ Keep(r, "part")
  /\ UNCHANGED <<unchangedByLoading, files>>
S3Get(r) ==
  /\ pc[r] = "getting" /\ From(r).getter = "s3"
  /\ Go(r, "receiving") /\ Keep(r, "part")
  /\ UNCHANGED <<unchangedByLoading, files>>
\* go-getter works in the directory itself
GoGet(r) ==
  /\ pc[r] = "getting" /\ From(r).getter = "go"
  /\ Go(r, "receiving") /\ Keep(r, "part")
  /\ UNCHANGED <<unchangedByLoading, files>>
Fetched(r) ==
  /\ pc[r] = "receiving" /\ Go(r, "load") /\ Keep(r, "whole")
  /\ UNCHANGED <<unchangedByLoading, files>>

RemoteInit ==
  remotes \in [{From(r).url : r \in Runs} -> {"none", "whole"}]
RemoteNext ==
  \E r \in Runs : \/ Locate(r) \/ FetchCached(r) \/ StartGet(r) \/ NoSuchObject(r) \/ GetFails(r)
                  \/ HttpGet(r) \/ S3Get(r) \/ GoGet(r) \/ Fetched(r)
=============================================================================
