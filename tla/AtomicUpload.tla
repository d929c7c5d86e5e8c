---------------------------- MODULE AtomicUpload -----------------------------
(***************************************************************************)
(* What "atomic upload" promises of the durable manifests, without shards, *)
(* temporary files or retries: an upload commits at one moment, at which   *)
(* its manifest replaces the file's, or it aborts and leaves no trace.  A  *)
(* crash aborts every upload that has not committed.  StorageUpload.tla    *)
(* is shown to implement this module.                                      *)
(***************************************************************************)
CONSTANTS Upload,  \* upload calls
          Name,    \* file names
          None     \* no manifest

VARIABLES file,    \* [Name -> upload whose manifest is the durable one]
          outcome  \* [Upload -> "open", "committed" or "aborted"]

uploadVars == <<file, outcome>>

Commit(u, n) ==
  /\ outcome[u] = "open"
  /\ outcome' = [outcome EXCEPT ![u] = "committed"]
  /\ file' = [file EXCEPT ![n] = u]

Abort(S) ==
  /\ \A u \in S : outcome[u] = "open"
  /\ outcome' = [u \in Upload |-> IF u \in S THEN "aborted" ELSE outcome[u]]
  /\ UNCHANGED file

AtomicInit == /\ file = [n \in Name |-> None]
              /\ outcome = [u \in Upload |-> "open"]

AtomicNext == \/ \E u \in Upload, n \in Name : Commit(u, n)
              \/ \E S \in SUBSET Upload : Abort(S)

AtomicSpec == AtomicInit /\ [][AtomicNext]_uploadVars
=============================================================================
