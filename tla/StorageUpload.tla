---------------------------- MODULE StorageUpload ----------------------------
(***************************************************************************)
(* UploadStream of internal/storage/distributed.go: concurrent uploads     *)
(* write their shards to the backends, with retries and cleanup, sign the  *)
(* manifest, save it in the FileManifestStore and publish it in memory.    *)
(* Download and the repair scan reload manifests from the store; the       *)
(* process may crash and start again with the same store.                  *)
(*                                                                         *)
(* A shard is the upload it belongs to and its position in the order of    *)
(* writing; its data and its backend never change, so the backends are the *)
(* set of shards they hold.  The orphan registry is the persistent one,    *)
(* its file written with each registration.  A manifest is the upload that *)
(* made it and its version.  An inode of the store is named by the upload  *)
(* that created it.                                                        *)
(***************************************************************************)
EXTENDS Naturals, TLC

CONSTANTS Upload,      \* UploadStream calls, each made at most once
          Name,        \* file names
          Kinds,       \* "placed": shards from a plugin or coder; "chunked"
          Chunks,      \* shards of a placed upload / Replicas, chunks of a file
          Replicas,    \* replicas of a chunk
          Attempts,    \* attempts of putShardWithRetry
          Overlap,     \* whether callers upload one file concurrently
          MayCancel,   \* whether the caller's context may end, or its reader fail
          LateWrites,  \* whether a backend without contexts may time out
          Reader,      \* goroutines that reload: downloads, the repair scan
          MaxCrashes,  \* bound on the crashes of a behaviour
          None         \* no upload, no inode

ASSUME StorageUploadAssumption ==
  /\ Kinds \subseteq {"placed", "chunked"}
  /\ Chunks \in Nat \ {0}
  /\ Replicas \in Nat \ {0}
  /\ Attempts \in Nat \ {0}
  /\ Overlap \in BOOLEAN /\ MayCancel \in BOOLEAN /\ LateWrites \in BOOLEAN
  /\ MaxCrashes \in Nat
  /\ None \notin Upload

VARIABLES
  pc,       \* [Upload -> place in UploadStream]
  kind,     \* [Upload -> how its shards are made]
  name,     \* [Upload -> file name, None before the call]
  at,       \* [Upload -> position of the shard to be written next]
  tries,    \* [Upload -> failed attempts to write it]
  cleaned,  \* [Upload -> shards the cleanup has passed]
  record,   \* [Upload -> whether its cleanup registers orphans]
  ver,      \* [Upload -> Version of its manifest]
  fd,       \* [Upload -> inode it has open for writing]
  stored,   \* shards the backends hold
  late,     \* [Shard -> writes still running after their timeout]
  orphans,  \* shards in the orphan registry
  tmp,      \* [Name -> inode of <name>.json.tmp]
  final,    \* [Name -> inode of <name>.json]
  data,     \* [Upload -> contents of the inode]
  mem,      \* s.manifests: [Name -> manifest]
  rpc, got, \* [Reader -> file being reloaded], [Reader -> manifest loaded]
  crashes   \* crashes so far

callVars  == <<kind, name>>
shardVars == <<stored, late, orphans>>
diskVars  == <<tmp, final, data>>
readVars  == <<rpc, got>>
vars == <<pc, callVars, at, tries, cleaned, record, ver, fd, shardVars, diskVars, mem,
          readVars, crashes>>
-----------------------------------------------------------------------------
LastShard == Chunks * Replicas
Shard == Upload \X (1..LastShard)

\* A chunked manifest lists the first replica of each chunk only.
Listed(u) == {<<u, i>> : i \in {j \in 1..LastShard : kind[u] = "chunked" => (j - 1) % Replicas = 0}}

Manifest   == [by : Upload \cup {None}, ver : Nat]
NoManifest == [by |-> None, ver |-> 0]  \* also an empty file
Garbage    == [by |-> None, ver |-> 1]  \* a file that does not parse
Made(u)    == [by |-> u, ver |-> ver[u]]

\* What ManifestStore.Load returns: nothing for a missing or an unreadable file.
Disk(n) == IF final[n] = None \/ data[final[n]].by = None THEN NoManifest
                                                        ELSE data[final[n]]

Ended  == {"refused", "abandoned", "failed", "ok", "lost", "kept"}
Active(u) == pc[u] \notin Ended \cup {"idle"}

Init ==
  /\ pc = [u \in Upload |-> "idle"]
  /\ kind = [u \in Upload |-> "placed"]
  /\ name = [u \in Upload |-> None]
  /\ at = [u \in Upload |-> 1]
  /\ tries = [u \in Upload |-> 0]
  /\ cleaned = [u \in Upload |-> 0]
  /\ record = [u \in Upload |-> FALSE]
  /\ ver = [u \in Upload |-> 1]
  /\ fd = [u \in Upload |-> None]
  /\ stored = {} /\ late = [s \in Shard |-> 0] /\ orphans = {}
  /\ tmp = [n \in Name |-> None] /\ final = [n \in Name |-> None]
  /\ data = [u \in Upload |-> NoManifest]
  /\ mem = [n \in Name |-> NoManifest]
  /\ rpc = [r \in Reader |-> None] /\ got = [r \in Reader |-> NoManifest]
  /\ crashes = 0

Go(u, from, to) == pc[u] = from /\ pc' = [pc EXCEPT ![u] = to]
-----------------------------------------------------------------------------
(* The call, up to the first write.                                        *)

Begin(u, n, k) ==
  /\ Overlap \/ \A v \in Upload : name[v] = n => ~Active(v)
  /\ Go(u, "idle", "put")
  /\ name' = [name EXCEPT ![u] = n]
  /\ kind' = [kind EXCEPT ![u] = k]
  /\ UNCHANGED <<at, tries, cleaned, record, ver, fd, shardVars, diskVars, mem, readVars,
                 crashes>>

\* The policy, the placement, the encoder or the encryption of a placed upload
\* refuses it before anything is written.
Refuse(u) ==
  /\ Go(u, "idle", "refused")
  /\ UNCHANGED <<callVars, at, tries, cleaned, record, ver, fd, shardVars, diskVars, mem,
                 readVars, crashes>>
-----------------------------------------------------------------------------
(* Writing the shards one by one, each with retries.                       *)

Writing(u) == pc[u] = "put" /\ at[u] <= LastShard

PutOk(u) ==
  /\ Writing(u)
  /\ tries[u] < Attempts
  /\ stored' = stored \cup {<<u, at[u]>>}
  /\ at' = [at EXCEPT ![u] = @ + 1]
  /\ tries' = [tries EXCEPT ![u] = 0]
  /\ UNCHANGED <<pc, callVars, cleaned, record, ver, fd, late, orphans, diskVars, mem,
                 readVars, crashes>>

\* A backend that answers with an error may hold the shard all the same.
PutError(u) ==
  /\ Writing(u)
  /\ tries[u] < Attempts
  /\ stored' \in {stored, stored \cup {<<u, at[u]>>}}
  /\ tries' = [tries EXCEPT ![u] = @ + 1]
  /\ UNCHANGED <<pc, callVars, at, cleaned, record, ver, fd, late, orphans, diskVars, mem,
                 readVars, crashes>>

\* Without a context the PutShard goroutine goes on after its timeout.
PutTimeout(u) ==
  /\ LateWrites
  /\ Writing(u)
  /\ tries[u] < Attempts
  /\ late' = [late EXCEPT ![<<u, at[u]>>] = @ + 1]
  /\ tries' = [tries EXCEPT ![u] = @ + 1]
  /\ UNCHANGED <<pc, callVars, at, cleaned, record, ver, fd, stored, orphans, diskVars,
                 mem, readVars, crashes>>

LateWrite(s) ==
  /\ late[s] > 0
  /\ late' = [late EXCEPT ![s] = @ - 1]
  /\ stored' \in {stored, stored \cup {s}}
  /\ UNCHANGED <<pc, callVars, at, tries, cleaned, record, ver, fd, orphans, diskVars, mem,
                 readVars, crashes>>

\* Leave for the cleanup, which registers what it cannot delete or does not.
Undo(u, from, rec) ==
  /\ Go(u, from, "clean")
  /\ record' = [record EXCEPT ![u] = rec]
  /\ UNCHANGED <<callVars, at, tries, cleaned, ver, fd, shardVars, mem, readVars, crashes>>

\* The attempts, or the 20 seconds they have together, are used up; or the
\* caller's context ends.
PutFail(u) ==
  /\ Writing(u)
  /\ tries[u] > 0 \/ MayCancel
  /\ Undo(u, "put", TRUE)
  /\ UNCHANGED diskVars

\* The chunked path encrypts each replica just before it writes it.
EncryptFail(u) ==
  /\ Writing(u)
  /\ kind[u] = "chunked"
  /\ tries[u] = 0
  /\ Undo(u, "put", FALSE)
  /\ UNCHANGED diskVars

\* ctx.Done seen between two writes, or the reader of a chunked upload failing:
\* return without cleanup.  The chunked loop looks once more after its last chunk.
Abandon(u) ==
  /\ MayCancel
  /\ tries[u] = 0
  /\ Writing(u) \/ kind[u] = "chunked"
  /\ Go(u, "put", "abandoned")
  /\ UNCHANGED <<callVars, at, tries, cleaned, record, ver, fd, shardVars, diskVars, mem,
                 readVars, crashes>>

\* Faulty variant: the last shard is taken for written.
WrittenEarly(u) ==
  /\ at[u] = LastShard
  /\ Go(u, "put", "prepare")
  /\ UNCHANGED <<callVars, at, tries, cleaned, record, ver, fd, shardVars, diskVars, mem,
                 readVars, crashes>>

Written(u) ==
  /\ at[u] = LastShard + 1
  /\ Go(u, "put", "prepare")
  /\ UNCHANGED <<callVars, at, tries, cleaned, record, ver, fd, shardVars, diskVars, mem,
                 readVars, crashes>>
-----------------------------------------------------------------------------
(* The manifest: version and signature, the store's two files, the memory. *)

\* Faulty variant: the version of the previous manifest is not read.
FirstVersion(u) == 1

\* Load, for a placed upload; a chunked one always writes version 1.
NextVersion(u) == IF kind[u] = "placed" THEN Disk(name[u]).ver + 1 ELSE 1

Prepare(u) ==
  /\ Go(u, "prepare", "open")
  /\ ver' = [ver EXCEPT ![u] = NextVersion(u)]
  /\ UNCHANGED <<callVars, at, tries, cleaned, record, fd, shardVars, diskVars, mem,
                 readVars, crashes>>

SignFail(u) == Undo(u, "prepare", FALSE) /\ UNCHANGED diskVars

\* Faulty variant: the manifest is written over the one in place.
OpenInPlace(u) ==
  LET inode == IF final[name[u]] = None THEN u ELSE final[name[u]] IN
  /\ Go(u, "open", "write")
  /\ final' = [final EXCEPT ![name[u]] = inode]
  /\ tmp' = [tmp EXCEPT ![name[u]] = inode]
  /\ data' = [data EXCEPT ![inode] = NoManifest]
  /\ fd' = [fd EXCEPT ![u] = inode]
  /\ UNCHANGED <<callVars, at, tries, cleaned, record, ver, shardVars, mem, readVars,
                 crashes>>

\* os.WriteFile creates <name>.json.tmp or truncates the one that is there.
Open(u) ==
  LET inode == IF tmp[name[u]] = None THEN u ELSE tmp[name[u]] IN
  /\ Go(u, "open", "write")
  /\ tmp' = [tmp EXCEPT ![name[u]] = inode]
  /\ data' = [data EXCEPT ![inode] = NoManifest]
  /\ fd' = [fd EXCEPT ![u] = inode]
  /\ UNCHANGED <<callVars, at, tries, cleaned, record, ver, shardVars, final, mem,
                 readVars, crashes>>

\* Over the longer contents another upload has written since, it leaves garbage.
Write(u) ==
  /\ Go(u, "write", "rename")
  /\ \E m \in IF data[fd[u]] = NoManifest THEN {Made(u)} ELSE {Made(u), Garbage} :
       data' = [data EXCEPT ![fd[u]] = m]
  /\ UNCHANGED <<callVars, at, tries, cleaned, record, ver, fd, shardVars, tmp, final, mem,
                 readVars, crashes>>

\* The temporary file may be gone: a concurrent upload of the name renamed it.
Rename(u) ==
  /\ Go(u, "rename", "publish")
  /\ tmp[name[u]] # None
  /\ final' = [final EXCEPT ![name[u]] = tmp[name[u]]]
  /\ tmp' = [tmp EXCEPT ![name[u]] = None]
  /\ UNCHANGED <<callVars, at, tries, cleaned, record, ver, fd, shardVars, data, mem,
                 readVars, crashes>>

\* Any call of Save may fail, a write after some of it; the rename has to when
\* the temporary file is gone.
SaveFail(u) ==
  \/ Undo(u, "open", TRUE) /\ UNCHANGED diskVars
  \/ /\ Undo(u, "write", TRUE)
     /\ \E m \in {data[fd[u]], Garbage} : data' = [data EXCEPT ![fd[u]] = m]
     /\ UNCHANGED <<tmp, final>>
  \/ Undo(u, "rename", TRUE) /\ UNCHANGED diskVars

Publish(u) ==
  /\ Go(u, "publish", "ok")
  /\ mem' = [mem EXCEPT ![name[u]] = Made(u)]
  /\ UNCHANGED <<callVars, at, tries, cleaned, record, ver, fd, shardVars, diskVars,
                 readVars, crashes>>
-----------------------------------------------------------------------------
(* The cleanup deletes the shards written so far, in the order of writing. *)

Cleaning(u) == pc[u] = "clean" /\ cleaned[u] + 1 < at[u]

Delete(u) ==
  /\ Cleaning(u)
  /\ cleaned' = [cleaned EXCEPT ![u] = @ + 1]
  /\ stored' = stored \ {<<u, cleaned[u] + 1>>}
  /\ UNCHANGED <<pc, callVars, at, tries, record, ver, fd, late, orphans, diskVars, mem,
                 readVars, crashes>>

\* Faulty variant: a shard that could not be deleted is forgotten.
DeleteFailForgotten(u) ==
  /\ Cleaning(u)
  /\ cleaned' = [cleaned EXCEPT ![u] = @ + 1]
  /\ UNCHANGED <<pc, callVars, at, tries, record, ver, fd, shardVars, diskVars, mem,
                 readVars, crashes>>

DeleteFail(u) ==
  /\ Cleaning(u)
  /\ cleaned' = [cleaned EXCEPT ![u] = @ + 1]
  /\ orphans' = IF record[u] THEN orphans \cup {<<u, cleaned[u] + 1>>} ELSE orphans
  /\ UNCHANGED <<pc, callVars, at, tries, record, ver, fd, stored, late, diskVars, mem,
                 readVars, crashes>>

\* The shard whose write failed is registered without an attempt to delete it.
Failed(u) ==
  /\ cleaned[u] + 1 = at[u]
  /\ Go(u, "clean", "failed")
  /\ orphans' = IF record[u] /\ at[u] <= LastShard THEN orphans \cup {<<u, at[u]>>} ELSE orphans
  /\ UNCHANGED <<callVars, at, tries, cleaned, record, ver, fd, stored, late, diskVars,
                 mem, readVars, crashes>>
-----------------------------------------------------------------------------
(* Reloading a manifest after a repair; crash and restart.                 *)

\* Download and the scan load outside s.mu, then set the map entry under it.
Reload(r, n) ==
  /\ rpc[r] = None
  /\ mem[n] # NoManifest
  /\ Disk(n) # NoManifest
  /\ rpc' = [rpc EXCEPT ![r] = n]
  /\ got' = [got EXCEPT ![r] = Disk(n)]
  /\ UNCHANGED <<pc, callVars, at, tries, cleaned, record, ver, fd, shardVars, diskVars,
                 mem, crashes>>

Reloaded(r) ==
  /\ rpc[r] # None
  /\ mem' = [mem EXCEPT ![rpc[r]] = got[r]]
  /\ rpc' = [rpc EXCEPT ![r] = None]
  /\ UNCHANGED <<pc, callVars, at, tries, cleaned, record, ver, fd, shardVars, diskVars,
                 got, crashes>>

\* Faulty variant: the manifests are not loaded when the store is set.
EmptyMemory == [n \in Name |-> NoManifest]

LoadAll == [n \in Name |-> Disk(n)]

\* What the process held is gone, writes under way included; SetManifestStore
\* fills the memory of the next one from the readable files.
CrashRestart ==
  /\ crashes < MaxCrashes
  /\ crashes' = crashes + 1
  /\ pc' = [u \in Upload |-> IF ~Active(u) THEN pc[u]
                             ELSE IF pc[u] = "publish" THEN "kept" ELSE "lost"]
  /\ late' = [s \in Shard |-> 0]
  /\ mem' = LoadAll
  /\ rpc' = [r \in Reader |-> None]
  /\ UNCHANGED <<callVars, at, tries, cleaned, record, ver, fd, stored, orphans, diskVars,
                 got>>
-----------------------------------------------------------------------------
Put(u) == PutOk(u) \/ PutError(u) \/ PutTimeout(u) \/ PutFail(u) \/ EncryptFail(u)
            \/ Written(u)

Persist(u) == Prepare(u) \/ SignFail(u) \/ Open(u) \/ Write(u) \/ Rename(u) \/ SaveFail(u)
                \/ Publish(u)

Cleanup(u) == Delete(u) \/ DeleteFail(u) \/ Failed(u)

Next ==
  \/ \E u \in Upload, n \in Name, k \in Kinds : Begin(u, n, k)
  \/ \E u \in Upload : Refuse(u) \/ Put(u) \/ Abandon(u) \/ Persist(u) \/ Cleanup(u)
  \/ \E s \in Shard : LateWrite(s)
  \/ \E r \in Reader, n \in Name : Reload(r, n)
  \/ \E r \in Reader : Reloaded(r)
  \/ CrashRestart

Spec == Init /\ [][Next]_vars
-----------------------------------------------------------------------------
Place == {"idle", "put", "clean", "prepare", "open", "write", "rename", "publish"} \cup Ended

TypeOK ==
  /\ pc \in [Upload -> Place]
  /\ kind \in [Upload -> {"placed", "chunked"}]
  /\ name \in [Upload -> Name \cup {None}]
  /\ at \in [Upload -> 1..(LastShard + 1)]
  /\ tries \in [Upload -> 0..Attempts]
  /\ cleaned \in [Upload -> 0..LastShard]
  /\ record \in [Upload -> BOOLEAN]
  /\ ver \in [Upload -> Nat]
  /\ fd \in [Upload -> Upload \cup {None}]
  /\ stored \subseteq Shard
  /\ late \in [Shard -> Nat]
  /\ orphans \subseteq Shard
  /\ tmp \in [Name -> Upload \cup {None}]
  /\ final \in [Name -> Upload \cup {None}]
  /\ data \in [Upload -> Manifest]
  /\ mem \in [Name -> Manifest]
  /\ rpc \in [Reader -> Name \cup {None}]
  /\ got \in [Reader -> Manifest]
  /\ crashes \in 0..MaxCrashes

Backed(m) == m.by # None => Listed(m.by) \subseteq stored

\* "Write shards first, cleanup on failure, then persist manifest": every shard
\* a readable manifest lists is on its backend, in the store, in memory and in
\* the hands of a reload, whatever fails, is cleaned up, retried or crashes.
ManifestBacked ==
  /\ \A n \in Name : Backed(Disk(n)) /\ Backed(mem[n])
  /\ \A r \in Reader : Backed(got[r])

\* "Orphan recording on cleanup": when a write or a save has failed and the
\* cleanup is over, each shard of the upload that a backend still holds is in
\* the orphan registry.
CleanupRecorded ==
  \A u \in Upload : pc[u] = "failed" /\ record[u] =>
    \A i \in 1..LastShard : <<u, i>> \in stored => <<u, i>> \in orphans

\* "If manifest exists increment version": a placed upload replaces the durable
\* manifest of a file only by one with the next version.
VersionsGrow ==
  [][\A n \in Name : Disk(n)' # Disk(n) /\ kind[Disk(n)'.by] = "placed" =>
       Disk(n)'.ver = Disk(n).ver + 1]_vars

\* When nobody is at work on a file, memory and store agree on its manifest.
MemoryMatchesDisk ==
  \A n \in Name :
    /\ \A u \in Upload : name[u] = n => ~Active(u)
    /\ \A r \in Reader : rpc[r] # n
    => mem[n] = Disk(n)

\* "Atomic upload": an upload takes effect on the durable manifests at one
\* moment or not at all, and only if it does not fail.
Outcome(u) == IF pc[u] \in {"publish", "ok", "kept"} THEN "committed"
              ELSE IF pc[u] \in Ended THEN "aborted" ELSE "open"

Atomic == INSTANCE AtomicUpload
            WITH file <- [n \in Name |-> Disk(n).by],
                 outcome <- [u \in Upload |-> Outcome(u)]
AtomicSpec == Atomic!AtomicSpec

\* An upload that has begun returns, with its manifest published or an error.
EveryUploadReturns == \A u \in Upload : Active(u) ~> pc[u] \in Ended
-----------------------------------------------------------------------------
\* For TLC: uploads are alike; no definition above names one of them.
UploadSymmetry == Permutations(Upload)
=============================================================================
