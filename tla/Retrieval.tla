----------------------------- MODULE Retrieval -----------------------------
(***************************************************************************)
(* Download, scanAndRepair, TriggerRepair and ImportManifestJSON of        *)
(* storage/distributed.go for one file and no erasure coder: the shards    *)
(* fetched at once, the repair plugin with the manifest loaded anew behind *)
(* it, the second try, and the Merkle root that decides.                   *)
(*                                                                         *)
(* An upload is its two last steps, the manifest saved and then entered in *)
(* memory (StorageUpload has the others); upload v has contents v, and a   *)
(* shard's content is <<v, part>>.  layout says how the file was placed:   *)
(*   plain       one shard for each part                                   *)
(*   replicated  SimpleReplicationPlacement, two shards with all of it     *)
(*   parity      SimpleXORParityPlacement, the parts and their parity      *)
(*   streamed    without a placement plugin, two replicas of each chunk,   *)
(*               the first of which the manifest lists                     *)
(* The repair plugin is the user's: it writes the missing shards again.    *)
(***************************************************************************)
EXTENDS Naturals, Sequences, FiniteSets

CONSTANTS Downloader,
          MaxUpload,  \* bound: uploads of the file
          MaxLoss     \* bound: shards lost or changed

ASSUME RetrievalAssumption == MaxUpload \in Nat \ {0} /\ MaxLoss \in Nat

VARIABLES
  layout,
  memManifest, diskManifest, \* the upload whose manifest is in memory, on disk; 0 for none
  uploads, uploading,        \* uploads so far, one is between Save and memory
  shardAt,     \* [upload -> [listed shard -> "none", "good", "bad", "gone"]]
  rdPc,        \* [Downloader -> place]
  rdOf,        \* [Downloader -> the upload whose manifest it reads]
  rdLeft, rdFound,  \* [Downloader -> shards to fetch, shards found]
  rdMissed,    \* [Downloader -> a shard was missing, or not what was stored]
  rdAgain,     \* [Downloader -> [found, of] before the repair, or none]
  rdLoaded,    \* [Downloader -> the manifest loaded from the store]
  rdGot,       \* [Downloader -> answer: contents, or "error" as <<>>]
  scanPc, scanLoaded,
  losses,
  harmed       \* history: [Downloader -> a shard was lost, its context ended, or it
               \* found its manifest changed]

rdVars == <<rdPc, rdOf, rdLeft, rdFound, rdMissed, rdAgain, rdLoaded, rdGot>>
scanVars == <<scanPc, scanLoaded>>
manifestVars == <<memManifest, diskManifest, uploads, uploading>>
retrievalVars == <<layout, manifestVars, shardAt, rdVars, scanVars, losses, harmed>>

Whole == 0
ListedShards(v) ==
  CASE layout = "plain" -> << <<v, 1>>, <<v, 2>> >>
    [] layout = "replicated" -> << <<v, Whole>>, <<v, Whole>> >>
    [] layout = "parity" -> << <<v, 1>>, <<v, 2>>, <<v, 3>> >>
    [] layout = "streamed" -> << <<v, 1>>, <<v, 2>> >>
Contents(v) == IF layout = "replicated" THEN << <<v, Whole>> >> ELSE << <<v, 1>>, <<v, 2>> >>
ShardNo(v) == 1..Len(ListedShards(v))

\* The leaves below the root, of at most four shards: at each level the last node
\* stands in for the missing one, so that the third is doubled.
computeMerkleRoot(s) == IF Len(s) = 3 THEN Append(s, s[3]) ELSE s

\* streamed: over every replica of every chunk.
MerkleRoot(v) ==
  computeMerkleRoot(IF layout = "streamed" THEN << <<v, 1>>, <<v, 1>>, <<v, 2>>, <<v, 2>> >>
                    ELSE ListedShards(v))

RetrievalInit ==
  /\ layout \in {"plain", "replicated", "parity", "streamed"}
  /\ memManifest = 0 /\ diskManifest = 0 /\ uploads = 0 /\ uploading = FALSE
  /\ shardAt = [v \in 1..MaxUpload |-> [i \in 1..3 |-> "none"]]
  /\ rdPc = [c \in Downloader |-> "idle"] /\ rdOf = [c \in Downloader |-> 0]
  /\ rdLeft = [c \in Downloader |-> {}] /\ rdFound = [c \in Downloader |-> {}]
  /\ rdMissed = [c \in Downloader |-> FALSE]
  /\ rdAgain = [c \in Downloader |-> {}] /\ rdLoaded = [c \in Downloader |-> 0]
  /\ rdGot = [c \in Downloader |-> <<>>]
  /\ scanPc = "idle" /\ scanLoaded = 0
  /\ losses = 0 /\ harmed = [c \in Downloader |-> FALSE]

RdGoto(c, place) == rdPc' = [rdPc EXCEPT ![c] = place]
Readable(v, i) == shardAt[v][i] = "good"
Repaired(v) == [shardAt EXCEPT ![v] = [i \in 1..3 |-> IF i \in ShardNo(v) THEN "good" ELSE @[i]]]
-----------------------------------------------------------------------------
UploadSaved ==
  /\ ~uploading /\ uploads < MaxUpload
  /\ uploads' = uploads + 1 /\ uploading' = TRUE
  /\ shardAt' = Repaired(uploads + 1)
  /\ diskManifest' = uploads + 1
  /\ UNCHANGED <<layout, memManifest, rdVars, scanVars, losses, harmed>>

UploadEntered ==
  /\ uploading
  /\ uploading' = FALSE /\ memManifest' = uploads
  /\ UNCHANGED <<layout, diskManifest, uploads, shardAt, rdVars, scanVars, losses, harmed>>

\* A manifest exported before; if it cannot be saved it stays in memory alone.
ImportManifest(v) ==
  /\ v \in 1..uploads
  /\ memManifest' = v
  /\ diskManifest' \in {v, diskManifest}
  /\ UNCHANGED <<layout, uploads, uploading, shardAt, rdVars, scanVars, losses, harmed>>

\* A backend loses a shard, or gives it back changed.
LoseShard(v, i) ==
  /\ Readable(v, i) /\ losses < MaxLoss
  /\ losses' = losses + 1
  /\ \E state \in {"bad", "gone"} : shardAt' = [shardAt EXCEPT ![v][i] = state]
  /\ harmed' = [c \in Downloader |-> TRUE]
  /\ UNCHANGED <<layout, manifestVars, rdVars, scanVars>>
-----------------------------------------------------------------------------
Download(c) ==
  /\ rdPc[c] = "idle" /\ memManifest # 0
  /\ rdOf' = [rdOf EXCEPT ![c] = memManifest]
  /\ rdLeft' = [rdLeft EXCEPT ![c] = ShardNo(memManifest)]
  /\ harmed' = [harmed EXCEPT ![c] = \E i \in ShardNo(memManifest) : ~Readable(memManifest, i)]
  /\ RdGoto(c, "fetch")
  /\ UNCHANGED <<layout, manifestVars, shardAt, rdFound, rdMissed, rdAgain, rdLoaded, rdGot,
                 scanVars, losses>>

\* getShardBackendDirect and the checksum; the second time one after the other.
Fetch(c, i) ==
  /\ rdPc[c] \in {"fetch", "retry"} /\ i \in rdLeft[c]
  /\ rdPc[c] = "retry" => \A j \in rdLeft[c] : i <= j
  /\ rdLeft' = [rdLeft EXCEPT ![c] = @ \ {i}]
  /\ rdFound' = [rdFound EXCEPT ![c] = IF Readable(rdOf[c], i) THEN @ \cup {i} ELSE @]
  /\ rdMissed' = [rdMissed EXCEPT ![c] = @ \/ ~Readable(rdOf[c], i)]
  /\ UNCHANGED <<layout, manifestVars, shardAt, rdPc, rdOf, rdAgain, rdLoaded, rdGot,
                 scanVars, losses, harmed>>

\* The context ends: a goroutine of the first fetch neither finds its shard nor
\* misses it.
FetchCanceled(c, i) ==
  /\ rdPc[c] \in {"fetch", "retry"} /\ i \in rdLeft[c]
  /\ rdLeft' = [rdLeft EXCEPT ![c] = @ \ {i}]
  /\ rdMissed' = [rdMissed EXCEPT ![c] = @ \/ rdPc[c] = "retry"]
  /\ harmed' = [harmed EXCEPT ![c] = TRUE]
  /\ UNCHANGED <<layout, manifestVars, shardAt, rdPc, rdOf, rdFound, rdAgain, rdLoaded,
                 rdGot, scanVars, losses>>

Of(c) == {<<rdOf[c], i>> : i \in rdFound[c]}

\* Without a repair plugin, without a missing shard, or with a failed repair.
FetchDone(c) ==
  /\ rdPc[c] = "fetch" /\ rdLeft[c] = {}
  /\ RdGoto(c, "assemble")
  /\ rdAgain' = [rdAgain EXCEPT ![c] = Of(c)]
  /\ UNCHANGED <<layout, manifestVars, shardAt, rdOf, rdLeft, rdFound, rdMissed, rdLoaded,
                 rdGot, scanVars, losses, harmed>>

RepairForDownload(c) ==
  /\ rdPc[c] = "fetch" /\ rdLeft[c] = {} /\ rdMissed[c]
  /\ shardAt' = Repaired(rdOf[c])
  /\ rdAgain' = [rdAgain EXCEPT ![c] = Of(c)]
  /\ rdLoaded' = [rdLoaded EXCEPT ![c] = diskManifest]
  /\ RdGoto(c, "reload")
  /\ UNCHANGED <<layout, manifestVars, rdOf, rdLeft, rdFound, rdMissed, rdGot, scanVars,
                 losses, harmed>>

\* What was loaded is entered in memory, whatever has been entered since;
\* a manifest that cannot be loaded leaves the one at hand.
ReloadForDownload(c) ==
  /\ rdPc[c] = "reload"
  /\ \/ memManifest' = rdLoaded[c] /\ rdOf' = [rdOf EXCEPT ![c] = rdLoaded[c]]
     \/ UNCHANGED <<memManifest, rdOf>>
  /\ rdLeft' = [rdLeft EXCEPT ![c] = ShardNo(rdOf'[c])]
  /\ rdFound' = [rdFound EXCEPT ![c] = {}] /\ rdMissed' = [rdMissed EXCEPT ![c] = FALSE]
  /\ RdGoto(c, "retry")
  /\ UNCHANGED <<layout, diskManifest, uploads, uploading, shardAt, rdAgain, rdLoaded, rdGot,
                 scanVars, losses, harmed>>

\* The second fetch counts if it has missed nothing; else the first one does,
\* with the manifest that was loaded in between.
RetryDone(c) ==
  /\ rdPc[c] = "retry" /\ rdLeft[c] = {}
  /\ rdAgain' = [rdAgain EXCEPT ![c] = IF rdMissed[c] THEN @ ELSE Of(c)]
  /\ RdGoto(c, "assemble")
  /\ UNCHANGED <<layout, manifestVars, shardAt, rdOf, rdLeft, rdFound, rdMissed, rdLoaded,
                 rdGot, scanVars, losses, harmed>>

ByIndex(found) ==
  LET n == Cardinality(found)
      ahead(s) == Cardinality({t \in found : t[2] < s[2]}) IN
  [k \in 1..n |-> CHOOSE s \in found : ahead(s) = k - 1]

\* Faulty variant: a shard that is not there is passed over.
AcceptsSome(data, v) == \A k \in 1..Len(data) : data[k][1] = v

Accepts(data, v) == computeMerkleRoot(data) = MerkleRoot(v)

Assemble(c) ==
  LET shards == ByIndex(rdAgain[c])
      data == [k \in 1..Len(shards) |-> ListedShards(shards[k][1])[shards[k][2]]] IN
  /\ rdPc[c] = "assemble"
  /\ rdGot' = [rdGot EXCEPT ![c] = IF Accepts(data, rdOf[c]) THEN data ELSE <<>>]
  /\ RdGoto(c, "answer")
  /\ UNCHANGED <<layout, manifestVars, shardAt, rdOf, rdLeft, rdFound, rdMissed, rdAgain,
                 rdLoaded, scanVars, losses, harmed>>

DownloadReturns(c) ==
  /\ rdPc[c] = "answer"
  /\ RdGoto(c, "idle")
  /\ rdAgain' = [rdAgain EXCEPT ![c] = {}] /\ rdGot' = [rdGot EXCEPT ![c] = <<>>]
  /\ rdOf' = [rdOf EXCEPT ![c] = 0] /\ rdLoaded' = [rdLoaded EXCEPT ![c] = 0]
  /\ rdFound' = [rdFound EXCEPT ![c] = {}] /\ rdMissed' = [rdMissed EXCEPT ![c] = FALSE]
  /\ UNCHANGED <<layout, manifestVars, shardAt, rdLeft, scanVars, losses, harmed>>
-----------------------------------------------------------------------------
\* scanAndRepair looks for shards that cannot be got, not for changed ones.
ScanAndRepair ==
  /\ scanPc = "idle" /\ memManifest # 0
  /\ \E i \in ShardNo(memManifest) : shardAt[memManifest][i] = "gone"
  /\ shardAt' = Repaired(memManifest)
  /\ scanLoaded' = diskManifest
  /\ scanPc' = "reload"
  /\ UNCHANGED <<layout, manifestVars, rdVars, losses, harmed>>

ReloadForScan ==
  /\ scanPc = "reload"
  /\ memManifest' = scanLoaded
  /\ scanPc' = "idle" /\ scanLoaded' = 0
  /\ UNCHANGED <<layout, diskManifest, uploads, uploading, shardAt, rdVars, losses, harmed>>

\* TriggerRepair loads nothing.
TriggerRepair ==
  /\ memManifest # 0
  /\ shardAt' = Repaired(memManifest)
  /\ UNCHANGED <<layout, manifestVars, rdVars, scanVars, losses, harmed>>
-----------------------------------------------------------------------------
RetrievalNext ==
  \/ UploadSaved \/ UploadEntered \/ ScanAndRepair \/ ReloadForScan \/ TriggerRepair
  \/ \E v \in 1..MaxUpload : ImportManifest(v) \/ \E i \in 1..3 : LoseShard(v, i)
  \/ \E c \in Downloader :
       \/ Download(c) \/ FetchDone(c) \/ RepairForDownload(c) \/ ReloadForDownload(c)
       \/ RetryDone(c) \/ Assemble(c) \/ DownloadReturns(c)
       \/ \E i \in 1..3 : Fetch(c, i) \/ FetchCanceled(c, i)

RetrievalSpec == RetrievalInit /\ [][RetrievalNext]_retrievalVars
-----------------------------------------------------------------------------
RetrievalTypeOK ==
  /\ memManifest \in 0..MaxUpload /\ diskManifest \in 0..MaxUpload /\ uploads \in 0..MaxUpload
  /\ \A c \in Downloader : /\ rdPc[c] \in {"idle", "fetch", "reload", "retry", "assemble", "answer"}
                       /\ rdLeft[c] \subseteq 1..3 /\ rdFound[c] \subseteq 1..3
                       /\ rdOf[c] \in 0..MaxUpload /\ rdLoaded[c] \in 0..MaxUpload
  /\ scanPc \in {"idle", "reload"}

\* What a download returns is one upload's file, all of it and nothing else,
\* although manifests change and shards are lost, changed and repaired while it
\* runs.  (Of replicated and parity layouts it returns more: see the README.)
DownloadExact ==
  \A c \in Downloader : layout \in {"plain", "streamed"} /\ rdGot[c] # <<>> =>
    \E v \in 1..uploads : rdGot[c] = Contents(v)

\* A file with one shard for each part can be downloaded while none of them is
\* lost and the caller waits.
DownloadServes ==
  \A c \in Downloader : layout = "plain" /\ rdPc[c] = "answer" /\ ~harmed[c] =>
    rdGot[c] = Contents(rdOf[c])
=============================================================================
