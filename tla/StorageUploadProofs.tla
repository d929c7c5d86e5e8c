------------------------- MODULE StorageUploadProofs -------------------------
(* Proofs about StorageUpload, and about the components MCRecovery puts      *)
(* beside it: the self-healing manager and the connector gateway.            *)
EXTENDS MCRecovery, MCRecords, FunctionSums

\* A file has at least one shard.
LEMMA LastNat == LastShard \in Nat \ {0}
BY StorageUploadAssumption DEF LastShard

-----------------------------------------------------------------------------
(* Types, and what the place of an upload says of its other fields.        *)

Full == {"prepare", "open", "write", "rename", "publish", "ok", "kept"}

LinkOK(u) ==
  /\ pc[u] \notin {"idle", "refused"} => name[u] \in Name
  /\ pc[u] = "idle" => at[u] = 1
  /\ pc[u] = "write" => fd[u] \in Upload
  /\ pc[u] \in Full => at[u] = LastShard + 1
  /\ pc[u] \notin {"clean", "failed", "lost"} => cleaned[u] = 0
  /\ cleaned[u] < at[u]

TypeInv == TypeOK /\ \A u \in Upload : LinkOK(u)

\* The initial state has the types and the links.
LEMMA TypeInit == Init => TypeInv
BY LastNat, StorageUploadAssumption
   DEF Init, TypeInv, TypeOK, LinkOK, Place, Ended, Manifest, NoManifest, Full, Shard

\* An upload that moves on leaves the links of the others alone.
LeavesOthers(u) ==
  \A v \in Upload \ {u} : /\ pc'[v] = pc[v] /\ name'[v] = name[v] /\ at'[v] = at[v]
                          /\ fd'[v] = fd[v] /\ cleaned'[v] = cleaned[v]

LEMMA LinkOthers ==
  ASSUME NEW u \in Upload, TypeInv, LeavesOthers(u), LinkOK(u)'
  PROVE  \A v \in Upload : LinkOK(v)'
BY DEF TypeInv, LinkOK, LeavesOthers

\* What the store returns is a manifest.
LEMMA DiskType == TypeOK => \A n \in Name : Disk(n) \in Manifest
BY DEF TypeOK, Disk, Manifest, NoManifest

\* Every step keeps the types and the links.
LEMMA TypeStep == TypeInv /\ [Next]_vars => TypeInv'
<1> SUFFICES ASSUME TypeInv, [Next]_vars PROVE TypeInv'
  OBVIOUS
<1>0. TypeOK /\ (\A u \in Upload : LinkOK(u)) /\ LastShard \in Nat \ {0}
      /\ Attempts \in Nat \ {0} /\ MaxCrashes \in Nat /\ None \notin Upload
      /\ Kinds \subseteq {"placed", "chunked"}
  BY LastNat, StorageUploadAssumption DEF TypeInv
<1> USE DEF Go, Place, Ended, Full, Active
<1>1. ASSUME NEW u \in Upload, NEW n \in Name, NEW k \in Kinds, Begin(u, n, k) PROVE TypeInv'
  <2>1. TypeOK'
    BY <1>0, <1>1 DEF Begin, TypeOK, callVars, shardVars, diskVars, readVars
  <2>2. LinkOK(u)'
    BY <1>0, <1>1 DEF Begin, LinkOK, TypeOK, shardVars, diskVars, readVars
  <2>3. LeavesOthers(u)
    BY <1>0, <1>1 DEF Begin, LeavesOthers, TypeOK
  <2> QED BY <1>0, <2>1, <2>2, <2>3, LinkOthers DEF TypeInv
<1>2. ASSUME NEW u \in Upload, Refuse(u) \/ Abandon(u) PROVE TypeInv'
  <2>1. TypeOK'
    BY <1>0, <1>2 DEF Refuse, Abandon, TypeOK, callVars, shardVars, diskVars, readVars
  <2>2. LinkOK(u)'
    BY <1>0, <1>2 DEF Refuse, Abandon, LinkOK, TypeOK, callVars
  <2>3. LeavesOthers(u)
    BY <1>0, <1>2 DEF Refuse, Abandon, LeavesOthers, TypeOK, callVars
  <2> QED BY <1>0, <2>1, <2>2, <2>3, LinkOthers DEF TypeInv
<1>3. ASSUME NEW u \in Upload, PutOk(u) \/ PutError(u) \/ PutTimeout(u) PROVE TypeInv'
  <2>0. <<u, at[u]>> \in Shard
    BY <1>0, <1>3 DEF PutOk, PutError, PutTimeout, Writing, TypeOK, Shard
  <2>1. TypeOK'
    <3>1. CASE PutOk(u)
      BY <1>0, <3>1, <2>0 DEF PutOk, Writing, TypeOK, callVars, diskVars, readVars
    <3>2. CASE PutError(u)
      BY <1>0, <3>2, <2>0 DEF PutError, Writing, TypeOK, callVars, diskVars, readVars
    <3>3. CASE PutTimeout(u)
      BY <1>0, <3>3, <2>0 DEF PutTimeout, Writing, TypeOK, callVars, diskVars, readVars
    <3> QED BY <3>1, <3>2, <3>3, <1>3
  <2>2. LinkOK(u)'
    BY <1>0, <1>3 DEF PutOk, PutError, PutTimeout, Writing, LinkOK, TypeOK, callVars
  <2>3. LeavesOthers(u)
    <3>1. CASE PutOk(u)
      BY <1>0, <3>1 DEF PutOk, LeavesOthers, TypeOK, callVars
    <3>2. CASE PutError(u)
      BY <1>0, <3>2 DEF PutError, LeavesOthers, TypeOK, callVars
    <3>3. CASE PutTimeout(u)
      BY <1>0, <3>3 DEF PutTimeout, LeavesOthers, TypeOK, callVars
    <3> QED BY <1>3, <3>1, <3>2, <3>3
  <2> QED BY <1>0, <2>1, <2>2, <2>3, LinkOthers DEF TypeInv
<1>4. ASSUME NEW s \in Shard, LateWrite(s) PROVE TypeInv'
  <2>1. TypeOK'
    BY <1>0, <1>4 DEF LateWrite, TypeOK, callVars, diskVars, readVars
  <2> QED BY <2>1, <1>0, <1>4 DEF TypeInv, LinkOK, LateWrite, callVars
<1>5. ASSUME NEW u \in Upload,
             PutFail(u) \/ EncryptFail(u) \/ SignFail(u) \/ SaveFail(u)
      PROVE  TypeInv'
  <2>1. TypeOK'
    <3>1. CASE UNCHANGED diskVars
      BY <1>0, <1>5, <3>1 DEF PutFail, EncryptFail, SignFail, SaveFail, Undo, TypeOK, callVars,
           shardVars, diskVars, readVars
    <3>2. CASE Undo(u, "write", TRUE) /\ UNCHANGED <<tmp, final>>
               /\ \E m \in {data[fd[u]], Garbage} : data' = [data EXCEPT ![fd[u]] = m]
      <4>1. fd[u] \in Upload /\ data[fd[u]] \in Manifest /\ Garbage \in Manifest
        BY <1>0, <3>2 DEF Undo, LinkOK, TypeOK, Garbage, Manifest
      <4> QED BY <1>0, <4>1, <3>2 DEF Undo, TypeOK, callVars, shardVars, readVars
    <3> QED BY <3>1, <3>2, <1>5 DEF PutFail, EncryptFail, SignFail, SaveFail
  <2>2. LinkOK(u)'
    BY <1>0, <1>5 DEF PutFail, EncryptFail, SignFail, SaveFail, Undo, LinkOK, TypeOK, callVars
  <2>3. LeavesOthers(u)
    <3>1. CASE PutFail(u)
      BY <1>0, <3>1 DEF PutFail, Undo, LeavesOthers, TypeOK, callVars
    <3>2. CASE EncryptFail(u)
      BY <1>0, <3>2 DEF EncryptFail, Undo, LeavesOthers, TypeOK, callVars
    <3>3. CASE SignFail(u)
      BY <1>0, <3>3 DEF SignFail, Undo, LeavesOthers, TypeOK, callVars
    <3>4. CASE SaveFail(u)
      BY <1>0, <3>4 DEF SaveFail, Undo, LeavesOthers, TypeOK, callVars
    <3> QED BY <1>5, <3>1, <3>2, <3>3, <3>4
  <2> QED BY <1>0, <2>1, <2>2, <2>3, LinkOthers DEF TypeInv
<1>6. ASSUME NEW u \in Upload, Written(u) \/ Prepare(u) \/ Publish(u) PROVE TypeInv'
  <2>1. TypeOK'
    <3>1. CASE Written(u)
      BY <1>0, <3>1 DEF Written, TypeOK, callVars, shardVars, diskVars, readVars
    <3>2. CASE Prepare(u)
      <4>1. name[u] \in Name
        BY <1>0, <3>2 DEF LinkOK, Prepare, TypeOK
      <4>2. NextVersion(u) \in Nat
        BY <1>0, DiskType, <4>1 DEF NextVersion, Manifest
      <4> QED BY <1>0, <3>2, <4>2 DEF Prepare, TypeOK, callVars, shardVars, diskVars, readVars
    <3>3. CASE Publish(u)
      <4>1. Made(u) \in Manifest
        BY <1>0 DEF Made, Manifest, TypeOK
      <4> QED BY <1>0, <3>3, <4>1 DEF Publish, TypeOK, callVars, shardVars, diskVars, readVars
    <3> QED BY <3>1, <3>2, <3>3, <1>6
  <2>2. LinkOK(u)'
    BY <1>0, <1>6 DEF Written, Prepare, Publish, LinkOK, TypeOK, callVars
  <2>3. LeavesOthers(u)
    <3>1. CASE Written(u)
      BY <1>0, <3>1 DEF Written, LeavesOthers, TypeOK, callVars
    <3>2. CASE Prepare(u)
      BY <1>0, <3>2 DEF Prepare, LeavesOthers, TypeOK, callVars
    <3>3. CASE Publish(u)
      BY <1>0, <3>3 DEF Publish, LeavesOthers, TypeOK, callVars
    <3> QED BY <1>6, <3>1, <3>2, <3>3
  <2> QED BY <1>0, <2>1, <2>2, <2>3, LinkOthers DEF TypeInv
<1>7. ASSUME NEW u \in Upload, Open(u) \/ Write(u) \/ Rename(u) PROVE TypeInv'
  <2>0. name[u] \in Name
    BY <1>0, <1>7 DEF LinkOK, Open, Write, Rename, TypeOK
  <2>1. TypeOK'
    <3>1. CASE Open(u)
      <4> DEFINE i == IF tmp[name[u]] = None THEN u ELSE tmp[name[u]]
      <4>1. i \in Upload
        BY <1>0, <2>0 DEF TypeOK
      <4>2. NoManifest \in Manifest
        BY DEF NoManifest, Manifest
      <4>3. /\ tmp' = [tmp EXCEPT ![name[u]] = i] /\ data' = [data EXCEPT ![i] = NoManifest]
            /\ fd' = [fd EXCEPT ![u] = i]
        BY <3>1 DEF Open
      <4> HIDE DEF i
      <4> QED BY <1>0, <3>1, <2>0, <4>1, <4>2, <4>3
              DEF Open, TypeOK, callVars, shardVars, readVars
    <3>2. CASE Write(u)
      <4>1. Made(u) \in Manifest /\ Garbage \in Manifest
        BY <1>0 DEF Made, Garbage, Manifest, TypeOK
      <4>2. PICK m \in Manifest : data' = [data EXCEPT ![fd[u]] = m]
        BY <3>2, <4>1 DEF Write
      <4> QED BY <1>0, <3>2, <4>2 DEF Write, TypeOK, callVars, shardVars, readVars
    <3>3. CASE Rename(u)
      BY <1>0, <3>3, <2>0 DEF Rename, TypeOK, callVars, shardVars, readVars
    <3> QED BY <3>1, <3>2, <3>3, <1>7
  <2>2. LinkOK(u)'
    <3>1. CASE Open(u)
      BY <1>0, <2>0, <3>1 DEF Open, LinkOK, TypeOK, callVars
    <3>2. CASE Write(u) \/ Rename(u)
      BY <1>0, <2>0, <3>2 DEF Write, Rename, LinkOK, TypeOK, callVars
    <3> QED BY <1>7, <3>1, <3>2
  <2>3. LeavesOthers(u)
    <3>1. CASE Open(u)
      BY <1>0, <3>1 DEF Open, LeavesOthers, TypeOK, callVars
    <3>2. CASE Write(u)
      BY <1>0, <3>2 DEF Write, LeavesOthers, TypeOK, callVars
    <3>3. CASE Rename(u)
      BY <1>0, <3>3 DEF Rename, LeavesOthers, TypeOK, callVars
    <3> QED BY <1>7, <3>1, <3>2, <3>3
  <2> QED BY <1>0, <2>1, <2>2, <2>3, LinkOthers DEF TypeInv
<1>8. ASSUME NEW u \in Upload, Cleanup(u) PROVE TypeInv'
  <2>0. /\ pc[u] = "clean"
        /\ Delete(u) \/ DeleteFail(u) => <<u, cleaned[u] + 1>> \in Shard
    BY <1>0, <1>8 DEF Cleanup, Delete, DeleteFail, Failed, Cleaning, TypeOK, Shard
  <2>1. TypeOK'
    <3>1. CASE Delete(u)
      BY <1>0, <3>1, <2>0 DEF Delete, Cleaning, TypeOK, callVars, diskVars, readVars
    <3>2. CASE DeleteFail(u)
      BY <1>0, <3>2, <2>0 DEF DeleteFail, Cleaning, TypeOK, callVars, diskVars, readVars
    <3>3. CASE Failed(u)
      <4>1. at[u] <= LastShard => <<u, at[u]>> \in Shard
        BY <1>0 DEF TypeOK, Shard
      <4> QED BY <1>0, <3>3, <4>1 DEF Failed, TypeOK, callVars, diskVars, readVars
    <3> QED BY <3>1, <3>2, <3>3, <1>8 DEF Cleanup
  <2>2. LinkOK(u)'
    BY <1>0, <1>8, <2>0 DEF Cleanup, Delete, DeleteFail, Failed, Cleaning, LinkOK, TypeOK, callVars
  <2>3. LeavesOthers(u)
    <3>1. CASE Delete(u)
      BY <1>0, <3>1 DEF Delete, LeavesOthers, TypeOK, callVars
    <3>2. CASE DeleteFail(u)
      BY <1>0, <3>2 DEF DeleteFail, LeavesOthers, TypeOK, callVars
    <3>3. CASE Failed(u)
      BY <1>0, <3>3 DEF Failed, LeavesOthers, TypeOK, callVars
    <3> QED BY <1>8, <3>1, <3>2, <3>3 DEF Cleanup
  <2> QED BY <1>0, <2>1, <2>2, <2>3, LinkOthers DEF TypeInv
<1>9. ASSUME NEW r \in Reader, NEW n \in Name, Reload(r, n) PROVE TypeInv'
  <2>1. TypeOK'
    BY <1>0, <1>9, DiskType DEF Reload, TypeOK, callVars, shardVars, diskVars
  <2> QED BY <2>1, <1>0, <1>9 DEF TypeInv, LinkOK, Reload, callVars
<1>10. ASSUME NEW r \in Reader, Reloaded(r) PROVE TypeInv'
  <2>1. TypeOK'
    BY <1>0, <1>10 DEF Reloaded, TypeOK, callVars, shardVars, diskVars
  <2> QED BY <2>1, <1>0, <1>10 DEF TypeInv, LinkOK, Reloaded, callVars
<1>11. CASE CrashRestart
  <2>1. TypeOK'
    BY <1>0, <1>11, DiskType
       DEF CrashRestart, LoadAll, TypeOK, callVars, diskVars
  <2>2. \A u \in Upload : LinkOK(u)'
    BY <1>0, <1>11 DEF CrashRestart, LinkOK, TypeOK, callVars
  <2> QED BY <2>1, <2>2 DEF TypeInv
<1>12. CASE UNCHANGED vars
  BY <1>0, <1>12 DEF vars, TypeInv, TypeOK, LinkOK, callVars, shardVars, diskVars, readVars
<1> QED
  BY <1>1, <1>2, <1>3, <1>4, <1>5, <1>6, <1>7, <1>8, <1>9, <1>10, <1>11, <1>12
     DEF Next, Put, Persist, Cleanup

\* Type correctness of the uploads, for any number of calls, files and shards.
THEOREM UploadTypeCorrect == Spec => []TypeOK
<1>1. Init => TypeInv
  BY TypeInit
<1>2. TypeInv /\ [Next]_vars => TypeInv'
  BY TypeStep
<1>3. TypeInv => TypeOK
  BY DEF TypeInv
<1> QED BY <1>1, <1>2, <1>3, PTL DEF Spec
-----------------------------------------------------------------------------
(* The files of the store when callers do not overlap uploads of one name. *)

Past == {"publish", "ok", "kept"}
Committed(u) == pc[u] \in Past

\* No inode has been created for u yet.
Early == {"idle", "refused", "put", "prepare", "open"}
Fresh(u) == pc[u] \in Early

Sole == \A u, v \in Upload : u # v /\ Active(u) /\ Active(v) => name[u] # name[v]

\* The two files of a name and those of other names share no inode.
Apart ==
  \A n \in Name : tmp[n] # None =>
    /\ ~Fresh(tmp[n])
    /\ \A m \in Name : tmp[n] # final[m] /\ (n # m => tmp[n] # tmp[m])

\* An upload at work on its temporary file is alone with it.
Editing(u) ==
  pc[u] \in {"write", "rename"} =>
    /\ fd[u] \in Upload
    /\ tmp[name[u]] = fd[u]
    /\ data[fd[u]] = IF pc[u] = "write" THEN NoManifest ELSE Made(u)

\* What is durable, in memory or being reloaded is committed.
Durable ==
  /\ \A n \in Name : final[n] # None =>
       /\ ~Fresh(final[n])
       /\ data[final[n]].by # None
       /\ Committed(data[final[n]].by)
  /\ \A n \in Name : mem[n].by # None => Committed(mem[n].by)
  /\ \A r \in Reader : got[r].by # None => Committed(got[r].by)

FileInv == Sole /\ Apart /\ (\A u \in Upload : Editing(u)) /\ Durable

\* An empty store is in order.
LEMMA FileInit == Init => FileInv
BY DEF Init, FileInv, Sole, Apart, Editing, Durable, Active, Ended, NoManifest

\* Only Begin makes an upload active or gives it a name.
LEMMA SoleStep ==
  ASSUME ~Overlap, TypeInv, Sole, [Next]_vars
  PROVE  Sole'
<1>0. TypeOK
  BY DEF TypeInv
<1>1. ASSUME NEW u \in Upload, NEW n \in Name, NEW k \in Kinds, Begin(u, n, k) PROVE Sole'
  <2>1. \A v \in Upload \ {u} : Active(v)' = Active(v) /\ name'[v] = name[v]
    BY <1>0, <1>1 DEF Begin, Go, Active, TypeOK
  <2>2. name'[u] = n /\ \A v \in Upload \ {u} : name[v] = n => ~Active(v)
    BY <1>0, <1>1 DEF Begin, TypeOK
  <2> QED BY <2>1, <2>2 DEF Sole
<1>2. ASSUME name' = name, \A v \in Upload : Active(v)' => Active(v) PROVE Sole'
  BY <1>2 DEF Sole
<1>3. ASSUME NEW u \in Upload, Refuse(u) \/ Put(u) \/ Abandon(u) \/ Persist(u) \/ Cleanup(u)
      PROVE  name' = name /\ \A v \in Upload : Active(v)' => Active(v)
  BY <1>0, <1>3 DEF Refuse, Put, Abandon, Persist, Cleanup, PutOk, PutError, PutTimeout, PutFail,
       EncryptFail, Written, Prepare, SignFail, SaveFail, Open, Write, Rename, Publish, Delete,
       DeleteFail, Failed, Writing, Cleaning, Undo, Go, Active, Ended, TypeOK, callVars
<1>4. ASSUME \/ \E s \in Shard : LateWrite(s)
             \/ \E r \in Reader, n \in Name : Reload(r, n)
             \/ \E r \in Reader : Reloaded(r)
             \/ CrashRestart
             \/ UNCHANGED vars
      PROVE  name' = name /\ \A v \in Upload : Active(v)' => Active(v)
  BY <1>0, <1>4 DEF LateWrite, Reload, Reloaded, CrashRestart, Active, Ended, TypeOK, callVars, vars
<1> QED BY <1>1, <1>2, <1>3, <1>4 DEF Next

\* A step that leaves files, memory and reloads alone, and lets nobody begin or
\* go on editing.
LEMMA FileKept ==
  ASSUME TypeInv, Apart, \A u \in Upload : Editing(u), Durable,
         UNCHANGED <<diskVars, mem, got>>,
         \A v \in Upload : (Committed(v) => Committed(v)') /\ (Fresh(v)' => Fresh(v)),
         \A v \in Upload : pc'[v] \in {"write", "rename"} =>
             pc'[v] = pc[v] /\ name'[v] = name[v] /\ ver'[v] = ver[v] /\ fd'[v] = fd[v]
  PROVE  Apart' /\ (\A u \in Upload : Editing(u)') /\ Durable'
<1>0. TypeOK
  BY DEF TypeInv
<1>1. Apart'
  BY <1>0 DEF Apart, diskVars, TypeOK
<1>2. \A u \in Upload : Editing(u)'
  BY <1>0 DEF Editing, Made, diskVars
<1>3. Durable'
  BY <1>0 DEF Durable, diskVars, TypeOK, Manifest
<1> QED BY <1>1, <1>2, <1>3

\* With one upload at a time for a name, every step keeps the files in order.
LEMMA FileStep ==
  ASSUME ~Overlap, TypeInv, FileInv, [Next]_vars
  PROVE  FileInv'
<1> USE DEF Past, Early
<1>0. /\ TypeOK /\ (\A u \in Upload : LinkOK(u)) /\ None \notin Upload
      /\ Sole /\ Apart /\ (\A u \in Upload : Editing(u)) /\ Durable
  BY StorageUploadAssumption DEF TypeInv, FileInv
<1>s. Sole'
  BY SoleStep DEF FileInv
<1> DEFINE Rest == Apart' /\ (\A u \in Upload : Editing(u)') /\ Durable'
<1> SUFFICES Rest
  BY <1>s DEF FileInv
<1> USE DEF Go
<1>1. ASSUME NEW u \in Upload, NEW n \in Name, NEW k \in Kinds, Begin(u, n, k) PROVE Rest
  <2> USE <1>0, <1>1 DEF Begin, TypeOK, shardVars, diskVars, readVars
  <2>1. \A v \in Upload : (Committed(v) => Committed(v)') /\ (Fresh(v)' => Fresh(v))
    BY DEF Committed, Fresh
  <2>2. \A v \in Upload : pc'[v] \in {"write", "rename"} =>
          pc'[v] = pc[v] /\ name'[v] = name[v] /\ ver'[v] = ver[v] /\ fd'[v] = fd[v]
    OBVIOUS
  <2>3. UNCHANGED <<diskVars, mem, got>>
    OBVIOUS
  <2> QED BY <2>1, <2>2, <2>3, FileKept
<1>2. ASSUME NEW u \in Upload,
             Refuse(u) \/ Abandon(u) \/ Written(u) \/ Prepare(u) \/ PutOk(u) \/ PutError(u)
               \/ PutTimeout(u) \/ Cleanup(u)
      PROVE  Rest
  <2> USE <1>0, <1>2
          DEF Refuse, Abandon, Written, Prepare, PutOk, PutError, PutTimeout, Writing, Cleanup,
              Delete, DeleteFail, Failed, Cleaning, TypeOK, callVars, shardVars, diskVars, readVars
  <2>1. \A v \in Upload : (Committed(v) => Committed(v)') /\ (Fresh(v)' => Fresh(v))
    BY DEF Committed, Fresh
  <2>2. \A v \in Upload : pc'[v] \in {"write", "rename"} =>
          pc'[v] = pc[v] /\ name'[v] = name[v] /\ ver'[v] = ver[v] /\ fd'[v] = fd[v]
    OBVIOUS
  <2>3. UNCHANGED <<diskVars, mem, got>>
    OBVIOUS
  <2> QED BY <2>1, <2>2, <2>3, FileKept
<1>3. ASSUME NEW u \in Upload, PutFail(u) \/ EncryptFail(u) \/ SignFail(u) \/ SaveFail(u),
             UNCHANGED diskVars
      PROVE  Rest
  <2> USE <1>0, <1>3
          DEF PutFail, EncryptFail, SignFail, SaveFail, Undo, TypeOK, callVars, shardVars, readVars
  <2>1. \A v \in Upload : (Committed(v) => Committed(v)') /\ (Fresh(v)' => Fresh(v))
    BY DEF Committed, Fresh
  <2>2. \A v \in Upload : pc'[v] \in {"write", "rename"} =>
          pc'[v] = pc[v] /\ name'[v] = name[v] /\ ver'[v] = ver[v] /\ fd'[v] = fd[v]
    OBVIOUS
  <2>3. UNCHANGED <<diskVars, mem, got>>
    OBVIOUS
  <2> QED BY <2>1, <2>2, <2>3, FileKept
<1>4. ASSUME NEW s \in Shard, LateWrite(s) PROVE Rest
  <2>1. UNCHANGED <<diskVars, mem, got, pc, name, ver, fd>>
    BY <1>4 DEF LateWrite, callVars, readVars
  <2> QED BY <1>0, <2>1, FileKept DEF Committed, Fresh
<1>5. ASSUME NEW u \in Upload, Open(u) PROVE Rest
  <2>0. name[u] \in Name /\ pc[u] = "open"
    BY <1>0, <1>5 DEF Open, LinkOK, TypeOK
  <2>a. PICK n \in Name : n = name[u]
    BY <2>0
  <2>b. PICK i \in Upload : i = IF tmp[n] = None THEN u ELSE tmp[n]
    BY <1>0 DEF TypeOK
  <2>c. /\ pc' = [pc EXCEPT ![u] = "write"]
        /\ tmp' = [tmp EXCEPT ![n] = i] /\ data' = [data EXCEPT ![i] = NoManifest]
        /\ fd' = [fd EXCEPT ![u] = i]
        /\ final' = final /\ mem' = mem /\ got' = got /\ name' = name /\ ver' = ver
    BY <1>5, <2>a, <2>b DEF Open, callVars, readVars
  <2>1. \A m \in Name : i # final[m] /\ (m # n => i # tmp[m])
    BY <1>0, <2>0, <2>b DEF Apart, Durable, Fresh, TypeOK
  <2>2. i = u \/ ~Fresh(i)
    BY <1>0, <2>b DEF Apart
  <2>3. \A v \in Upload : (Fresh(v)' => Fresh(v)) /\ (Committed(v)' <=> Committed(v))
    BY <1>0, <2>0, <2>c DEF Fresh, Committed, TypeOK
  <2>4. ~Fresh(i)'
    BY <1>0, <2>c, <2>2, <2>3 DEF Fresh, TypeOK
  <2>5. Apart'
    <3> SUFFICES ASSUME NEW m \in Name, tmp'[m] # None
                 PROVE  /\ pc'[tmp'[m]] \notin Early
                        /\ \A k \in Name : tmp'[m] # final[k] /\ (m # k => tmp'[m] # tmp'[k])
      BY <2>c DEF Apart, Fresh
    <3>1. CASE m = n
      <4>1. tmp'[m] = i
        BY <1>0, <2>c, <3>1 DEF TypeOK
      <4> QED BY <1>0, <2>c, <3>1, <4>1, <2>1, <2>4 DEF TypeOK, Fresh
    <3>2. CASE m # n
      <4>1. tmp'[m] = tmp[m] /\ tmp[m] \in Upload /\ ~Fresh(tmp[m])
        BY <1>0, <2>c, <3>2 DEF TypeOK, Apart
      <4>2. pc'[tmp'[m]] \notin Early
        BY <4>1, <2>3, <2>c DEF Fresh
      <4> QED BY <1>0, <2>c, <3>2, <4>1, <4>2, <2>1 DEF Apart, TypeOK
    <3> QED BY <3>1, <3>2
  <2>6. \A v \in Upload : Editing(v)'
    <3>1. Editing(u)'
      BY <1>0, <2>0, <2>a, <2>c DEF Editing, TypeOK
    <3>2. ASSUME NEW v \in Upload, v # u, pc[v] \in {"write", "rename"}
          PROVE  fd[v] # i /\ name[v] # n
      <4>1. name[v] # n
        BY <1>0, <2>0, <2>a, <3>2 DEF Sole, Active, Ended
      <4>2. tmp[name[v]] = fd[v] /\ fd[v] \in Upload /\ name[v] \in Name
        BY <1>0, <3>2 DEF Editing, LinkOK
      <4> QED BY <4>1, <4>2, <2>1
    <3>3. ASSUME NEW v \in Upload, v # u PROVE Editing(v)'
      <4> SUFFICES ASSUME pc[v] \in {"write", "rename"} PROVE Editing(v)'
        BY <1>0, <2>c, <3>3 DEF Editing, TypeOK
      <4>1. Editing(v) /\ fd[v] # i /\ name[v] # n /\ name[v] \in Name
        BY <1>0, <3>2, <3>3 DEF LinkOK
      <4> QED BY <1>0, <2>c, <3>3, <4>1 DEF Editing, Made, TypeOK
    <3> QED BY <3>1, <3>3
  <2>7. Durable'
    BY <1>0, <2>c, <2>1, <2>3 DEF Durable, TypeOK, Manifest
  <2> QED BY <2>5, <2>6, <2>7
<1>6. ASSUME NEW u \in Upload, pc[u] = "write", NEW m \in Manifest,
             data' = [data EXCEPT ![fd[u]] = m],
             \/ pc' = [pc EXCEPT ![u] = "clean"]
             \/ pc' = [pc EXCEPT ![u] = "rename"] /\ m = Made(u),
             UNCHANGED <<name, ver, fd, tmp, final, mem, got>>
      PROVE  Rest
  <2>0. name[u] \in Name /\ fd[u] \in Upload /\ fd[u] = tmp[name[u]]
    BY <1>0, <1>6 DEF LinkOK, Editing
  <2>1. \A n \in Name : final[n] # fd[u] /\ (n # name[u] => tmp[n] # fd[u])
    BY <1>0, <2>0 DEF Apart
  <2>2. \A v \in Upload : (Fresh(v)' => Fresh(v)) /\ (Committed(v)' <=> Committed(v))
    BY <1>0, <1>6 DEF Fresh, Committed, TypeOK
  <2>3. Apart'
    BY <1>0, <1>6, <2>2 DEF Apart, TypeOK
  <2>4. \A v \in Upload : Editing(v)'
    <3>1. Editing(u)'
      BY <1>0, <1>6, <2>0 DEF Editing, Made, TypeOK
    <3>2. ASSUME NEW v \in Upload, v # u PROVE Editing(v)'
      <4> SUFFICES ASSUME pc[v] \in {"write", "rename"} PROVE Editing(v)'
        BY <1>0, <1>6, <3>2 DEF Editing, TypeOK
      <4>1. name[v] # name[u] /\ name[v] \in Name
        BY <1>0, <1>6, <3>2 DEF Sole, Active, Ended, LinkOK
      <4>2. fd[v] # fd[u] /\ fd[v] \in Upload
        BY <1>0, <4>1, <2>1 DEF Editing
      <4> QED BY <1>0, <1>6, <3>2, <4>1, <4>2 DEF Editing, Made, TypeOK
    <3> QED BY <3>1, <3>2
  <2>5. Durable'
    BY <1>0, <1>6, <2>1, <2>2 DEF Durable, TypeOK, Manifest
  <2> QED BY <2>3, <2>4, <2>5
<1>7. ASSUME NEW u \in Upload, Write(u) PROVE Rest
  <2>1. pc[u] = "write" /\ Editing(u) /\ Made(u) \in Manifest
    BY <1>0, <1>7 DEF Write, Made, Manifest, TypeOK
  <2>2. data' = [data EXCEPT ![fd[u]] = Made(u)]
    BY <1>7, <2>1 DEF Write, Editing
  <2> QED BY <1>6, <1>7, <2>1, <2>2 DEF Write, callVars, readVars
<1>8. ASSUME NEW u \in Upload, SaveFail(u), ~UNCHANGED diskVars PROVE Rest
  <2>1. /\ Undo(u, "write", TRUE) /\ UNCHANGED <<tmp, final>>
        /\ \E m \in {data[fd[u]], Garbage} : data' = [data EXCEPT ![fd[u]] = m]
    BY <1>8 DEF SaveFail
  <2>2. data[fd[u]] \in Manifest /\ Garbage \in Manifest
    BY <1>0, <2>1 DEF Undo, LinkOK, TypeOK, Manifest, Garbage
  <2> QED BY <1>6, <2>1, <2>2 DEF Undo, callVars, readVars
<1>9. ASSUME NEW u \in Upload, Rename(u) PROVE Rest
  <2> DEFINE n == name[u]
  <2>0. /\ n \in Name /\ pc[u] = "rename" /\ pc' = [pc EXCEPT ![u] = "publish"]
        /\ final' = [final EXCEPT ![n] = tmp[n]] /\ tmp' = [tmp EXCEPT ![n] = None]
        /\ data' = data /\ mem' = mem /\ got' = got /\ name' = name /\ ver' = ver /\ fd' = fd
        /\ tmp[n] \in Upload /\ data[tmp[n]].by = u
    <3>1. n \in Name /\ pc[u] = "rename" /\ tmp[n] # None
      BY <1>0, <1>9 DEF Rename, LinkOK, TypeOK
    <3>2. tmp[n] \in Upload /\ data[tmp[n]].by = u
      <4>1. Editing(u)
        BY <1>0
      <4>2. Made(u).by = u
        BY DEF Made
      <4> QED BY <3>1, <4>1, <4>2 DEF Editing
    <3> QED BY <1>9, <3>1, <3>2 DEF Rename, callVars, readVars
  <2>1. \A v \in Upload : /\ Fresh(v)' => Fresh(v)
                          /\ Committed(v) => Committed(v)'
                          /\ v # u => pc'[v] = pc[v]
    BY <1>0, <2>0 DEF Fresh, Committed, TypeOK
  <2>2. Committed(u)' /\ ~Fresh(tmp[n])
    BY <1>0, <2>0 DEF Committed, TypeOK, Apart
  <2>3. Apart'
    BY <1>0, <2>0, <2>1 DEF Apart, TypeOK
  <2>4. \A v \in Upload : Editing(v)'
    <3>1. ASSUME NEW v \in Upload, v # u, pc[v] \in {"write", "rename"}
          PROVE  name[v] # n /\ name[v] \in Name
      BY <1>0, <2>0, <3>1 DEF Sole, Active, Ended, LinkOK
    <3>2. pc'[u] = "publish"
      BY <1>0, <2>0 DEF TypeOK
    <3> QED BY <1>0, <2>0, <2>1, <3>1, <3>2 DEF Editing, Made, TypeOK
  <2>5. Durable'
    BY <1>0, <2>0, <2>1, <2>2 DEF Durable, TypeOK, Manifest
  <2> QED BY <2>3, <2>4, <2>5
<1>10. ASSUME NEW u \in Upload, Publish(u) PROVE Rest
  <2>0. /\ name[u] \in Name /\ pc[u] = "publish" /\ pc' = [pc EXCEPT ![u] = "ok"]
        /\ mem' = [mem EXCEPT ![name[u]] = Made(u)] /\ Made(u).by = u
        /\ UNCHANGED <<name, ver, fd, tmp, final, data, got>>
    BY <1>0, <1>10 DEF Publish, LinkOK, TypeOK, callVars, diskVars, readVars, Made
  <2>1. \A v \in Upload : (Fresh(v)' => Fresh(v)) /\ (Committed(v)' <=> Committed(v))
    BY <1>0, <2>0 DEF Fresh, Committed, TypeOK
  <2>2. Apart'
    BY <1>0, <2>0, <2>1 DEF Apart, TypeOK
  <2>3. \A v \in Upload : Editing(v)'
    BY <1>0, <2>0 DEF Editing, Made, TypeOK
  <2>4. Committed(u)
    BY <2>0 DEF Committed
  <2>5. Durable'
    BY <1>0, <2>0, <2>1, <2>4 DEF Durable, TypeOK, Manifest
  <2> QED BY <2>2, <2>3, <2>5
<1>11. \A n \in Name : Disk(n).by # None => Committed(Disk(n).by)
  BY <1>0 DEF Durable, Disk, NoManifest
<1>12. ASSUME UNCHANGED <<diskVars, pc, name, ver, fd>>,
              \/ \E r \in Reader : mem' = [mem EXCEPT ![rpc[r]] = got[r]] /\ got' = got
              \/ \E r \in Reader, n \in Name : mem' = mem /\ got' = [got EXCEPT ![r] = Disk(n)]
       PROVE  Rest
  <2>1. Apart' /\ \A v \in Upload : Editing(v)'
    BY <1>0, <1>12 DEF Apart, Editing, Fresh, Made, diskVars
  <2>2. \A n \in Name : mem'[n].by # None => Committed(mem'[n].by)
    BY <1>0, <1>12 DEF Durable, TypeOK
  <2>3. \A r \in Reader : got'[r].by # None => Committed(got'[r].by)
    BY <1>0, <1>11, <1>12 DEF Durable, TypeOK
  <2>4. Durable'
    BY <1>0, <1>12, <2>2, <2>3 DEF Durable, Committed, Fresh, diskVars
  <2> QED BY <2>1, <2>4
<1>13. CASE CrashRestart
  <2>0. /\ pc' = [u \in Upload |-> IF ~Active(u) THEN pc[u]
                                  ELSE IF pc[u] = "publish" THEN "kept" ELSE "lost"]
        /\ mem' = [n \in Name |-> Disk(n)]
        /\ UNCHANGED <<diskVars, got>>
    BY <1>13 DEF CrashRestart, LoadAll
  <2>1. \A v \in Upload : (Fresh(v)' => Fresh(v)) /\ (Committed(v) => Committed(v)')
    BY <2>0 DEF Fresh, Committed, Active, Ended
  <2>2. Apart'
    BY <1>0, <2>0, <2>1 DEF Apart, diskVars, TypeOK
  <2>3. \A v \in Upload : Editing(v)'
    BY <2>0 DEF Editing, Active, Ended
  <2>4. \A n \in Name : mem'[n].by # None => pc'[mem'[n].by] \in Past
    <3> SUFFICES ASSUME NEW n \in Name, Disk(n).by # None PROVE pc'[Disk(n).by] \in Past
      BY <2>0
    <3>1. Disk(n).by \in Upload /\ Committed(Disk(n).by)
      BY <1>0, <1>11, DiskType DEF Manifest
    <3>2. PICK v \in Upload : v = Disk(n).by
      BY <3>1
    <3> QED BY <3>1, <3>2, <2>0 DEF Committed, Active, Ended
  <2>5. Durable'
    <3>1. \A n \in Name : final[n] # None =>
            /\ pc'[final[n]] \notin Early /\ data[final[n]].by # None
            /\ pc'[data[final[n]].by] \in Past
      BY <1>0, <2>0, <2>1 DEF Durable, diskVars, TypeOK, Manifest, Fresh, Committed
    <3>2. \A r \in Reader : got[r].by # None => pc'[got[r].by] \in Past
      BY <1>0, <2>0, <2>1 DEF Durable, TypeOK, Manifest, Committed
    <3> QED BY <2>0, <2>4, <3>1, <3>2 DEF Durable, diskVars, Committed, Fresh
  <2> QED BY <2>2, <2>3, <2>5
<1>14. CASE UNCHANGED vars
  BY <1>0, <1>14, FileKept
     DEF vars, Committed, Fresh, callVars, shardVars, diskVars, readVars
<1> QED
  <2>1. ASSUME NEW r \in Reader, NEW n \in Name, Reload(r, n) PROVE Rest
    BY <2>1, <1>12 DEF Reload, callVars
  <2>2. ASSUME NEW r \in Reader, Reloaded(r) PROVE Rest
    BY <2>2, <1>12 DEF Reloaded, callVars
  <2>3. ASSUME NEW u \in Upload, PutFail(u) \/ EncryptFail(u) \/ SignFail(u) PROVE Rest
    BY <2>3, <1>3 DEF PutFail, EncryptFail, SignFail
  <2>4. ASSUME NEW u \in Upload, Put(u) \/ Persist(u) PROVE Rest
    BY <2>3, <2>4, <1>2, <1>3, <1>5, <1>7, <1>8, <1>9, <1>10 DEF Put, Persist
  <2> QED BY <2>1, <2>2, <2>4, <1>1, <1>2, <1>4, <1>13, <1>14 DEF Next
-----------------------------------------------------------------------------
(* The shards of an upload that has not failed.                            *)

WrittenOnes(u) == pc[u] \in {"put"} \cup Full =>
                    \A i \in 1..LastShard : i < at[u] => <<u, i>> \in stored

BackInv == \A u \in Upload : WrittenOnes(u)

\* No upload has begun to write.
LEMMA BackInit == Init => BackInv
BY DEF Init, BackInv, WrittenOnes, Full

\* A shard once written stays, except at the hands of its own upload's cleanup.
LEMMA BackStep == TypeInv /\ BackInv /\ [Next]_vars => BackInv'
<1> SUFFICES ASSUME TypeInv, BackInv, [Next]_vars, NEW u \in Upload PROVE WrittenOnes(u)'
  BY DEF BackInv
<1>0. TypeOK /\ (\A v \in Upload : LinkOK(v)) /\ WrittenOnes(u) /\ LastShard \in Nat \ {0}
  BY LastNat DEF TypeInv, BackInv
<1>1. ASSUME pc'[u] \in {"put"} \cup Full => pc[u] \in {"put"} \cup Full /\ at'[u] = at[u],
             \A i \in 1..LastShard : pc[u] # "clean" /\ <<u, i>> \in stored => <<u, i>> \in stored'
      PROVE  WrittenOnes(u)'
  BY <1>0, <1>1 DEF WrittenOnes, Full
<1> USE <1>0 DEF Go, TypeOK
<1>2. ASSUME NEW v \in Upload, NEW n \in Name, NEW k \in Kinds, Begin(v, n, k)
      PROVE  WrittenOnes(u)'
  BY <1>2 DEF Begin, WrittenOnes, LinkOK, Full, shardVars
<1>3. ASSUME NEW v \in Upload, PutOk(v) PROVE WrittenOnes(u)'
  BY <1>3 DEF PutOk, Writing, WrittenOnes, Full
<1>4. ASSUME NEW v \in Upload, Put(v) \/ Refuse(v) \/ Abandon(v) \/ Persist(v), ~PutOk(v)
      PROVE  WrittenOnes(u)'
  BY <1>1, <1>4
     DEF Put, Persist, Refuse, Abandon, PutError, PutTimeout, PutFail, EncryptFail, Written, Prepare,
         SignFail, Open, Write, Rename, SaveFail, Publish, Undo, Full, callVars, shardVars
<1>5. ASSUME NEW v \in Upload, Cleanup(v) PROVE WrittenOnes(u)'
  BY <1>1, <1>5 DEF Cleanup, Delete, DeleteFail, Failed, Cleaning, Full, callVars
<1>6. ASSUME \/ \E s \in Shard : LateWrite(s)
             \/ \E r \in Reader, n \in Name : Reload(r, n)
             \/ \E r \in Reader : Reloaded(r)
             \/ UNCHANGED vars
      PROVE  WrittenOnes(u)'
  BY <1>1, <1>6 DEF LateWrite, Reload, Reloaded, vars, callVars, shardVars
<1>7. CASE CrashRestart
  <2>1. pc'[u] = IF ~Active(u) THEN pc[u] ELSE IF pc[u] = "publish" THEN "kept" ELSE "lost"
    BY <1>7 DEF CrashRestart
  <2>2. pc'[u] \in {"put"} \cup Full => pc[u] \in {"put"} \cup Full
    BY <2>1 DEF Full, Active, Ended
  <2>3. stored' = stored /\ at' = at
    BY <1>7 DEF CrashRestart
  <2> QED BY <1>1, <2>2, <2>3
<1> QED BY <1>2, <1>3, <1>4, <1>5, <1>6, <1>7 DEF Next

\* The shards of a committed upload are all on their backends.
LEMMA CommittedBacked ==
  ASSUME TypeInv, BackInv, NEW m \in Manifest, m.by # None => Committed(m.by)
  PROVE  Backed(m)
<1> SUFFICES ASSUME m.by # None PROVE Listed(m.by) \subseteq stored
  BY DEF Backed
<1>1. PICK u \in Upload : u = m.by
  BY DEF Manifest
<1>2. at[u] = LastShard + 1 /\ pc[u] \in Full
  BY <1>1 DEF TypeInv, LinkOK, Committed, Past, Full
<1>3. \A i \in 1..LastShard : <<u, i>> \in stored
  BY <1>1, <1>2, LastNat DEF BackInv, WrittenOnes
<1> QED BY <1>1, <1>3 DEF Listed

\* "Write shards first, cleanup on failure, then persist manifest", for any number
\* of uploads, files, shards, failures, late writes and crashes, as long as callers
\* do not upload one name twice at the same time.
THEOREM UploadManifestBacked == ~Overlap => (Spec => []ManifestBacked)
<1> SUFFICES ASSUME ~Overlap PROVE Spec => []ManifestBacked
  OBVIOUS
<1> DEFINE Inv == TypeInv /\ FileInv /\ BackInv
<1>1. Init => Inv
  BY TypeInit, FileInit, BackInit
<1>2. Inv /\ [Next]_vars => Inv'
  BY TypeStep, FileStep, BackStep
<1>3. Inv => ManifestBacked
  <2> SUFFICES ASSUME TypeInv, FileInv, BackInv PROVE ManifestBacked
    OBVIOUS
  <2>1. \A n \in Name : Disk(n) \in Manifest /\ (Disk(n).by # None => Committed(Disk(n).by))
    BY DiskType DEF TypeInv, FileInv, Durable, Disk, NoManifest
  <2>2. \A n \in Name : mem[n] \in Manifest /\ (mem[n].by # None => Committed(mem[n].by))
    BY DEF TypeInv, TypeOK, FileInv, Durable
  <2>3. \A r \in Reader : got[r] \in Manifest /\ (got[r].by # None => Committed(got[r].by))
    BY DEF TypeInv, TypeOK, FileInv, Durable
  <2> QED BY <2>1, <2>2, <2>3, CommittedBacked DEF ManifestBacked
<1> QED BY <1>1, <1>2, <1>3, PTL DEF Spec
-----------------------------------------------------------------------------
(* The uploads implement atomic ones.                                      *)

File == [n \in Name |-> Disk(n).by]
Out  == [u \in Upload |-> Outcome(u)]

\* A step of the abstract uploads.
AtomicStep == [Atomic!AtomicNext]_<<File, Out>>

\* The initial state is an initial state of the atomic uploads.
LEMMA RefineInit == Init => Atomic!AtomicInit
BY DEF Init, Atomic!AtomicInit, File, Out, Disk, NoManifest, Outcome, Ended

\* A step that leaves the durable manifests alone and moves one upload on, to an
\* abort at most.
LEMMA StepOfOne ==
  ASSUME TypeInv, NEW u \in Upload, \A n \in Name : Disk(n)' = Disk(n),
         \A v \in Upload \ {u} : pc'[v] = pc[v],
         \/ Outcome(u)' = Outcome(u)
         \/ Outcome(u) = "open" /\ Outcome(u)' = "aborted"
  PROVE  AtomicStep
<1>1. File' = File
  BY DEF File
<1>2. \A v \in Upload \ {u} : Outcome(v)' = Outcome(v)
  BY DEF Outcome
<1>3. CASE Outcome(u)' = Outcome(u)
  BY <1>1, <1>2, <1>3 DEF Out, AtomicStep
<1>4. CASE Outcome(u) = "open" /\ Outcome(u)' = "aborted"
  <2>1. Atomic!Abort({u})
    BY <1>1, <1>2, <1>4 DEF Atomic!Abort, Out, File
  <2> QED BY <2>1 DEF AtomicStep, Atomic!AtomicNext
<1> QED BY <1>3, <1>4

\* Every step of the uploads is an atomic commit, an abort or no step.
LEMMA RefineStep ==
  ASSUME ~Overlap, TypeInv, FileInv, [Next]_vars
  PROVE  AtomicStep
<1>0. /\ TypeOK /\ (\A u \in Upload : LinkOK(u)) /\ None \notin Upload
      /\ Sole /\ Apart /\ (\A u \in Upload : Editing(u)) /\ Durable
  BY StorageUploadAssumption DEF TypeInv, FileInv
<1> USE DEF Go
<1>1. ASSUME UNCHANGED diskVars PROVE \A n \in Name : Disk(n)' = Disk(n)
  BY <1>1 DEF Disk, diskVars
<1>2. ASSUME NEW u \in Upload, NEW n \in Name, NEW k \in Kinds, Begin(u, n, k)
      PROVE  AtomicStep
  <2>1. UNCHANGED diskVars /\ pc[u] = "idle" /\ pc' = [pc EXCEPT ![u] = "put"]
    BY <1>2 DEF Begin
  <2> QED BY <1>0, <1>1, <2>1, StepOfOne DEF Outcome, Ended, TypeOK
<1>3. ASSUME NEW u \in Upload,
             Put(u) \/ Refuse(u) \/ Abandon(u) \/ Cleanup(u) \/ Prepare(u) \/ SignFail(u)
               \/ Publish(u) \/ (SaveFail(u) /\ UNCHANGED diskVars)
      PROVE  AtomicStep
  <2>1. UNCHANGED diskVars /\ \A v \in Upload \ {u} : pc'[v] = pc[v]
    BY <1>0, <1>3
       DEF Put, Cleanup, Refuse, Abandon, PutOk, PutError, PutTimeout, PutFail, EncryptFail,
           Written, Prepare, SignFail, SaveFail, Publish, Undo, Delete, DeleteFail, Failed, TypeOK
  <2>2. \/ Outcome(u)' = Outcome(u)
        \/ Outcome(u) = "open" /\ Outcome(u)' = "aborted"
    BY <1>0, <1>3
       DEF Put, Cleanup, Refuse, Abandon, PutOk, PutError, PutTimeout, PutFail, EncryptFail,
           Written, Prepare, SignFail, SaveFail, Publish, Undo, Delete, DeleteFail, Failed, TypeOK,
           Outcome, Ended
  <2> QED BY <1>1, <2>1, <2>2, StepOfOne DEF TypeInv
<1>4. ASSUME NEW u \in Upload, NEW i, NEW m, data' = [data EXCEPT ![i] = m], final' = final,
             \A n \in Name : final[n] # i,
             \/ pc[u] = "open" /\ pc' = [pc EXCEPT ![u] = "write"]
             \/ pc[u] = "write" /\ pc' = [pc EXCEPT ![u] = "rename"]
             \/ pc[u] = "write" /\ pc' = [pc EXCEPT ![u] = "clean"]
      PROVE  AtomicStep
  <2>1. \A n \in Name : Disk(n)' = Disk(n)
    BY <1>0, <1>4 DEF Disk, TypeOK
  <2>2. Outcome(u)' = Outcome(u) /\ \A v \in Upload \ {u} : pc'[v] = pc[v]
    BY <1>0, <1>4 DEF Outcome, Ended, TypeOK
  <2> QED BY <2>1, <2>2, StepOfOne
<1>5. ASSUME NEW u \in Upload, Open(u) PROVE AtomicStep
  <2>1. name[u] \in Name /\ pc[u] = "open"
    BY <1>0, <1>5 DEF Open, LinkOK
  <2>2. PICK i \in Upload : i = IF tmp[name[u]] = None THEN u ELSE tmp[name[u]]
    BY <1>0, <2>1 DEF TypeOK
  <2>3. \A n \in Name : final[n] # i
    BY <1>0, <2>1, <2>2 DEF Apart, Durable, Fresh, Early
  <2> QED BY <1>4, <1>5, <2>1, <2>2, <2>3 DEF Open
<1>6. ASSUME NEW u \in Upload, pc[u] = "write" PROVE \A n \in Name : final[n] # fd[u]
  BY <1>0, <1>6 DEF Editing, Apart, LinkOK
<1>7. ASSUME NEW u \in Upload, Write(u) PROVE AtomicStep
  BY <1>4, <1>6, <1>7 DEF Write
<1>8. ASSUME NEW u \in Upload, SaveFail(u), ~UNCHANGED diskVars PROVE AtomicStep
  BY <1>4, <1>6, <1>8 DEF SaveFail, Undo
<1>9. ASSUME NEW u \in Upload, Rename(u) PROVE AtomicStep
  <2>1. /\ name[u] \in Name /\ pc[u] = "rename" /\ pc' = [pc EXCEPT ![u] = "publish"]
        /\ tmp[name[u]] # None /\ final' = [final EXCEPT ![name[u]] = tmp[name[u]]]
        /\ data' = data
    BY <1>0, <1>9 DEF Rename, LinkOK
  <2>2. data[tmp[name[u]]].by = u
    <3>1. Editing(u) /\ Made(u).by = u
      BY <1>0 DEF Made
    <3> QED BY <2>1, <3>1 DEF Editing
  <2>3. File' = [File EXCEPT ![name[u]] = u]
    <3>1. Disk(name[u])'.by = u
      <4>1. name' = name
        BY <1>9 DEF Rename, callVars
      <4> QED BY <1>0, <2>1, <2>2, <4>1 DEF Disk, TypeOK
    <3>2. \A n \in Name \ {name[u]} : Disk(n)' = Disk(n)
      BY <1>0, <2>1 DEF Disk, TypeOK
    <3>3. name' = name
      BY <1>9 DEF Rename, callVars
    <3> QED BY <2>1, <3>1, <3>2, <3>3 DEF File
  <2>4. Out[u] = "open" /\ Out' = [Out EXCEPT ![u] = "committed"]
    BY <1>0, <2>1 DEF Out, Outcome, Ended, TypeOK
  <2>5. Atomic!Commit(u, name[u])
    BY <2>3, <2>4 DEF Atomic!Commit, File, Out
  <2> QED BY <2>1, <2>5 DEF AtomicStep, Atomic!AtomicNext
<1>10. ASSUME UNCHANGED <<diskVars, pc>> PROVE AtomicStep
  <2>1. File' = File /\ Out' = Out
    BY <1>1, <1>10 DEF File, Out, Outcome
  <2> QED BY <2>1 DEF AtomicStep
<1>11. CASE CrashRestart
  <2> DEFINE S == {u \in Upload : Outcome(u) = "open" /\ Active(u)}
  <2>1. /\ pc' = [u \in Upload |-> IF ~Active(u) THEN pc[u]
                                  ELSE IF pc[u] = "publish" THEN "kept" ELSE "lost"]
        /\ File' = File
    BY <1>1, <1>11 DEF CrashRestart, File
  <2>2. \A u \in Upload : Outcome(u)' = IF u \in S THEN "aborted" ELSE Outcome(u)
    BY <2>1 DEF Outcome, Active, Ended
  <2>3. Atomic!Abort(S)
    BY <2>1, <2>2 DEF Atomic!Abort, File, Out
  <2> QED BY <2>3 DEF AtomicStep, Atomic!AtomicNext
<1> QED
  BY <1>2, <1>3, <1>5, <1>7, <1>8, <1>9, <1>10, <1>11
     DEF Next, Persist, LateWrite, Reload, Reloaded, vars

\* "Atomic upload": the uploads implement AtomicUpload, whatever fails or crashes,
\* as long as callers do not upload one name twice at the same time.
THEOREM UploadImplementsAtomic == ~Overlap => (Spec => AtomicSpec)
<1> SUFFICES ASSUME ~Overlap PROVE Spec => AtomicSpec
  OBVIOUS
<1> DEFINE Inv == TypeInv /\ FileInv
<1>1. Init => Inv
  BY TypeInit, FileInit
<1>2. Inv /\ [Next]_vars => Inv'
  BY TypeStep, FileStep
<1>3. Init => Atomic!AtomicInit
  BY RefineInit
<1>4. Inv /\ [Next]_vars => [Atomic!AtomicNext]_Atomic!uploadVars
  BY RefineStep DEF AtomicStep, Atomic!uploadVars, File, Out
<1> QED BY <1>1, <1>2, <1>3, <1>4, PTL DEF Spec, AtomicSpec, Atomic!AtomicSpec
-----------------------------------------------------------------------------
(* The cleanup, when every backend takes a context.                        *)

\* Shards are written in order; the cleanup has deleted or registered those it
\* passed, and at its end the one whose write failed.
CleanedUp(u) ==
  /\ \A i \in 1..LastShard : <<u, i>> \in stored => i <= at[u]
  /\ pc[u] \in {"clean", "failed"} /\ record[u] =>
       \A i \in 1..LastShard : i <= cleaned[u] /\ <<u, i>> \in stored => <<u, i>> \in orphans
  /\ pc[u] = "failed" =>
       /\ cleaned[u] + 1 = at[u]
       /\ record[u] /\ at[u] <= LastShard => <<u, at[u]>> \in orphans

CleanInv == (\A s \in Shard : late[s] = 0) /\ \A u \in Upload : CleanedUp(u)

\* Nothing is stored at first.
LEMMA CleanInit == Init => CleanInv
BY DEF Init, CleanInv, CleanedUp

\* Without late writes every step keeps the cleanup's account.
LEMMA CleanStep ==
  ASSUME ~LateWrites, TypeInv, CleanInv, [Next]_vars
  PROVE  CleanInv'
<1>0. /\ TypeOK /\ (\A v \in Upload : LinkOK(v)) /\ LastShard \in Nat \ {0}
      /\ (\A s \in Shard : late[s] = 0) /\ \A v \in Upload : CleanedUp(v)
  BY LastNat DEF TypeInv, CleanInv
<1>1. \A s \in Shard : ~LateWrite(s)
  BY <1>0 DEF LateWrite
<1>2. \A s \in Shard : late'[s] = 0
  BY <1>0, <1>1
     DEF Next, Begin, Refuse, Put, Abandon, Persist, Cleanup, PutOk, PutError, PutTimeout, PutFail,
         EncryptFail, Written, Prepare, SignFail, SaveFail, Open, Write, Rename, Publish, Delete,
         DeleteFail, Failed, Undo, Reload, Reloaded, CrashRestart, vars, shardVars
<1> SUFFICES ASSUME NEW u \in Upload PROVE CleanedUp(u)'
  BY <1>2 DEF CleanInv
<1>3. ASSUME \/ pc'[u] = pc[u] /\ record'[u] = record[u]
             \/ pc'[u] \notin {"clean", "failed"}
             \/ pc'[u] = "clean" /\ cleaned[u] = 0,
             at' = at, cleaned' = cleaned, orphans \subseteq orphans',
             \A i \in 1..LastShard : <<u, i>> \in stored' => <<u, i>> \in stored
      PROVE  CleanedUp(u)'
  <2>1. CleanedUp(u) /\ cleaned[u] \in Nat /\ at[u] \in Nat
    BY <1>0 DEF TypeOK
  <2> QED BY <1>3, <2>1 DEF CleanedUp
<1> USE DEF Go
<1>4. ASSUME NEW v \in Upload, PutOk(v) \/ PutError(v) PROVE CleanedUp(u)'
  <2>1. /\ pc[v] = "put" /\ UNCHANGED <<pc, cleaned, record, orphans>>
        /\ stored' \subseteq stored \cup {<<v, at[v]>>}
        /\ at'[u] = at[u] \/ (u = v /\ at'[u] = at[u] + 1)
    BY <1>0, <1>4 DEF PutOk, PutError, Writing, TypeOK
  <2>2. CleanedUp(u) /\ at[u] \in Nat
    BY <1>0 DEF TypeOK
  <2> QED BY <2>1, <2>2 DEF CleanedUp
<1>5. ASSUME NEW v \in Upload,
             PutFail(v) \/ EncryptFail(v) \/ SignFail(v) \/ SaveFail(v)
      PROVE  CleanedUp(u)'
  <2>1. pc[v] # "clean" /\ pc[v] # "failed" /\ pc[v] # "lost"
    BY <1>5 DEF PutFail, EncryptFail, SignFail, SaveFail, Undo
  <2>2. cleaned[v] = 0
    BY <1>0, <2>1 DEF LinkOK
  <2> QED BY <1>0, <1>3, <1>5, <2>2
          DEF PutFail, EncryptFail, SignFail, SaveFail, Undo, TypeOK, shardVars
<1>6. ASSUME NEW v \in Upload,
             Refuse(v) \/ Abandon(v) \/ Written(v) \/ PutTimeout(v) \/ Prepare(v) \/ Open(v)
               \/ Write(v) \/ Rename(v) \/ Publish(v)
               \/ \E n \in Name, k \in Kinds : Begin(v, n, k)
      PROVE  CleanedUp(u)'
  BY <1>0, <1>3, <1>6
     DEF Refuse, Abandon, Written, PutTimeout, Prepare, Open, Write, Rename, Publish, Begin, TypeOK,
         shardVars
<1>7. ASSUME NEW v \in Upload, Delete(v) PROVE CleanedUp(u)'
  <2>1. /\ pc[v] = "clean" /\ cleaned[v] + 1 < at[v]
        /\ UNCHANGED <<pc, at, record, orphans>>
        /\ stored' = stored \ {<<v, cleaned[v] + 1>>}
        /\ cleaned'[u] = cleaned[u] \/ (u = v /\ cleaned'[u] = cleaned[u] + 1)
    BY <1>0, <1>7 DEF Delete, Cleaning, TypeOK
  <2>2. CleanedUp(u) /\ cleaned[u] \in Nat
    BY <1>0 DEF TypeOK
  <2> QED BY <2>1, <2>2 DEF CleanedUp
<1>8. ASSUME NEW v \in Upload, DeleteFail(v) PROVE CleanedUp(u)'
  <2>1. /\ pc[v] = "clean" /\ cleaned[v] + 1 < at[v]
        /\ UNCHANGED <<pc, at, record, stored>>
        /\ orphans \subseteq orphans'
        /\ record[v] => <<v, cleaned[v] + 1>> \in orphans'
        /\ cleaned'[u] = cleaned[u] \/ (u = v /\ cleaned'[u] = cleaned[u] + 1)
    BY <1>0, <1>8 DEF DeleteFail, Cleaning, TypeOK
  <2>2. CleanedUp(u) /\ cleaned[u] \in Nat
    BY <1>0 DEF TypeOK
  <2> QED BY <2>1, <2>2 DEF CleanedUp
<1>9. ASSUME NEW v \in Upload, Failed(v) PROVE CleanedUp(u)'
  <2>1. /\ pc[v] = "clean" /\ cleaned[v] + 1 = at[v]
        /\ UNCHANGED <<at, record, stored, cleaned>>
        /\ orphans \subseteq orphans'
        /\ record[v] /\ at[v] <= LastShard => <<v, at[v]>> \in orphans'
        /\ pc'[u] = pc[u] \/ (u = v /\ pc'[u] = "failed")
    BY <1>0, <1>9 DEF Failed, TypeOK
  <2>2. CleanedUp(u) /\ cleaned[u] \in Nat /\ at[u] \in Nat
    BY <1>0 DEF TypeOK
  <2> QED BY <2>1, <2>2 DEF CleanedUp
<1>10. ASSUME \/ \E r \in Reader, n \in Name : Reload(r, n)
              \/ \E r \in Reader : Reloaded(r)
              \/ UNCHANGED vars
       PROVE  CleanedUp(u)'
  BY <1>3, <1>10 DEF Reload, Reloaded, vars, shardVars
<1>11. CASE CrashRestart
  BY <1>3, <1>11 DEF CrashRestart, Active, Ended
<1> QED
  BY <1>1, <1>4, <1>5, <1>6, <1>7, <1>8, <1>9, <1>10, <1>11 DEF Next, Put, Persist, Cleanup

\* "Orphan recording on cleanup": once the cleanup of a failed write or save is
\* over, every shard of the upload still on a backend is registered, when no
\* backend can complete a write after its timeout; uploads may overlap.
THEOREM UploadCleanupRecorded == ~LateWrites => (Spec => []CleanupRecorded)
<1> SUFFICES ASSUME ~LateWrites PROVE Spec => []CleanupRecorded
  OBVIOUS
<1> DEFINE Inv == TypeInv /\ CleanInv
<1>1. Init => Inv
  BY TypeInit, CleanInit
<1>2. Inv /\ [Next]_vars => Inv'
  BY TypeStep, CleanStep
<1>3. Inv => CleanupRecorded
  <2> SUFFICES ASSUME TypeInv, CleanInv, NEW u \in Upload, pc[u] = "failed", record[u],
                      NEW i \in 1..LastShard, <<u, i>> \in stored
               PROVE  <<u, i>> \in orphans
    BY DEF CleanupRecorded
  <2>1. CleanedUp(u) /\ at[u] \in Nat /\ cleaned[u] \in Nat /\ i \in Nat /\ LastShard \in Nat
    BY LastNat DEF CleanInv, TypeInv, TypeOK
  <2>2. i <= cleaned[u] \/ i = at[u]
    BY <2>1 DEF CleanedUp
  <2> QED BY <2>1, <2>2 DEF CleanedUp
<1> QED BY <1>1, <1>2, <1>3, PTL DEF Spec
-----------------------------------------------------------------------------
(* The versions of the durable manifests, and the manifests in memory.     *)

\* Only a rename changes what the store returns.
LEMMA DiskStays ==
  ASSUME TypeInv, FileInv, [Next]_vars, \A u \in Upload : ~Rename(u)
  PROVE  \A n \in Name : Disk(n)' = Disk(n)
<1>0. /\ TypeOK /\ (\A u \in Upload : LinkOK(u)) /\ None \notin Upload
      /\ Apart /\ (\A u \in Upload : Editing(u)) /\ Durable
  BY StorageUploadAssumption DEF TypeInv, FileInv
<1>1. ASSUME UNCHANGED diskVars PROVE \A n \in Name : Disk(n)' = Disk(n)
  BY <1>1 DEF Disk, diskVars
<1>2. ASSUME NEW i, NEW m, data' = [data EXCEPT ![i] = m], final' = final,
             \A n \in Name : final[n] # i
      PROVE  \A n \in Name : Disk(n)' = Disk(n)
  BY <1>0, <1>2 DEF Disk, TypeOK
<1>3. ASSUME NEW u \in Upload, Open(u) PROVE \A n \in Name : Disk(n)' = Disk(n)
  <2>1. name[u] \in Name /\ pc[u] = "open"
    BY <1>0, <1>3 DEF Open, LinkOK, Go
  <2>2. PICK i \in Upload : i = IF tmp[name[u]] = None THEN u ELSE tmp[name[u]]
    BY <1>0, <2>1 DEF TypeOK
  <2>3. \A n \in Name : final[n] # i
    BY <1>0, <2>1, <2>2 DEF Apart, Durable, Fresh, Early
  <2>4. data' = [data EXCEPT ![i] = NoManifest] /\ final' = final
    BY <1>3, <2>2 DEF Open
  <2> QED BY <1>2, <2>3, <2>4
<1>4. ASSUME NEW u \in Upload, pc[u] = "write" PROVE \A n \in Name : final[n] # fd[u]
  BY <1>0, <1>4 DEF Editing, Apart, LinkOK
<1>5. ASSUME NEW u \in Upload, Write(u) PROVE \A n \in Name : Disk(n)' = Disk(n)
  BY <1>2, <1>4, <1>5 DEF Write, Go
<1>6. ASSUME NEW u \in Upload, SaveFail(u) PROVE \A n \in Name : Disk(n)' = Disk(n)
  BY <1>1, <1>2, <1>4, <1>6 DEF SaveFail, Undo, Go
<1>7. ASSUME NEW u \in Upload, Prepare(u) \/ SignFail(u) \/ Publish(u)
      PROVE  UNCHANGED diskVars
  BY <1>7 DEF Prepare, SignFail, Publish
<1>8. ASSUME NEW u \in Upload, Refuse(u) \/ Put(u) \/ Abandon(u) \/ Cleanup(u)
      PROVE  UNCHANGED diskVars
  BY <1>8
     DEF Refuse, Put, Abandon, Cleanup, PutOk, PutError, PutTimeout, PutFail, EncryptFail, Written,
         Delete, DeleteFail, Failed
<1>9. ASSUME \/ \E u \in Upload, n \in Name, k \in Kinds : Begin(u, n, k)
             \/ \E s \in Shard : LateWrite(s)
             \/ \E r \in Reader, n \in Name : Reload(r, n)
             \/ \E r \in Reader : Reloaded(r)
             \/ CrashRestart
             \/ UNCHANGED vars
      PROVE  UNCHANGED diskVars
  BY <1>9 DEF Begin, LateWrite, Reload, Reloaded, CrashRestart, vars
<1> QED BY <1>1, <1>3, <1>5, <1>6, <1>7, <1>8, <1>9 DEF Next, Persist

\* What a rename makes of the store: the file has the manifest of the upload.
LEMMA RenamedDisk ==
  ASSUME TypeInv, FileInv, NEW u \in Upload, Rename(u)
  PROVE  /\ name[u] \in Name
         /\ Disk(name[u])' = Made(u)
         /\ \A n \in Name \ {name[u]} : Disk(n)' = Disk(n)
<1>0. /\ TypeOK /\ LinkOK(u) /\ None \notin Upload /\ Editing(u)
  BY StorageUploadAssumption DEF TypeInv, FileInv
<1>1. /\ name[u] \in Name /\ pc[u] = "rename" /\ name' = name /\ data' = data
      /\ tmp[name[u]] # None /\ final' = [final EXCEPT ![name[u]] = tmp[name[u]]]
  BY <1>0 DEF Rename, LinkOK, Go, callVars
<1>2. tmp[name[u]] \in Upload /\ data[tmp[name[u]]] = Made(u) /\ Made(u).by = u
  BY <1>0, <1>1 DEF Editing, Made
<1>3. final'[name[u]] = tmp[name[u]] /\ \A n \in Name \ {name[u]} : final'[n] = final[n]
  BY <1>0, <1>1 DEF TypeOK
<1>4. Disk(name[u])' = Made(u)
  BY <1>0, <1>1, <1>2, <1>3 DEF Disk
<1>5. \A n \in Name \ {name[u]} : Disk(n)' = Disk(n)
  BY <1>1, <1>3 DEF Disk
<1> QED BY <1>1, <1>4, <1>5

\* An upload that is saving has the version after the durable one; one that has
\* saved is the durable one.
VersionOK(u) ==
  /\ pc[u] \in {"open", "write", "rename"} /\ kind[u] = "placed" =>
       ver[u] = Disk(name[u]).ver + 1
  /\ pc[u] = "publish" => Disk(name[u]) = Made(u)

\* Every step keeps the versions.
LEMMA VersionStep ==
  ASSUME TypeInv, FileInv, [Next]_vars, \A u \in Upload : VersionOK(u)
  PROVE  \A u \in Upload : VersionOK(u)'
<1>0. TypeOK /\ (\A u \in Upload : LinkOK(u)) /\ Sole
  BY DEF TypeInv, FileInv
<1> USE DEF Go
<1>1. ASSUME NEW u \in Upload, Rename(u) PROVE \A v \in Upload : VersionOK(v)'
  <2>1. /\ pc[u] = "rename" /\ pc' = [pc EXCEPT ![u] = "publish"]
        /\ UNCHANGED <<name, kind, ver>>
    BY <1>1 DEF Rename, callVars
  <2>2. VersionOK(u)'
    BY <1>0, <1>1, <2>1, RenamedDisk DEF VersionOK, Made, TypeOK
  <2>3. ASSUME NEW v \in Upload \ {u} PROVE VersionOK(v)'
    <3>1. pc'[v] = pc[v] /\ VersionOK(v)
      BY <1>0, <2>1 DEF TypeOK
    <3>2. CASE pc[v] \in {"open", "write", "rename", "publish"}
      <4>1. name[v] # name[u] /\ name[v] \in Name
        BY <1>0, <2>1, <3>2 DEF Sole, Active, Ended, LinkOK
      <4>2. Disk(name[v])' = Disk(name[v])
        BY <1>1, <2>1, <4>1, RenamedDisk
      <4> QED BY <2>1, <3>1, <4>2 DEF VersionOK, Made
    <3>3. CASE pc[v] \notin {"open", "write", "rename", "publish"}
      BY <3>1, <3>3 DEF VersionOK
    <3> QED BY <3>2, <3>3
  <2> QED BY <2>2, <2>3
<1>2. ASSUME \A u \in Upload : ~Rename(u), NEW v \in Upload,
             \/ pc'[v] \notin {"open", "write", "rename", "publish"}
             \/ /\ pc[v] \in {"open", "write", "rename", "publish"}
                /\ pc[v] # "publish" <=> pc'[v] # "publish"
                /\ name'[v] = name[v] /\ kind'[v] = kind[v] /\ ver'[v] = ver[v]
      PROVE  VersionOK(v)'
  <2>1. CASE pc'[v] \notin {"open", "write", "rename", "publish"}
    BY <2>1 DEF VersionOK
  <2>2. CASE /\ pc[v] \in {"open", "write", "rename", "publish"}
             /\ pc[v] # "publish" <=> pc'[v] # "publish"
             /\ name'[v] = name[v] /\ kind'[v] = kind[v] /\ ver'[v] = ver[v]
    <3>1. name[v] \in Name /\ VersionOK(v)
      BY <1>0, <2>2 DEF LinkOK
    <3>2. PICK n \in Name : n = name[v] /\ n = name'[v]
      BY <2>2, <3>1
    <3>3. Disk(n)' = Disk(n)
      BY <1>2, DiskStays
    <3>4. Disk(name[v])' = Disk(name[v])
      BY <3>2, <3>3 DEF Disk
    <3> QED BY <2>2, <3>1, <3>4 DEF VersionOK, Made
  <2> QED BY <1>2, <2>1, <2>2
<1>3. ASSUME NEW u \in Upload, Prepare(u), NEW v \in Upload PROVE VersionOK(v)'
  <2>1. /\ pc[u] = "prepare" /\ pc' = [pc EXCEPT ![u] = "open"]
        /\ ver' = [ver EXCEPT ![u] = NextVersion(u)]
        /\ UNCHANGED <<name, kind>> /\ UNCHANGED diskVars
    BY <1>3 DEF Prepare, callVars
  <2>2. \A w \in Upload : Disk(name[w])' = Disk(name[w])
    BY <2>1 DEF Disk, diskVars
  <2>3. CASE v = u
    BY <1>0, <2>1, <2>2, <2>3 DEF VersionOK, NextVersion, TypeOK
  <2>4. CASE v # u
    BY <1>0, <2>1, <2>2, <2>4 DEF VersionOK, Made, TypeOK
  <2> QED BY <2>3, <2>4
<1>4. ASSUME \A u \in Upload : ~Rename(u), \A u \in Upload : ~Prepare(u), NEW v \in Upload
      PROVE  \/ pc'[v] \notin {"open", "write", "rename", "publish"}
             \/ /\ pc[v] \in {"open", "write", "rename", "publish"}
                /\ pc[v] # "publish" <=> pc'[v] # "publish"
                /\ name'[v] = name[v] /\ kind'[v] = kind[v] /\ ver'[v] = ver[v]
  <2>1. ASSUME NEW u \in Upload,
               Refuse(u) \/ Put(u) \/ Abandon(u) \/ Persist(u) \/ Cleanup(u)
        PROVE  /\ name' = name /\ kind' = kind /\ ver' = ver
               /\ \/ pc' = pc
                  \/ /\ pc' = [pc EXCEPT ![u] = pc'[u]]
                     /\ \/ pc'[u] \notin {"open", "write", "rename", "publish"}
                        \/ pc[u] = "open" /\ pc'[u] = "write"
                        \/ pc[u] = "write" /\ pc'[u] = "rename"
    BY <1>0, <1>4, <2>1
       DEF Refuse, Put, Abandon, Persist, Cleanup, PutOk, PutError, PutTimeout, PutFail,
           EncryptFail, Written, SignFail, SaveFail, Open, Write, Publish, Delete, DeleteFail,
           Failed, Undo, TypeOK, callVars
  <2>2. ASSUME NEW u \in Upload, NEW n \in Name, NEW k \in Kinds, Begin(u, n, k)
        PROVE  /\ pc' = [pc EXCEPT ![u] = "put"] /\ ver' = ver
               /\ name' = [name EXCEPT ![u] = n] /\ kind' = [kind EXCEPT ![u] = k]
    BY <2>2 DEF Begin
  <2>3. ASSUME \/ \E s \in Shard : LateWrite(s)
               \/ \E r \in Reader, n \in Name : Reload(r, n)
               \/ \E r \in Reader : Reloaded(r)
               \/ UNCHANGED vars
        PROVE  pc' = pc /\ name' = name /\ kind' = kind /\ ver' = ver
    BY <2>3 DEF LateWrite, Reload, Reloaded, vars, callVars
  <2>4. CASE CrashRestart
    BY <1>0, <2>4 DEF CrashRestart, Active, Ended, callVars
  <2>5. CASE \E u \in Upload : Refuse(u) \/ Put(u) \/ Abandon(u) \/ Persist(u) \/ Cleanup(u)
    <3>1. PICK u \in Upload : Refuse(u) \/ Put(u) \/ Abandon(u) \/ Persist(u) \/ Cleanup(u)
      BY <2>5
    <3>2. CASE v = u
      BY <1>0, <2>1, <3>1, <3>2 DEF TypeOK
    <3>3. CASE v # u
      BY <1>0, <2>1, <3>1, <3>3 DEF TypeOK
    <3> QED BY <3>2, <3>3
  <2>6. CASE \E u \in Upload, n \in Name, k \in Kinds : Begin(u, n, k)
    <3>1. PICK u \in Upload, n \in Name, k \in Kinds : Begin(u, n, k)
      BY <2>6
    <3> QED BY <1>0, <2>2, <3>1 DEF TypeOK
  <2>7. CASE \/ \E s \in Shard : LateWrite(s)
             \/ \E r \in Reader, n \in Name : Reload(r, n)
             \/ \E r \in Reader : Reloaded(r)
             \/ UNCHANGED vars
    BY <2>3, <2>7
  <2> QED BY <2>4, <2>5, <2>6, <2>7 DEF Next
<1>5. CASE \E u \in Upload : Rename(u)
  BY <1>1, <1>5
<1>6. CASE \E u \in Upload : Prepare(u)
  BY <1>3, <1>6
<1> QED BY <1>2, <1>4, <1>5, <1>6

\* "If manifest exists increment version", for any number of uploads and files,
\* whatever fails or crashes, as long as callers do not upload one name twice at
\* the same time.
THEOREM UploadVersionsGrow == ~Overlap => (Spec => VersionsGrow)
<1> SUFFICES ASSUME ~Overlap PROVE Spec => VersionsGrow
  OBVIOUS
<1> DEFINE Inv == TypeInv /\ FileInv /\ \A u \in Upload : VersionOK(u)
<1>1. Init => Inv
  BY TypeInit, FileInit DEF Init, VersionOK
<1>2. Inv /\ [Next]_vars => Inv'
  BY TypeStep, FileStep, VersionStep
<1>3. Inv /\ [Next]_vars =>
        [\A n \in Name : Disk(n)' # Disk(n) /\ kind[Disk(n)'.by] = "placed" =>
           Disk(n)'.ver = Disk(n).ver + 1]_vars
  <2> SUFFICES ASSUME Inv, [Next]_vars, NEW n \in Name, Disk(n)' # Disk(n),
                      kind[Disk(n)'.by] = "placed"
               PROVE  Disk(n)'.ver = Disk(n).ver + 1
    OBVIOUS
  <2>1. PICK u \in Upload : Rename(u)
    BY DiskStays
  <2>2. n = name[u] /\ Disk(n)' = Made(u) /\ pc[u] = "rename"
    <3>1. name' = name
      BY <2>1 DEF Rename, callVars
    <3>2. n = name[u]
      BY <2>1, RenamedDisk
    <3>3. Disk(name[u])' = Disk(n)'
      BY <3>1, <3>2 DEF Disk
    <3> QED BY <2>1, <3>2, <3>3, RenamedDisk DEF Rename, Go
  <2>3. VersionOK(u) /\ Made(u).by = u /\ Made(u).ver = ver[u]
    BY DEF Made
  <2>4. kind[u] = "placed"
    BY <2>2, <2>3
  <2> QED BY <2>2, <2>3, <2>4 DEF VersionOK
<1> QED BY <1>1, <1>2, <1>3, PTL DEF Spec, VersionsGrow

\* A file nobody is about to publish is in memory as in the store.
MemoryOK ==
  \A n \in Name : (\A u \in Upload : name[u] = n => pc[u] # "publish") => mem[n] = Disk(n)

\* Every step keeps memory and store in agreement when nothing reloads.
LEMMA MemoryStep ==
  ASSUME Reader = {}, TypeInv, FileInv, FileInv', \A u \in Upload : VersionOK(u), MemoryOK,
         [Next]_vars
  PROVE  MemoryOK'
<1>0. TypeOK /\ (\A u \in Upload : LinkOK(u)) /\ Sole
  BY DEF TypeInv, FileInv
<1> USE DEF Go
<1> SUFFICES ASSUME NEW n \in Name, \A u \in Upload : name'[u] = n => pc'[u] # "publish"
             PROVE  mem'[n] = Disk(n)'
  BY DEF MemoryOK
<1>1. ASSUME NEW u \in Upload, Rename(u) PROVE mem'[n] = Disk(n)'
  <2>1. /\ pc[u] = "rename" /\ pc' = [pc EXCEPT ![u] = "publish"]
        /\ UNCHANGED <<name, mem>>
    BY <1>1 DEF Rename, callVars
  <2>2. n # name[u] /\ \A v \in Upload : name[v] = n => pc[v] # "publish"
    BY <1>0, <2>1 DEF TypeOK
  <2>3. Disk(n)' = Disk(n)
    BY <1>1, <2>2, RenamedDisk
  <2> QED BY <2>1, <2>2, <2>3 DEF MemoryOK
<1>2. ASSUME NEW u \in Upload, Publish(u) PROVE mem'[n] = Disk(n)'
  <2>1. /\ pc[u] = "publish" /\ pc' = [pc EXCEPT ![u] = "ok"]
        /\ mem' = [mem EXCEPT ![name[u]] = Made(u)] /\ name' = name /\ UNCHANGED diskVars
        /\ name[u] \in Name
    BY <1>0, <1>2 DEF Publish, callVars, LinkOK
  <2>2. Disk(n)' = Disk(n)
    BY <2>1 DEF Disk, diskVars
  <2>3. CASE n = name[u]
    BY <1>0, <2>1, <2>2, <2>3 DEF VersionOK, TypeOK
  <2>4. CASE n # name[u]
    <3>1. \A v \in Upload : name[v] = n => pc[v] # "publish"
      BY <1>0, <2>1, <2>4 DEF TypeOK
    <3> QED BY <1>0, <2>1, <2>2, <2>4, <3>1 DEF MemoryOK, TypeOK
  <2> QED BY <2>3, <2>4
<1>3. CASE CrashRestart
  BY <1>3 DEF CrashRestart, LoadAll, Disk, diskVars
<1>4. ASSUME \A u \in Upload : ~Rename(u), mem' = mem,
             \A u \in Upload : pc[u] = "publish" => pc'[u] = "publish" /\ name'[u] = name[u]
      PROVE  mem'[n] = Disk(n)'
  <2>1. \A u \in Upload : name[u] = n => pc[u] # "publish"
    BY <1>4
  <2> QED BY <1>4, <2>1, DiskStays DEF MemoryOK
<1>5. ASSUME \A u \in Upload : ~Rename(u) /\ ~Publish(u), ~CrashRestart
      PROVE  /\ mem' = mem
             /\ \A u \in Upload : pc[u] = "publish" => pc'[u] = "publish" /\ name'[u] = name[u]
  <2>1. ASSUME NEW u \in Upload,
               Refuse(u) \/ Put(u) \/ Abandon(u) \/ Persist(u) \/ Cleanup(u)
        PROVE  /\ mem' = mem /\ name' = name
               /\ pc' = pc \/ (pc[u] # "publish" /\ pc' = [pc EXCEPT ![u] = pc'[u]])
    BY <1>0, <1>5, <2>1
       DEF Refuse, Put, Abandon, Persist, Cleanup, PutOk, PutError, PutTimeout, PutFail,
           EncryptFail, Written, Prepare, SignFail, SaveFail, Open, Write, Delete, DeleteFail,
           Failed, Undo, TypeOK, callVars
  <2>2. ASSUME NEW u \in Upload, NEW m \in Name, NEW k \in Kinds, Begin(u, m, k)
        PROVE  /\ pc[u] = "idle" /\ pc' = [pc EXCEPT ![u] = "put"] /\ mem' = mem
               /\ name' = [name EXCEPT ![u] = m]
    BY <2>2 DEF Begin
  <2>3. ASSUME (\E s \in Shard : LateWrite(s)) \/ UNCHANGED vars
        PROVE  pc' = pc /\ name' = name /\ mem' = mem
    BY <2>3 DEF LateWrite, vars, callVars
  <2>4. CASE \E u \in Upload : Refuse(u) \/ Put(u) \/ Abandon(u) \/ Persist(u) \/ Cleanup(u)
    BY <1>0, <2>1, <2>4 DEF TypeOK
  <2>5. CASE \E u \in Upload, m \in Name, k \in Kinds : Begin(u, m, k)
    BY <1>0, <2>2, <2>5 DEF TypeOK
  <2> QED BY <1>5, <2>3, <2>4, <2>5 DEF Next
<1> QED BY <1>1, <1>2, <1>3, <1>4, <1>5

\* "When nobody is at work on a file, memory and store agree", for any number of
\* uploads, files and crashes, as long as callers do not upload one name twice at
\* the same time and nothing reloads a manifest beside them.
THEOREM UploadMemoryMatchesDisk == ~Overlap /\ Reader = {} => (Spec => []MemoryMatchesDisk)
<1> SUFFICES ASSUME ~Overlap, Reader = {} PROVE Spec => []MemoryMatchesDisk
  OBVIOUS
<1> DEFINE Inv == TypeInv /\ FileInv /\ (\A u \in Upload : VersionOK(u)) /\ MemoryOK
<1>1. Init => Inv
  BY TypeInit, FileInit DEF Init, VersionOK, MemoryOK, Disk
<1>2. Inv /\ [Next]_vars => Inv'
  BY TypeStep, FileStep, VersionStep, MemoryStep
<1>3. Inv => MemoryMatchesDisk
  BY DEF MemoryOK, MemoryMatchesDisk, Active, Ended
<1> QED BY <1>1, <1>2, <1>3, PTL DEF Spec
-----------------------------------------------------------------------------
(* The self-healing manager.                                               *)

Action == [by : HealCall, done : BOOLEAN, open : BOOLEAN]
Applying(c) == healPc[c] \in {"write", "rename"}

HealTypes ==
  /\ second \in 1..MaxSecond
  /\ failures \in Seq([node : FailNode, second : 1..MaxSecond]) /\ Len(failures) <= MaxFailure
  /\ incidents \in [FailNode \X (1..MaxSecond) -> 0..MaxFailure]
  /\ actions \in Seq(Action) /\ Len(actions) <= MaxAction
  /\ patches \in [Patch -> {"absent", "proposed", "applied"}]
  /\ patchTmp \in Patch \cup {"none"} /\ patchTarget \in Patch \cup {"none"}
  /\ patchesOverlap \in BOOLEAN
  /\ healPc \in [HealCall -> {"idle", "repair", "write", "rename", "shutdown"}]
  /\ healArg \in [HealCall -> Patch \cup {"none"}]

\* A call that applies a patch has one; unless two have overlapped it is alone,
\* and what it has written is its own.
PatchInv ==
  /\ \A c \in HealCall : Applying(c) => healArg[c] \in Patch
  /\ ~patchesOverlap =>
       /\ \A c, d \in HealCall : Applying(c) /\ Applying(d) => c = d
       /\ \A c \in HealCall : healPc[c] = "rename" => patchTmp = healArg[c]

HealInv == HealTypes /\ PatchInv /\ AppliedWasWritten

\* The manager starts in order.
LEMMA HealInitInv == HealInit => HealInv
<1> SUFFICES ASSUME HealInit PROVE HealInv
  OBVIOUS
<1>1. HealTypes
  <2>1. patchesOverlap \in BOOLEAN
    BY Zenon DEF HealInit
  <2>2. actions = <<>> /\ failures = <<>>
    BY DEF HealInit
  <2>3. actions \in Seq(Action) /\ Len(actions) <= MaxAction
    BY <2>2, RepairsAssumption
  <2>4. /\ failures \in Seq([node : FailNode, second : 1..MaxSecond])
        /\ Len(failures) <= MaxFailure
    BY <2>2, RepairsAssumption
  <2>5. incidents \in [FailNode \X (1..MaxSecond) -> 0..MaxFailure]
    BY RepairsAssumption DEF HealInit
  <2>6. second \in 1..MaxSecond
    BY RepairsAssumption DEF HealInit
  <2> QED BY <2>1, <2>3, <2>4, <2>5, <2>6 DEF HealInit, HealTypes
<1> QED BY <1>1 DEF HealInit, HealInv, PatchInv, Applying, AppliedWasWritten

\* Every step of the manager keeps its types.
LEMMA HealTypesStep ==
  ASSUME HealInv, [HealNext]_healVars
  PROVE  HealTypes'
<1>0. HealTypes /\ PatchInv
  BY DEF HealInv
<1> USE DEF HealGoto, HealEnter, HealReturn, healLog, healPatches, healStop
<1>1. CASE HealSecondPasses
  BY <1>0, <1>1, RepairsAssumption DEF HealSecondPasses, HealTypes
<1>2. ASSUME NEW n \in FailNode, ReportFailure(n) PROVE HealTypes'
  <2>1. Len(failures) + 1 \in 0..MaxFailure /\ <<n, second>> \in FailNode \X (1..MaxSecond)
    BY <1>0, <1>2, RepairsAssumption DEF ReportFailure, HealTypes
  <2>2. incidents' \in [FailNode \X (1..MaxSecond) -> 0..MaxFailure]
    BY <1>0, <1>2, <2>1 DEF ReportFailure, HealTypes
  <2>3. /\ failures' \in Seq([node : FailNode, second : 1..MaxSecond])
        /\ Len(failures') <= MaxFailure
    BY <1>0, <1>2, <2>1 DEF ReportFailure, HealTypes
  <2> QED BY <1>0, <1>2, <2>2, <2>3 DEF ReportFailure, HealTypes
<1>3. ASSUME NEW c \in HealCall, ApplyRepair(c) \/ PlaybookStep(c) PROVE HealTypes'
  <2>1. PICK a \in Action : actions' = Append(actions, a) /\ Len(actions) < MaxAction
    BY <1>3 DEF ApplyRepair, PlaybookStep, Action
  <2>2. actions' \in Seq(Action) /\ Len(actions') <= MaxAction
    BY <1>0, <2>1, RepairsAssumption DEF HealTypes
  <2> QED BY <1>0, <1>3, <2>2 DEF ApplyRepair, PlaybookStep, HealTypes
<1>4. ASSUME NEW c \in HealCall, NEW done \in BOOLEAN, EndRepair(c, done) PROVE HealTypes'
  <2>1. /\ actions \in Seq(Action) /\ Len(actions) \in Nat /\ DOMAIN actions = 1..Len(actions)
        /\ \A i \in 1..Len(actions) : actions[i] \in Action
    BY <1>0 DEF HealTypes
  <2>2. actions' = [i \in 1..Len(actions) |->
                      IF i \in OwnAction(c) THEN [actions[i] EXCEPT !.done = done, !.open = FALSE]
                      ELSE actions[i]]
    BY <1>4, <2>1, Zenon DEF EndRepair
  <2>3. \A i \in 1..Len(actions) : actions'[i] \in Action
    <3> SUFFICES ASSUME NEW i \in 1..Len(actions) PROVE actions'[i] \in Action
      OBVIOUS
    <3>1. PICK a \in Action : a = actions[i]
      BY <2>1
    <3>2. actions'[i] = a \/ actions'[i] = [a EXCEPT !.done = done, !.open = FALSE]
      BY <2>2, <3>1
    <3>3. [a EXCEPT !.done = done, !.open = FALSE] \in Action
      BY <3>1, Zenon DEF Action
    <3> QED BY <3>2, <3>3
  <2>4. actions' \in [1..Len(actions) -> Action]
    BY <2>2, <2>3
  <2>5. actions' \in Seq(Action) /\ Len(actions') = Len(actions)
    BY <2>1, <2>4
  <2> QED BY <1>0, <1>4, <2>5 DEF EndRepair, HealTypes
<1>5. ASSUME NEW p \in Patch, ProposePatch(p) PROVE HealTypes'
  BY <1>0, <1>5 DEF ProposePatch, HealTypes
<1>6. ASSUME NEW c \in HealCall, NEW p \in Patch, ApplyPatch(c, p) PROVE HealTypes'
  <2>1. patchesOverlap' \in BOOLEAN
    BY <1>6, Zenon DEF ApplyPatch
  <2> QED BY <1>0, <1>6, <2>1 DEF ApplyPatch, HealTypes
<1>7. ASSUME NEW c \in HealCall, WritePatch(c) \/ WritePatchFails(c) \/ RenamePatch(c)
      PROVE  HealTypes'
  <2>1. healArg[c] \in Patch
    BY <1>0, <1>7 DEF PatchInv, Applying, WritePatch, WritePatchFails, RenamePatch
  <2> QED BY <1>0, <1>7, <2>1 DEF WritePatch, WritePatchFails, RenamePatch, PatchesAtWrite, HealTypes
<1>8. ASSUME NEW c \in HealCall, Shutdown(c) \/ ShutdownEnds(c) PROVE HealTypes'
  BY <1>0, <1>8 DEF Shutdown, ShutdownEnds, HealTypes
<1>9. ASSUME \/ \E w \in cleaners : CleanerEnds(w)
             \/ UNCHANGED healVars
      PROVE  HealTypes'
  BY <1>0, <1>9 DEF CleanerEnds, healVars, HealTypes
<1> QED BY <1>1, <1>2, <1>3, <1>4, <1>5, <1>6, <1>7, <1>8, <1>9 DEF HealNext

\* Every step of the manager keeps the account of its patches.
LEMMA PatchStep ==
  ASSUME HealInv, [HealNext]_healVars
  PROVE  PatchInv' /\ AppliedWasWritten'
<1>0. HealTypes /\ PatchInv /\ AppliedWasWritten
  BY DEF HealInv
<1> USE DEF HealGoto, HealEnter, HealReturn, healLog, healPatches, healStop
<1>1. ASSUME UNCHANGED <<patchTmp, patchesOverlap>>,
             \A c \in HealCall : Applying(c)' =>
               Applying(c) /\ healPc'[c] = healPc[c] /\ healArg'[c] = healArg[c]
      PROVE  PatchInv'
  BY <1>0, <1>1 DEF PatchInv, Applying
<1>2. ASSUME UNCHANGED <<written, patchesOverlap>>,
             \A p \in Patch : patches'[p] = "applied" => patches[p] = "applied"
      PROVE  AppliedWasWritten'
  BY <1>0, <1>2 DEF AppliedWasWritten
<1>3. ASSUME \/ HealSecondPasses
             \/ \E n \in FailNode : ReportFailure(n)
             \/ \E p \in Patch : ProposePatch(p)
             \/ \E c \in HealCall, done \in BOOLEAN : EndRepair(c, done)
             \/ \E c \in HealCall :
                  ApplyRepair(c) \/ PlaybookStep(c) \/ WritePatchFails(c) \/ Shutdown(c)
                    \/ ShutdownEnds(c)
             \/ \E w \in cleaners : CleanerEnds(w)
             \/ UNCHANGED healVars
      PROVE  PatchInv' /\ AppliedWasWritten'
  <2>1. UNCHANGED <<patchTmp, patchesOverlap, written>>
    BY <1>3
       DEF HealSecondPasses, ReportFailure, ProposePatch, EndRepair, ApplyRepair, PlaybookStep,
           WritePatchFails, Shutdown, ShutdownEnds, CleanerEnds, healVars
  <2>2. \A p \in Patch : patches'[p] = "applied" => patches[p] = "applied"
    <3>1. patches' = patches \/ \E p \in Patch : patches' = [patches EXCEPT ![p] = "proposed"]
      BY <1>3
         DEF HealSecondPasses, ReportFailure, ProposePatch, EndRepair, ApplyRepair, PlaybookStep,
             WritePatchFails, Shutdown, ShutdownEnds, CleanerEnds, healVars
    <3> QED BY <1>0, <3>1 DEF HealTypes
  <2>3. \A c \in HealCall : Applying(c)' =>
          Applying(c) /\ healPc'[c] = healPc[c] /\ healArg'[c] = healArg[c]
    <3>1. \/ UNCHANGED <<healPc, healArg>>
          \/ \E c \in HealCall, p \in {"idle", "repair", "shutdown"} :
               healPc' = [healPc EXCEPT ![c] = p] /\ healArg' = [healArg EXCEPT ![c] = "none"]
      BY <1>3
         DEF HealSecondPasses, ReportFailure, ProposePatch, EndRepair, ApplyRepair, PlaybookStep,
             WritePatchFails, Shutdown, ShutdownEnds, CleanerEnds, healVars
    <3> QED BY <1>0, <3>1 DEF HealTypes, Applying
  <2> QED BY <1>1, <1>2, <2>1, <2>2, <2>3
<1>4. ASSUME NEW c \in HealCall, NEW p \in Patch, ApplyPatch(c, p)
      PROVE  PatchInv' /\ AppliedWasWritten'
  <2>1. /\ healPc' = [healPc EXCEPT ![c] = "write"] /\ healArg' = [healArg EXCEPT ![c] = p]
        /\ healPc[c] = "idle" /\ UNCHANGED <<patchTmp, patches, written>>
        /\ ~patchesOverlap' => ~patchesOverlap /\ \A d \in HealCall : ~Applying(d)
    BY <1>4 DEF ApplyPatch, Applying
  <2>2. AppliedWasWritten'
    BY <1>0, <2>1 DEF AppliedWasWritten
  <2>3. \A d \in HealCall : Applying(d)' => healArg'[d] \in Patch
    BY <1>0, <2>1 DEF PatchInv, Applying, HealTypes
  <2>4. ~patchesOverlap' => \A d \in HealCall : (Applying(d)' => d = c) /\ healPc'[d] # "rename"
    BY <1>0, <2>1 DEF Applying, HealTypes
  <2> QED BY <2>2, <2>3, <2>4 DEF PatchInv
<1>5. ASSUME NEW c \in HealCall, WritePatch(c) PROVE PatchInv' /\ AppliedWasWritten'
  <2>1. /\ healPc[c] = "write" /\ healPc' = [healPc EXCEPT ![c] = "rename"]
        /\ patchTmp' = healArg[c] /\ UNCHANGED <<healArg, patches, written, patchesOverlap>>
    BY <1>5 DEF WritePatch, PatchesAtWrite
  <2>2. \A d \in HealCall : Applying(d)' <=> Applying(d)
    BY <1>0, <2>1 DEF Applying, HealTypes
  <2>3. ASSUME ~patchesOverlap, NEW d \in HealCall, healPc'[d] = "rename"
        PROVE  patchTmp' = healArg[d]
    <3>1. Applying(c) /\ Applying(d)
      BY <2>1, <2>2, <2>3 DEF Applying
    <3>2. c = d
      BY <1>0, <2>3, <3>1 DEF PatchInv
    <3> QED BY <2>1, <3>2
  <2> QED BY <1>0, <1>2, <2>1, <2>2, <2>3 DEF PatchInv
<1>6. ASSUME NEW c \in HealCall, RenamePatch(c) PROVE PatchInv' /\ AppliedWasWritten'
  <2>1. /\ healPc[c] = "rename" /\ healPc' = [healPc EXCEPT ![c] = "idle"]
        /\ healArg' = [healArg EXCEPT ![c] = "none"] /\ patchesOverlap' = patchesOverlap
        /\ healArg[c] \in Patch
    BY <1>0, <1>6 DEF RenamePatch, PatchInv, Applying
  <2>2. \A d \in HealCall : Applying(d)' =>
          d # c /\ Applying(d) /\ healPc'[d] = healPc[d] /\ healArg'[d] = healArg[d]
    BY <1>0, <2>1 DEF Applying, HealTypes
  <2>3. ~patchesOverlap => patchTmp = healArg[c] /\ \A d \in HealCall : ~Applying(d)'
    BY <1>0, <2>1, <2>2 DEF PatchInv, Applying
  <2>4. PatchInv'
    BY <1>0, <2>1, <2>2, <2>3 DEF PatchInv, Applying
  <2>5. AppliedWasWritten'
    <3>1. CASE patchTmp = "none"
      BY <1>2, <1>6, <2>1, <3>1 DEF RenamePatch
    <3>2. CASE patchTmp # "none"
      <4>1. written' = written \cup {patchTmp} /\ patches' = [patches EXCEPT ![healArg[c]] = "applied"]
        BY <1>6, <3>2 DEF RenamePatch
      <4> QED BY <1>0, <2>1, <2>3, <4>1 DEF AppliedWasWritten, HealTypes
    <3> QED BY <3>1, <3>2
  <2> QED BY <2>4, <2>5
<1> QED BY <1>3, <1>4, <1>5, <1>6 DEF HealNext

\* A patch counts as applied only when it was the content of its file, unless two
\* applications have overlapped, for any number of callers and patches.
THEOREM AppliedWasWrittenAlways == HealSpec => []AppliedWasWritten
<1>1. HealInv /\ [HealNext]_healVars => HealInv'
  BY HealTypesStep, PatchStep DEF HealInv
<1>2. HealInv => AppliedWasWritten
  BY DEF HealInv
<1> QED BY HealInitInv, <1>1, <1>2, PTL DEF HealSpec
-----------------------------------------------------------------------------
(* The connector gateway.                                                  *)

GwTypes ==
  /\ connectors \in [Service -> {"absent", "generated", "registered"}]
  /\ failCount \in [Service -> 0..MaxFailures]
  /\ recoverCh \in Seq(Service) /\ Len(recoverCh) <= RecoverSize
  /\ gwHealing \in Service \cup {"none"}
  /\ gwPc \in [GwCall -> {"idle", "find", "generate", "dispatch", "count", "failover", "reset",
                          "answer"}]
  /\ gwArg \in [GwCall -> [service : Service \cup {"none"}, left : Seq(Service)]]
  /\ registeredSince \in [GwCall -> SUBSET Service]

\* A call on its way has a service; one that is about to generate an adapter found
\* none, and what has been registered since is noted.
GwPlaces ==
  \A c \in GwCall :
    /\ gwPc[c] \notin {"idle", "answer"} => gwArg[c].service \in Service
    /\ gwPc[c] = "generate" /\ connectors[gwArg[c].service] = "registered" =>
         gwArg[c].service \in registeredSince[c]

GwInv == GwTypes /\ GwPlaces

\* The gateway starts in order.
LEMMA GwInitInv == GwInit => GwInv
BY GatewayAssumption DEF GwInit, GwInv, GwTypes, GwPlaces

\* A call that gets another variable has its types.
LEMMA GwArgStep ==
  ASSUME GwTypes, NEW c \in GwCall, NEW s \in Service \cup {"none"}, NEW q \in Seq(Service),
         gwArg' = [gwArg EXCEPT ![c] = [service |-> s, left |-> q]]
  PROVE  /\ gwArg' \in [GwCall -> [service : Service \cup {"none"}, left : Seq(Service)]]
         /\ gwArg'[c].service = s
         /\ \A d \in GwCall \ {c} : gwArg'[d] = gwArg[d]
<1>1. [service |-> s, left |-> q] \in [service : Service \cup {"none"}, left : Seq(Service)]
  OBVIOUS
<1>2. gwArg \in [GwCall -> [service : Service \cup {"none"}, left : Seq(Service)]]
  BY DEF GwTypes
<1>3. gwArg' \in [GwCall -> [service : Service \cup {"none"}, left : Seq(Service)]]
  BY <1>1, <1>2, Zenon
<1>4. gwArg'[c] = [service |-> s, left |-> q] /\ \A d \in GwCall \ {c} : gwArg'[d] = gwArg[d]
  BY <1>2, Zenon
<1> QED BY <1>3, <1>4

\* A call that has other alternatives left keeps its service.
LEMMA GwLeftStep ==
  ASSUME GwTypes, NEW c \in GwCall, NEW q \in Seq(Service),
         gwArg' = [gwArg EXCEPT ![c].left = q]
  PROVE  /\ gwArg' \in [GwCall -> [service : Service \cup {"none"}, left : Seq(Service)]]
         /\ \A d \in GwCall : gwArg'[d].service = gwArg[d].service
<1>1. PICK s \in Service \cup {"none"}, l \in Seq(Service) : gwArg[c] = [service |-> s, left |-> l]
  BY DEF GwTypes
<1>2. [gwArg[c] EXCEPT !.left = q] = [service |-> s, left |-> q]
  BY <1>1
<1>3. gwArg' = [gwArg EXCEPT ![c] = [service |-> s, left |-> q]]
  BY <1>2
<1>4. gwArg[c].service = s
  BY <1>1
<1>5. /\ gwArg' \in [GwCall -> [service : Service \cup {"none"}, left : Seq(Service)]]
      /\ gwArg'[c].service = s
      /\ \A d \in GwCall \ {c} : gwArg'[d] = gwArg[d]
  BY <1>3, GwArgStep
<1> QED BY <1>4, <1>5

\* No alternatives are a sequence of services.
LEMMA NoneLeft == <<>> \in Seq(Service)
OBVIOUS

\* A step of one call keeps the places when it keeps its service, and finds no
\* connector before it generates an adapter.
LEMMA GwPlacesStep ==
  ASSUME GwTypes, GwPlaces, NEW c \in GwCall, NEW p, gwPc' = [gwPc EXCEPT ![c] = p],
         UNCHANGED <<connectors, registeredSince>>,
         \A d \in GwCall : gwArg'[d].service = gwArg[d].service,
         p # "answer" => gwPc[c] \notin {"idle", "answer"},
         p = "generate" => connectors[gwArg[c].service] # "registered"
  PROVE  GwPlaces'
BY DEF GwTypes, GwPlaces

\* Every step of the gateway keeps the invariant.
LEMMA GwInvStep ==
  ASSUME GwInv, [GwNext]_gwVars
  PROVE  GwInv'
<1>0. GwTypes /\ GwPlaces
  BY DEF GwInv
<1> USE DEF GwGoto, GwAnswer, gwHeal
<1>1. ASSUME NEW s \in Service, RegisterConnector(s) PROVE GwInv'
  <2>1. /\ connectors' = [connectors EXCEPT ![s] = "registered"] /\ gwPc' = gwPc /\ gwArg' = gwArg
        /\ \A c \in GwCall : /\ registeredSince[c] \subseteq registeredSince'[c]
                             /\ gwPc[c] = "generate" => s \in registeredSince'[c]
    BY <1>1 DEF RegisterConnector
  <2>2. GwTypes'
    BY <1>0, <1>1 DEF RegisterConnector, GwTypes
  <2>3. GwPlaces'
    BY <1>0, <2>1 DEF GwPlaces, GwTypes
  <2> QED BY <2>2, <2>3 DEF GwInv
<1>2. ASSUME NEW c \in GwCall, NEW s \in Service, NEW allowed \in PolicyAnswers,
             Execute(c, s, allowed)
      PROVE  GwInv'
  <2>1. CASE allowed
    <3>1. /\ gwArg' = [gwArg EXCEPT ![c] = [service |-> s, left |-> <<>>]]
          /\ gwPc' = [gwPc EXCEPT ![c] = "find"]
          /\ UNCHANGED <<connectors, failCount, recoverCh, gwHealing, dropped, registeredSince>>
      BY <1>2, <2>1 DEF Execute
    <3>2. /\ gwArg' \in [GwCall -> [service : Service \cup {"none"}, left : Seq(Service)]]
          /\ gwArg'[c].service = s
          /\ \A d \in GwCall \ {c} : gwArg'[d] = gwArg[d]
      BY <1>0, <3>1, GwArgStep, NoneLeft
    <3>3. GwTypes'
      BY <1>0, <3>1, <3>2 DEF GwTypes
    <3>4. GwPlaces'
      BY <1>0, <3>1, <3>2 DEF GwPlaces, GwTypes
    <3> QED BY <3>3, <3>4 DEF GwInv
  <2>2. CASE ~allowed
    <3>1. /\ gwPc' = [gwPc EXCEPT ![c] = "answer"] /\ gwArg' = [gwArg EXCEPT ![c].left = <<>>]
          /\ UNCHANGED <<connectors, failCount, recoverCh, gwHealing, dropped, registeredSince>>
      BY <1>2, <2>2 DEF Execute
    <3>2. /\ gwArg' \in [GwCall -> [service : Service \cup {"none"}, left : Seq(Service)]]
          /\ \A d \in GwCall : gwArg'[d].service = gwArg[d].service
      BY <1>0, <3>1, GwLeftStep, NoneLeft
    <3>3. GwTypes'
      BY <1>0, <3>1, <3>2 DEF GwTypes
    <3> QED BY <1>0, <3>1, <3>2, <3>3, GwPlacesStep DEF GwInv
  <2> QED BY <2>1, <2>2
<1>3. ASSUME NEW c \in GwCall, NEW p, gwPc[c] \notin {"idle", "answer"},
             p \in {"dispatch", "count", "failover", "reset", "answer", "generate"},
             p = "generate" => connectors[gwArg[c].service] # "registered",
             gwPc' = [gwPc EXCEPT ![c] = p],
             gwArg' = gwArg \/ \E q \in Seq(Service) : gwArg' = [gwArg EXCEPT ![c].left = q],
             UNCHANGED <<connectors, gwHealing, registeredSince>>,
             failCount' \in [Service -> 0..MaxFailures],
             recoverCh' \in Seq(Service), Len(recoverCh') <= RecoverSize
      PROVE  GwInv'
  <2>1. /\ gwArg' \in [GwCall -> [service : Service \cup {"none"}, left : Seq(Service)]]
        /\ \A d \in GwCall : gwArg'[d].service = gwArg[d].service
    <3>1. CASE gwArg' = gwArg
      BY <1>0, <3>1 DEF GwTypes
    <3>2. CASE \E q \in Seq(Service) : gwArg' = [gwArg EXCEPT ![c].left = q]
      BY <1>0, <3>2, GwLeftStep
    <3> QED BY <1>3, <3>1, <3>2
  <2>2. GwTypes'
    BY <1>0, <1>3, <2>1 DEF GwTypes
  <2>3. GwPlaces'
    BY <1>0, <1>3, <2>1, GwPlacesStep
  <2> QED BY <2>2, <2>3 DEF GwInv
<1>4. ASSUME UNCHANGED <<failCount, recoverCh>>
      PROVE  /\ failCount' \in [Service -> 0..MaxFailures]
             /\ recoverCh' \in Seq(Service) /\ Len(recoverCh') <= RecoverSize
  BY <1>0, <1>4 DEF GwTypes
<1>5. ASSUME NEW c \in GwCall, GetConnector(c) \/ NotFound(c) \/ Automate(c) PROVE GwInv'
  <2>1. CASE GetConnector(c)
    <3>1. PICK p : p = IF Known(gwArg[c].service) THEN "dispatch" ELSE "generate"
      OBVIOUS
    <3>2. p = "generate" => connectors[gwArg[c].service] # "registered"
      BY <3>1 DEF Known
    <3> QED BY <1>3, <1>4, <2>1, <3>1, <3>2 DEF GetConnector
  <2>2. CASE NotFound(c)
    BY <1>3, <1>4, <2>2 DEF NotFound
  <2>3. CASE Automate(c)
    BY <1>3, <1>4, <2>3, NoneLeft DEF Automate
  <2> QED BY <1>5, <2>1, <2>2, <2>3
<1>6. ASSUME NEW c \in GwCall, GenerateAdapter(c) PROVE GwInv'
  <2>1. GwTypes'
    BY <1>0, <1>6 DEF GenerateAdapter, GwTypes
  <2>2. PICK s \in Service : s = gwArg[c].service
    BY <1>0, <1>6 DEF GenerateAdapter, GwPlaces
  <2>3. /\ connectors' = [connectors EXCEPT ![s] = "generated"]
        /\ gwPc' = [gwPc EXCEPT ![c] = "dispatch"] /\ UNCHANGED <<gwArg, registeredSince>>
    BY <1>6, <2>2 DEF GenerateAdapter
  <2>4. GwPlaces'
    BY <1>0, <2>2, <2>3 DEF GwPlaces, GwTypes
  <2> QED BY <2>1, <2>4 DEF GwInv
<1>7. ASSUME NEW c \in GwCall, DispatchCall(c) PROVE GwInv'
  <2>1. Failovers[gwArg[c].service] \in Seq(Service)
    BY <1>0, <1>7, GatewayAssumption DEF DispatchCall, GwPlaces
  <2>2. /\ gwPc[c] = "dispatch"
        /\ UNCHANGED <<connectors, failCount, recoverCh, gwHealing, dropped, registeredSince>>
    BY <1>7 DEF DispatchCall
  <2>3. CASE gwPc' = [gwPc EXCEPT ![c] = "reset"] /\ gwArg' = gwArg
    BY <1>3, <1>4, <2>2, <2>3
  <2>4. CASE /\ gwPc' = [gwPc EXCEPT ![c] = "count"]
             /\ gwArg' = [gwArg EXCEPT ![c].left = Failovers[gwArg[c].service]]
    BY <1>3, <1>4, <2>1, <2>2, <2>4
  <2>5. CASE gwPc' = [gwPc EXCEPT ![c] = "answer"] /\ gwArg' = [gwArg EXCEPT ![c].left = <<>>]
    BY <1>3, <1>4, <2>2, <2>5, NoneLeft
  <2> QED BY <1>7, <2>3, <2>4, <2>5 DEF DispatchCall
<1>8. ASSUME NEW c \in GwCall, RegisterFailure(c) PROVE GwInv'
  <2>1. PICK s \in Service : s = gwArg[c].service
    BY <1>0, <1>8 DEF RegisterFailure, GwPlaces
  <2>2. failCount[s] \in 0..MaxFailures /\ failCount[s] + 1 <= MaxFailures
    BY <1>0, <1>8, <2>1 DEF RegisterFailure, GwTypes
  <2>3. failCount' = [failCount EXCEPT ![s] = failCount[s] + 1]
    BY <1>8, <2>1 DEF RegisterFailure
  <2>4. failCount' \in [Service -> 0..MaxFailures]
    BY <1>0, <2>2, <2>3, GatewayAssumption DEF GwTypes
  <2>5. recoverCh' = recoverCh \/ (Len(recoverCh) < RecoverSize /\ recoverCh' = Append(recoverCh, s))
    BY <1>8, <2>1 DEF RegisterFailure
  <2>6. recoverCh' \in Seq(Service) /\ Len(recoverCh') <= RecoverSize
    <3>1. recoverCh \in Seq(Service) /\ Len(recoverCh) \in Nat /\ Len(recoverCh) <= RecoverSize
      BY <1>0 DEF GwTypes
    <3>2. Append(recoverCh, s) \in Seq(Service) /\ Len(Append(recoverCh, s)) = Len(recoverCh) + 1
      BY <3>1
    <3>3. PICK q \in Seq(Service) : q = Append(recoverCh, s)
      BY <3>2
    <3>4. Len(q) = Len(recoverCh) + 1 /\ RecoverSize \in Nat
      BY <3>2, <3>3, GatewayAssumption
    <3>5. recoverCh' = recoverCh \/ (Len(recoverCh) < RecoverSize /\ recoverCh' = q)
      BY <2>5, <3>3, Zenon
    <3> QED BY <3>1, <3>4, <3>5
  <2> QED BY <1>3, <1>8, <2>4, <2>6 DEF RegisterFailure
<1>9. ASSUME NEW c \in GwCall, TryAlternative(c) PROVE GwInv'
  <2>1. gwArg[c].left \in Seq(Service)
    BY <1>0 DEF GwTypes
  <2>2. gwArg[c].left # <<>> => Tail(gwArg[c].left) \in Seq(Service)
    BY <2>1
  <2>3. /\ gwPc[c] = "failover"
        /\ UNCHANGED <<connectors, failCount, recoverCh, gwHealing, dropped, registeredSince>>
    BY <1>9 DEF TryAlternative
  <2>4. CASE gwPc' = [gwPc EXCEPT ![c] = "answer"] /\ gwArg' = [gwArg EXCEPT ![c].left = <<>>]
    BY <1>3, <1>4, <2>3, <2>4, NoneLeft
  <2>5. CASE /\ gwArg[c].left # <<>> /\ gwPc' = gwPc
             /\ gwArg' = [gwArg EXCEPT ![c].left = Tail(gwArg[c].left)]
    <3>1. gwPc' = [gwPc EXCEPT ![c] = "failover"]
      BY <1>0, <2>3, <2>5 DEF GwTypes
    <3> QED BY <1>3, <1>4, <2>2, <2>3, <2>5, <3>1
  <2> QED BY <1>9, <2>4, <2>5 DEF TryAlternative
<1>10. ASSUME NEW s, failCount' = [failCount EXCEPT ![s] = 0]
       PROVE  failCount' \in [Service -> 0..MaxFailures]
  <2>1. 0 \in 0..MaxFailures
    BY GatewayAssumption
  <2>2. failCount \in [Service -> 0..MaxFailures]
    BY <1>0 DEF GwTypes
  <2> QED BY <1>10, <2>1, <2>2, Zenon
<1>11. ASSUME NEW c \in GwCall, GwSucceeds(c) PROVE GwInv'
  <2>1. recoverCh' \in Seq(Service) /\ Len(recoverCh') <= RecoverSize
    BY <1>0, <1>11 DEF GwSucceeds, GwTypes
  <2> QED BY <1>3, <1>10, <1>11, <2>1, NoneLeft DEF GwSucceeds, ResetFailures
<1>12. ASSUME NEW c \in GwCall, GwReturn(c) PROVE GwInv'
  <2>1. /\ gwPc' = [gwPc EXCEPT ![c] = "idle"]
        /\ gwArg' = [gwArg EXCEPT ![c] = [service |-> "none", left |-> <<>>]]
        /\ registeredSince' = [registeredSince EXCEPT ![c] = {}]
        /\ UNCHANGED <<connectors, failCount, recoverCh, gwHealing, dropped>>
    BY <1>12 DEF GwReturn
  <2>2. /\ gwArg' \in [GwCall -> [service : Service \cup {"none"}, left : Seq(Service)]]
        /\ \A d \in GwCall \ {c} : gwArg'[d] = gwArg[d]
    BY <1>0, <2>1, GwArgStep, NoneLeft
  <2>3. GwTypes'
    BY <1>0, <2>1, <2>2 DEF GwTypes
  <2>4. GwPlaces'
    BY <1>0, <2>1, <2>2 DEF GwPlaces, GwTypes
  <2> QED BY <2>3, <2>4 DEF GwInv
<1>13. CASE TakeRecovery
  <2>1. Head(recoverCh) \in Service /\ Tail(recoverCh) \in Seq(Service)
        /\ Len(Tail(recoverCh)) <= RecoverSize
    BY <1>0, <1>13, GatewayAssumption DEF TakeRecovery, GwTypes
  <2> QED BY <1>0, <1>13, <2>1 DEF TakeRecovery, GwInv, GwTypes, GwPlaces
<1>14. CASE AttemptRecovery
  <2>1. failCount' \in [Service -> 0..MaxFailures]
    BY <1>10, <1>14 DEF AttemptRecovery, ResetFailures
  <2> QED BY <1>0, <1>14, <2>1 DEF AttemptRecovery, GwInv, GwTypes, GwPlaces
<1>15. CASE UNCHANGED gwVars
  BY <1>0, <1>15 DEF gwVars, GwInv, GwTypes, GwPlaces
<1> QED BY <1>1, <1>2, <1>5, <1>6, <1>7, <1>8, <1>9, <1>11, <1>12, <1>13, <1>14, <1>15
        DEF GwNext, GwStep

\* Only a generated adapter takes the place of a registered connector, and only
\* when the connector was registered after the request had looked for it.
LEMMA RegisteredStep ==
  ASSUME GwInv, GwNext, NEW s \in Service, connectors[s] = "registered",
         connectors'[s] # "registered"
  PROVE  \E c \in GwCall : gwArg[c].service = s /\ s \in registeredSince[c]
<1>0. GwTypes /\ GwPlaces
  BY DEF GwInv
<1>1. \/ connectors' = connectors
      \/ \E r \in Service : connectors' = [connectors EXCEPT ![r] = "registered"]
      \/ \E c \in GwCall : GenerateAdapter(c)
  BY DEF GwNext, GwStep, RegisterConnector, Execute, GetConnector, NotFound, Automate, DispatchCall,
         RegisterFailure, TryAlternative, GwSucceeds, GwReturn, TakeRecovery, AttemptRecovery
<1>2. PICK c \in GwCall : GenerateAdapter(c)
  BY <1>0, <1>1 DEF GwTypes
<1>3. gwArg[c].service = s
  BY <1>0, <1>2 DEF GenerateAdapter, GwTypes
<1> QED BY <1>0, <1>2, <1>3 DEF GenerateAdapter, GwPlaces
-----------------------------------------------------------------------------
(* The components side by side.                                            *)

\* What a step of the whole is to each component.
LEMMA RecoveryStep ==
  [RecoveryNext]_recoveryVars =>
    [Next]_vars /\ [HealNext]_healVars /\ [GwNext]_gwVars /\ part' = part
BY DEF RecoveryNext, recoveryVars, Others

\* An adapter generated for a request replaces a connector only when that was
\* registered behind the request's back, for any services, alternatives and calls.
THEOREM RegisteredStaysAlways == RecoverySpec => RegisteredStays
<1>1. RecoveryInit => GwInv
  BY GwInitInv DEF RecoveryInit
<1>2. GwInv /\ [RecoveryNext]_recoveryVars => GwInv'
  BY RecoveryStep, GwInvStep
<1>3. GwInv /\ [RecoveryNext]_recoveryVars =>
        [\A s \in Service : connectors[s] = "registered" /\ connectors'[s] # "registered" =>
           \E c \in GwCall : gwArg[c].service = s /\ s \in registeredSince[c]]_connectors
  <2> SUFFICES ASSUME GwInv, [RecoveryNext]_recoveryVars, NEW s \in Service,
                      connectors[s] = "registered", connectors'[s] # "registered"
               PROVE  \E c \in GwCall : gwArg[c].service = s /\ s \in registeredSince[c]
    OBVIOUS
  <2>1. GwNext
    BY RecoveryStep DEF gwVars
  <2> QED BY <2>1, RegisteredStep
<1> QED BY <1>1, <1>2, <1>3, PTL DEF RecoverySpec, RegisteredStays

\* What each component promises holds while it runs: the types, and that a patch
\* that counts as applied was in its file.
THEOREM RecoverySafeAlways == RecoverySpec => []RecoverySafe
<1> DEFINE Inv == TypeInv /\ HealInv /\ GwInv
<1>1. RecoveryInit => Inv
  BY TypeInit, HealInitInv, GwInitInv DEF RecoveryInit
<1>2. Inv /\ [RecoveryNext]_recoveryVars => Inv'
  BY RecoveryStep, TypeStep, HealTypesStep, PatchStep, GwInvStep DEF HealInv
<1>3. Inv => RecoverySafe
  <2> SUFFICES ASSUME TypeInv, HealInv, GwInv PROVE RecoverySafe
    OBVIOUS
  <2>1. TypeOK
    BY DEF TypeInv
  <2>2. HealTypeOK /\ AppliedWasWritten
    BY DEF HealInv, HealTypes, HealTypeOK
  <2>3. GwTypeOK
    BY DEF GwInv, GwTypes, GwTypeOK
  <2> QED BY <2>1, <2>2, <2>3 DEF RecoverySafe
<1> QED BY <1>1, <1>2, <1>3, PTL DEF RecoverySpec
-----------------------------------------------------------------------------
(* The chained audit log.                                                    *)

Lines == [prev : Links, chain : Links, signature : Links]

\* A line that could be logged last carries what lastChain is; no link names an
\* event that is still to come.
AuditInv ==
  /\ AuditTypeOK
  /\ acLast.event <= acEvents
  /\ acFile # <<>> /\ ~acGap => acLast = CarriedBy(Last(acFile))

\* A log that is opened satisfies the invariant.
LEMMA AuditInitInv == AuditInit => AuditInv
<1> SUFFICES ASSUME AuditInit PROVE AuditInv
  OBVIOUS
<1>1. AuditTypeOK
  <2>1. acSigner \in BOOLEAN /\ acKey \in BOOLEAN /\ acEnforced \in BOOLEAN /\ acOpen \in BOOLEAN /\ acGap \in BOOLEAN
    BY Zenon DEF AuditInit
  <2>2. /\ acFile \in Seq(Lines) /\ acLast \in Links /\ acSince \in 0..(CheckpointN - 1)
        /\ acStored \in Seq(Links) /\ acEvents \in 0..MaxEvents /\ acRestarts \in 0..AuditRestarts
    BY AuditAssumption DEF AuditInit, Links, Unchained
  <2> QED BY <2>1, <2>2, Zenon DEF AuditTypeOK, Lines
<1> QED BY <1>1 DEF AuditInit, AuditInv, Unchained

\* What is logged of an event names the event before and carries this one.
LEMMA LineOfEvent ==
  ASSUME acEvents \in Nat, acEvents < MaxEvents, acLast \in Links, NEW way \in {"kms", "hmac", "unsigned"}
  PROVE  /\ LineBy(way) \in Lines /\ LineBy(way).prev = acLast /\ LineBy(way).chain.event = acEvents + 1
         /\ NextLast(LineBy(way)) \in Links /\ NextLast(LineBy(way)).event = acEvents + 1
         /\ NextLast(LineBy(way)) = CarriedBy(LineBy(way))
         /\ way # "unsigned" => LineBy(way).signature # Unchained
<1>0. acEvents + 1 \in 0..MaxEvents /\ acEvents + 1 # 0
  BY AuditAssumption
<1>1. PICK hash, sign : /\ hash = ChainLink(acEvents + 1, IF way = "hmac" THEN "hmac" ELSE "hash")
                        /\ sign = CASE way = "kms" -> ChainLink(acEvents + 1, "signature")
                                    [] way = "hmac" -> ChainLink(acEvents + 1, "hmac")
                                    [] OTHER -> Unchained
  OBVIOUS
<1>2. hash \in Links /\ hash.event = acEvents + 1
  BY <1>0, <1>1 DEF ChainLink, Links
<1>3. /\ sign \in Links /\ (way # "unsigned" => sign.event = acEvents + 1 /\ sign # Unchained)
      /\ (sign # Unchained => sign.event = acEvents + 1)
  <2>1. CASE way = "kms"
    BY <1>0, <1>1, <2>1 DEF ChainLink, Links, Unchained
  <2>2. CASE way = "hmac"
    BY <1>0, <1>1, <2>2 DEF ChainLink, Links, Unchained
  <2>3. CASE way = "unsigned"
    BY <1>0, <1>1, <2>3, AuditAssumption DEF Links, Unchained
  <2> QED BY <2>1, <2>2, <2>3
<1>4. LineBy(way) = [prev |-> acLast, chain |-> hash, signature |-> sign]
  BY <1>1 DEF LineBy, Event
<1> QED BY <1>2, <1>3, <1>4 DEF Lines, NextLast, CarriedBy

\* A step of the log is an event that is signed in a way that is allowed, or writes
\* no line.
LEMMA AuditSteps ==
  ASSUME AuditInv, AuditNext
  PROVE  \/ \E logged, kept \in BOOLEAN, way \in {"kms", "hmac", "unsigned"} :
              Chain(way, logged, kept) /\ (acEnforced => way # "unsigned")
         \/ RefusesUnsigned \/ CloseAudit \/ RestartAudit
<1>1. Fallback \in {"hmac", "unsigned"} /\ (acKey => Fallback = "hmac")
  BY DEF Fallback
<1>2. ASSUME NEW logged \in BOOLEAN, NEW kept \in BOOLEAN, SignedByKms(logged, kept)
      PROVE  Chain("kms", logged, kept)
  BY <1>2, Zenon DEF SignedByKms
<1>3. ASSUME NEW logged \in BOOLEAN, NEW kept \in BOOLEAN, FallsBack(logged, kept)
      PROVE  Chain(Fallback, logged, kept) /\ ~acEnforced
  BY <1>3, Zenon DEF FallsBack
<1>4. ASSUME NEW logged \in BOOLEAN, NEW kept \in BOOLEAN, WithoutSigner(logged, kept)
      PROVE  Chain(Fallback, logged, kept) /\ (acEnforced => Fallback = "hmac")
  BY <1>1, <1>4, Zenon DEF WithoutSigner, RefusedUnsigned
<1>5. "hmac" # "unsigned" /\ "kms" # "unsigned"
  OBVIOUS
<1>6. CASE \E logged, kept \in BOOLEAN :
             SignedByKms(logged, kept) \/ FallsBack(logged, kept) \/ WithoutSigner(logged, kept)
  <2>1. PICK logged \in BOOLEAN, kept \in BOOLEAN :
          SignedByKms(logged, kept) \/ FallsBack(logged, kept) \/ WithoutSigner(logged, kept)
    BY <1>6, Zenon
  <2>2. \E way \in {"kms", "hmac", "unsigned"} : Chain(way, logged, kept) /\ (acEnforced => way # "unsigned")
    <3>1. CASE SignedByKms(logged, kept)
      BY <1>2, <1>5, <3>1, Zenon
    <3>2. CASE FallsBack(logged, kept)
      BY <1>1, <1>3, <3>2, Zenon
    <3>3. CASE WithoutSigner(logged, kept)
      BY <1>1, <1>4, <1>5, <3>3, Zenon
    <3> QED BY <2>1, <3>1, <3>2, <3>3, Zenon
  <2> QED BY <2>2, Zenon
<1> QED BY <1>6, Zenon DEF AuditNext

\* Every event keeps the invariant, and its line, if there is one, links to the one before.
LEMMA ChainStep ==
  ASSUME AuditInv, NEW logged \in BOOLEAN, NEW kept \in BOOLEAN, NEW way \in {"kms", "hmac", "unsigned"},
         Chain(way, logged, kept), acEnforced => way # "unsigned"
  PROVE  /\ AuditInv'
         /\ acFile' # acFile =>
              LET line == Last(acFile') IN
              /\ acFile # <<>> /\ ~acGap => line.prev = CarriedBy(Last(acFile))
              /\ line.prev.event < line.chain.event
              /\ acEnforced => line.signature # Unchained
<1>0. /\ acFile \in Seq(Lines) /\ acLast \in Links /\ acSince \in 0..(CheckpointN - 1)
      /\ acStored \in Seq(Links) /\ acEvents \in 0..MaxEvents /\ acRestarts \in 0..AuditRestarts
      /\ acLast.event <= acEvents /\ CheckpointN \in Nat \ {0} /\ MaxEvents \in Nat
  BY AuditAssumption, Zenon DEF AuditInv, AuditTypeOK, Lines
<1>1. acSigner' \in BOOLEAN /\ acKey' \in BOOLEAN /\ acEnforced' \in BOOLEAN /\ acOpen' \in BOOLEAN /\ acGap' \in BOOLEAN
  BY Zenon DEF AuditInv, AuditTypeOK, Chain
<1>2. PICK line \in Lines : line = LineBy(way)
  BY <1>0, LineOfEvent DEF Chain
<1>3. /\ line.prev = acLast /\ line.chain.event = acEvents + 1
      /\ NextLast(line) \in Links /\ NextLast(line).event = acEvents + 1 /\ NextLast(line) = CarriedBy(line)
      /\ way # "unsigned" => line.signature # Unchained
  BY <1>0, <1>2, LineOfEvent DEF Chain
<1>4. acLast' = NextLast(line) /\ acEvents' = acEvents + 1 /\ acEvents' \in 0..MaxEvents /\ acRestarts' = acRestarts
  BY <1>0, <1>2 DEF Chain, Event
<1>5. acSince' \in 0..(CheckpointN - 1) /\ acStored' \in Seq(Links)
  <2>1. CASE acSince + 1 < CheckpointN
    BY <1>0, <2>1 DEF Chain, Checkpoint
  <2>2. CASE ~(acSince + 1 < CheckpointN)
    <3>1. acSince' = 0 /\ (acStored' = acStored \/ acStored' = Append(acStored, acLast'))
      BY <2>2 DEF Chain, Checkpoint
    <3>2. acLast' \in Links
      BY <1>3, <1>4
    <3> QED BY <1>0, <3>1, <3>2
  <2> QED BY <2>1, <2>2
<1>6. CASE logged
  <2>1. PICK file : file = Append(acFile, line)
    OBVIOUS
  <2>2. acFile' = file /\ ~acGap'
    BY <1>2, <1>6, <2>1 DEF Chain
  <2>3. file \in Seq(Lines) /\ file # <<>> /\ file[Len(file)] = line
    BY <1>0, <2>1
  <2>4. Last(file) = line
    BY <2>3 DEF Last
  <2>5. AuditTypeOK'
    BY <1>0, <1>1, <1>3, <1>4, <1>5, <2>2, <2>3, Zenon DEF AuditTypeOK, Lines
  <2>6. AuditInv'
    BY <1>0, <1>3, <1>4, <2>2, <2>4, <2>5 DEF AuditInv
  <2>7. line.prev.event < line.chain.event
    <3>1. acLast.event \in 0..MaxEvents
      BY <1>0 DEF Links
    <3> QED BY <1>0, <1>3, <3>1
  <2>8. acFile # <<>> /\ ~acGap => line.prev = CarriedBy(Last(acFile))
    BY <1>3 DEF AuditInv
  <2> QED BY <1>3, <2>2, <2>4, <2>6, <2>7, <2>8, Zenon
<1>7. CASE ~logged
  <2>1. acFile' = acFile /\ acGap'
    BY <1>7 DEF Chain
  <2>2. AuditTypeOK'
    BY <1>0, <1>1, <1>3, <1>4, <1>5, <2>1, Zenon DEF AuditTypeOK, Lines
  <2> QED BY <1>0, <1>3, <1>4, <2>1, <2>2 DEF AuditInv
<1> QED BY <1>6, <1>7

\* Every other step keeps the invariant and writes nothing.
LEMMA AuditRest ==
  ASSUME AuditInv, RefusesUnsigned \/ CloseAudit \/ RestartAudit \/ UNCHANGED acVars
  PROVE  AuditInv' /\ acFile' = acFile
<1>0. /\ acFile \in Seq(Lines) /\ acLast \in Links /\ acSince \in 0..(CheckpointN - 1)
      /\ acStored \in Seq(Links) /\ acEvents \in 0..MaxEvents /\ acRestarts \in 0..AuditRestarts
      /\ acLast.event <= acEvents /\ CheckpointN \in Nat \ {0} /\ MaxEvents \in Nat /\ AuditRestarts \in Nat
  BY AuditAssumption, Zenon DEF AuditInv, AuditTypeOK, Lines
<1>1. acSigner' \in BOOLEAN /\ acKey' \in BOOLEAN /\ acEnforced' \in BOOLEAN /\ acOpen' \in BOOLEAN /\ acGap' \in BOOLEAN
  BY Zenon DEF AuditInv, AuditTypeOK, RefusesUnsigned, CloseAudit, RestartAudit, acVars
<1>2. acFile' = acFile /\ acStored' = acStored
  BY DEF RefusesUnsigned, CloseAudit, RestartAudit, acVars
<1>3. /\ acLast' \in Links /\ acSince' \in 0..(CheckpointN - 1)
      /\ acEvents' \in 0..MaxEvents /\ acRestarts' \in 0..AuditRestarts /\ acLast'.event <= acEvents'
      /\ (acFile' # <<>> /\ ~acGap' => acLast' = CarriedBy(Last(acFile')))
  <2>1. CASE RefusesUnsigned
    <3>1. acLast' = NextLast(LineBy("unsigned")) /\ acEvents < MaxEvents
      BY <2>1 DEF RefusesUnsigned
    <3>2. acLast' \in Links /\ acLast'.event = acEvents + 1
      BY <1>0, <3>1, LineOfEvent
    <3> QED BY <1>0, <2>1, <3>2 DEF RefusesUnsigned, Event
  <2>2. CASE CloseAudit
    BY <1>0, <2>2 DEF CloseAudit, AuditInv, CarriedBy
  <2>3. CASE RestartAudit
    <3>1. acLast' \in Links /\ acLast'.event = 0
      BY <1>0, <2>3 DEF RestartAudit, Unchained, Links
    <3> QED BY <1>0, <2>3, <3>1 DEF RestartAudit
  <2>4. CASE UNCHANGED acVars
    BY <1>0, <2>4 DEF acVars, AuditInv, CarriedBy
  <2> QED BY <2>1, <2>2, <2>3, <2>4
<1>4. AuditTypeOK'
  BY <1>0, <1>1, <1>2, <1>3, Zenon DEF AuditTypeOK, Lines
<1> QED BY <1>2, <1>3, <1>4 DEF AuditInv

\* Every step of the log keeps the invariant, and a line it writes is linked.
LEMMA AuditStep ==
  ASSUME AuditInv, [AuditNext]_acVars
  PROVE  AuditInv' /\ (acFile' # acFile =>
           LET line == Last(acFile') IN
           /\ acFile # <<>> /\ ~acGap => line.prev = CarriedBy(Last(acFile))
           /\ line.prev.event < line.chain.event
           /\ acEnforced => line.signature # Unchained)
<1>1. CASE AuditNext
  <2>1. CASE RefusesUnsigned \/ CloseAudit \/ RestartAudit
    BY <2>1, AuditRest, Zenon
  <2>2. CASE \E logged, kept \in BOOLEAN, way \in {"kms", "hmac", "unsigned"} :
               Chain(way, logged, kept) /\ (acEnforced => way # "unsigned")
    <3>1. PICK logged \in BOOLEAN, kept \in BOOLEAN, way \in {"kms", "hmac", "unsigned"} :
            Chain(way, logged, kept) /\ (acEnforced => way # "unsigned")
      BY <2>2, Zenon
    <3> QED BY <3>1, ChainStep, Zenon
  <2> QED BY <1>1, <2>1, <2>2, AuditSteps, Zenon
<1>2. CASE UNCHANGED acVars
  BY <1>2, AuditRest, Zenon
<1> QED BY <1>1, <1>2

\* A step of MCRecords is one of each component or leaves it alone.
LEMMA RecordsStep ==
  [RecordsNext]_recordsVars =>
    /\ recordPart' = recordPart
    /\ [Next]_vars /\ [RetrievalNext]_retrievalVars /\ [SecretNext]_ssVars /\ [VaultCacheNext]_vcVars
    /\ [ResidencyNext]_drVars /\ [BillingNext]_blVars /\ [QosNext]_qosVars /\ [AuditNext]_acVars
BY DEF RecordsNext, recordsVars, OtherRecords

\* A verifier who goes through audit.jsonl finds every line linked to the one
\* before, for any number of events, restarts and lost lines.
THEOREM ChainLinkedAlways == RecordsSpec => ChainLinked
<1>1. RecordsInit => AuditInv
  BY AuditInitInv DEF RecordsInit
<1>2. AuditInv /\ [RecordsNext]_recordsVars =>
        /\ AuditInv'
        /\ [acFile' # acFile =>
              LET line == Last(acFile') IN
              /\ acFile # <<>> /\ ~acGap => line.prev = CarriedBy(Last(acFile))
              /\ line.prev.event < line.chain.event
              /\ acEnforced => line.signature # Unchained]_acVars
  BY RecordsStep, AuditStep
<1> QED BY <1>1, <1>2, PTL DEF RecordsSpec, ChainLinked

-----------------------------------------------------------------------------
(* The secret store's files.                                                 *)

SecretTypes ==
  /\ ssFiles \in [SecretKey -> SecretFile]
  /\ ssTmp \in [key : SecretKey \cup {"none"}, file : SecretFile]
  /\ ssKms \in Kms \cup {"local"} /\ ssHolder \in {"none", "put", "rewrap"}
  /\ ssWalk \in Seq(SecretKey)
  /\ ssPuts \in 0..MaxPut /\ ssCrashes \in 0..StoreCrashes

\* The calls hold the mutex: nothing is half done without a holder, and a rewrap has a KMS.
HolderInv ==
  /\ ssHolder = "none" => ssTmp = NoWrite /\ ssWalk = <<>>
  /\ ssHolder = "put" => ssWalk = <<>>
  /\ ssHolder = "rewrap" => ssKms # "local"

\* What is being logged: what Put was given, or the file as it is with a key of the KMS.
TmpInv ==
  ssTmp # NoWrite =>
    /\ ssTmp.key \in SecretKey /\ ssTmp.file.by = ssKms /\ ssTmp.file.header = HeaderOf(ssKms)
    /\ ssFiles[ssTmp.key].value <= ssTmp.file.value
    /\ ssTmp.file.value # 0 /\ ssTmp.file.value <= ssPuts
TmpWhole ==
  ssTmp # NoWrite =>
    ssTmp.file.whole \/ ~ssFiles[ssTmp.key].whole \/ ssFiles[ssTmp.key].split = "in the data"

\* No file has a value that was not put.
ValueInv == \A k \in SecretKey : ssFiles[k].value <= ssPuts

InWalk(k) == \E i \in 1..Len(ssWalk) : ssWalk[i] = k

\* What a rewrap has gone through is wrapped by the KMS, and it goes through what is there.
WalkInv ==
  /\ \A k \in SecretKey : InWalk(k) => ssFiles[k].value # 0
  /\ ssHolder = "rewrap" =>
       \A k \in SecretKey : ssFiles[k].value # 0 /\ ssFiles[k].by # ssKms =>
         InWalk(k) \/ (ssTmp # NoWrite /\ ssTmp.key = k)

SecretInv ==
  /\ SecretTypes /\ ssRewrapped \in BOOLEAN
  /\ HolderInv /\ TmpInv /\ TmpWhole /\ ValueInv /\ WalkInv /\ RewrapMovesAll

\* There is no file at first, and what there is is a file.
LEMMA NoSecretIsFile == NoSecret \in SecretFile /\ NoSecret.value = 0
<1>1. NoSecret.whole \in BOOLEAN
  BY DEF NoSecret
<1>2. 0 \in 0..MaxPut
  BY SecretStoreAssumption
<1> QED BY <1>1, <1>2 DEF NoSecret, SecretFile, Splits

\* A store without a secret satisfies the invariant.
LEMMA SecretInitInv == SecretInit => SecretInv
<1> SUFFICES ASSUME SecretInit PROVE SecretInv
  OBVIOUS
<1>1. ssRewrapped \in BOOLEAN /\ ~ssRewrapped
  BY Zenon DEF SecretInit
<1>2. NoWrite \in [key : SecretKey \cup {"none"}, file : SecretFile]
  BY NoSecretIsFile DEF NoWrite
<1>3. SecretTypes
  BY <1>2, NoSecretIsFile, SecretStoreAssumption DEF SecretInit, SecretTypes
<1>4. HolderInv /\ TmpInv /\ TmpWhole
  BY DEF SecretInit, HolderInv, TmpInv, TmpWhole
<1>5. ValueInv /\ WalkInv
  BY NoSecretIsFile DEF SecretInit, ValueInv, WalkInv, InWalk
<1> QED BY <1>1, <1>3, <1>4, <1>5 DEF SecretInv, RewrapMovesAll

\* The header and the KMS of a file that is logged under the KMS of now are those Get looks for.
LEMMA GetUnwraps ==
  ASSUME NEW f, f.by = ssKms, f.header = HeaderOf(ssKms)
  PROVE  f.by = UnwrapsWith(f)
BY DEF HeaderOf, UnwrapsWith

\* The file of a secret after the rename: readable if it was, or split at a separator
\* that is in random bytes.
LEMMA RenameKeeps ==
  ASSUME SecretInv, RenameSecret
  PROVE  /\ SecretTypes' /\ HolderInv' /\ TmpInv' /\ TmpWhole' /\ ValueInv' /\ WalkInv' /\ RewrapMovesAll'
         /\ ReadableStays
<1>0. /\ SecretTypes /\ HolderInv /\ TmpInv /\ TmpWhole /\ ValueInv /\ WalkInv /\ RewrapMovesAll
      /\ ssTmp # NoWrite /\ MaxPut \in Nat
  BY SecretStoreAssumption DEF SecretInv, RenameSecret
<1>1. PICK k \in SecretKey : k = ssTmp.key
  BY <1>0 DEF TmpInv
<1>2. PICK f \in SecretFile : f = ssTmp.file
  BY <1>0 DEF SecretTypes
<1>3. /\ ssFiles' = [ssFiles EXCEPT ![k] = f] /\ ssTmp' = NoWrite
      /\ ssHolder' = (IF ssHolder = "put" THEN "none" ELSE ssHolder)
      /\ UNCHANGED <<ssKms, ssWalk, ssRewrapped, ssPuts, ssCrashes>>
  BY <1>1, <1>2 DEF RenameSecret
<1>4. /\ f.by = ssKms /\ f.header = HeaderOf(ssKms) /\ ssFiles[k].value <= f.value /\ f.value # 0
      /\ f.value <= ssPuts
  BY <1>0, <1>1, <1>2, Zenon DEF TmpInv
<1>4a. f.whole \/ ~ssFiles[k].whole \/ ssFiles[k].split = "in the data"
  BY <1>0, <1>1, <1>2, Zenon DEF TmpWhole
<1>5. ssFiles'[k] = f /\ \A x \in SecretKey \ {k} : ssFiles'[x] = ssFiles[x]
  BY <1>0, <1>3 DEF SecretTypes
<1>6. SecretTypes'
  <2>1. ssTmp' \in [key : SecretKey \cup {"none"}, file : SecretFile]
    BY <1>3, NoSecretIsFile DEF NoWrite
  <2>2. ssFiles' \in [SecretKey -> SecretFile]
    BY <1>0, <1>3 DEF SecretTypes
  <2> QED BY <1>0, <1>3, <2>1, <2>2 DEF SecretTypes
<1>7. HolderInv' /\ TmpInv' /\ TmpWhole'
  BY <1>0, <1>3 DEF HolderInv, TmpInv, TmpWhole, SecretTypes
<1>8. ValueInv'
  BY <1>0, <1>3, <1>4, <1>5 DEF ValueInv
<1>9. WalkInv'
  <2>1. \A x : InWalk(x)' <=> InWalk(x)
    BY <1>3 DEF InWalk
  <2> QED BY <1>0, <1>1, <1>3, <1>4, <1>5, <2>1 DEF WalkInv, SecretTypes
<1>10. RewrapMovesAll'
  BY <1>0, <1>3, <1>4, <1>5, Zenon DEF RewrapMovesAll
<1>11. ReadableStays
  <2> SUFFICES ASSUME NEW x \in SecretKey, SecretReads(ssFiles[x])
               PROVE  ssFiles'[x].value >= ssFiles[x].value /\ (SecretReads(ssFiles[x])' \/ ssFiles'[x].split # "clean")
    BY DEF ReadableStays
  <2>1. \A y : UnwrapsWith(y)' = UnwrapsWith(y)
    BY <1>3 DEF UnwrapsWith
  <2>2. CASE x = k
    <3>1. f.whole
      BY <1>4a, <2>2, Zenon DEF SecretReads
    <3>2. f.by = UnwrapsWith(f)
      BY <1>4, GetUnwraps, Zenon
    <3>3. ssFiles'[x] = f
      BY <1>5, <2>2
    <3>4. f.split = "clean" => SecretReads(ssFiles[x])'
      <4>1. UnwrapsWith(ssFiles[x])' = UnwrapsWith(f)
        BY <1>3, <3>3 DEF UnwrapsWith
      <4> QED BY <1>4, <3>1, <3>2, <3>3, <4>1, Zenon DEF SecretReads
    <3>5. f.value >= ssFiles[x].value
      BY <1>0, <1>4, <2>2 DEF SecretTypes, SecretFile
    <3> QED BY <3>3, <3>4, <3>5, Zenon
  <2>3. CASE x # k
    <3>1. ssFiles'[x] = ssFiles[x]
      BY <1>5, <2>3
    <3>2. UnwrapsWith(ssFiles[x])' = UnwrapsWith(ssFiles[x])
      BY <1>3, <3>1 DEF UnwrapsWith
    <3>3. SecretReads(ssFiles[x])'
      BY <3>1, <3>2, Zenon DEF SecretReads
    <3>4. ssFiles[x].value \in 0..MaxPut
      BY <1>0 DEF SecretTypes, SecretFile
    <3>5. ssFiles'[x].value >= ssFiles[x].value
      BY <1>0, <3>1, <3>4
    <3> QED BY <3>3, <3>5, Zenon
  <2> QED BY <2>2, <2>3
<1> QED BY <1>6, <1>7, <1>8, <1>9, <1>10, <1>11

\* A step that leaves the files alone leaves what is readable readable.
LEMMA FilesStay ==
  ASSUME SecretTypes, ssFiles' = ssFiles
  PROVE  ReadableStays
<1> SUFFICES ASSUME NEW x \in SecretKey, SecretReads(ssFiles[x]), ssKms' = ssKms
             PROVE  ssFiles'[x].value >= ssFiles[x].value /\ SecretReads(ssFiles[x])'
  BY DEF ReadableStays
<1>1. ssFiles[x].value \in 0..MaxPut
  BY DEF SecretTypes, SecretFile
<1>2. ssFiles'[x].value >= ssFiles[x].value
  BY <1>1, SecretStoreAssumption
<1>3. UnwrapsWith(ssFiles[x])' = UnwrapsWith(ssFiles[x])
  BY DEF UnwrapsWith
<1>4. SecretReads(ssFiles[x])'
  BY <1>3, Zenon DEF SecretReads
<1> QED BY <1>2, <1>4

\* Put starts a write with the value of its call, whatever a rewrap is doing.
LEMMA PutKeeps ==
  ASSUME SecretInv, NEW k \in SecretKey, NEW split \in Splits, PutSecret(k, split)
  PROVE  SecretTypes' /\ HolderInv' /\ TmpInv' /\ TmpWhole' /\ ValueInv' /\ WalkInv' /\ RewrapMovesAll'
<1>0. /\ SecretTypes /\ HolderInv /\ TmpInv /\ TmpWhole /\ ValueInv /\ WalkInv /\ RewrapMovesAll
      /\ MaxPut \in Nat
  BY SecretStoreAssumption DEF SecretInv
<1>1. PICK f : f = [value |-> ssPuts + 1, header |-> HeaderOf(ssKms), by |-> ssKms, split |-> split, whole |-> TRUE]
  OBVIOUS
<1>2. /\ ssTmp' = [key |-> k, file |-> f] /\ ssHolder = "none" /\ ssHolder' = "put" /\ ssPuts < MaxPut
      /\ ssPuts' = ssPuts + 1 /\ UNCHANGED <<ssFiles, ssKms, ssWalk, ssRewrapped, ssCrashes>>
  BY <1>1 DEF PutSecret
<1>3. f \in SecretFile
  <2>1. ssPuts + 1 \in 0..MaxPut
    BY <1>0, <1>2 DEF SecretTypes
  <2>2. f.whole \in BOOLEAN /\ HeaderOf(ssKms) \in {"none", "local", "kms"}
    BY <1>1 DEF HeaderOf
  <2>3. ssKms \in Kms \cup {"none", "local"}
    BY <1>0 DEF SecretTypes
  <2> QED BY <1>1, <2>1, <2>2, <2>3 DEF SecretFile
<1>4. SecretTypes'
  <2>1. ssTmp' \in [key : SecretKey \cup {"none"}, file : SecretFile]
    BY <1>2, <1>3
  <2> QED BY <1>0, <1>2, <2>1 DEF SecretTypes
<1>5. HolderInv'
  BY <1>0, <1>2 DEF HolderInv
<1>6. ssTmp'.key = k /\ ssTmp'.file = f /\ f.by = ssKms /\ f.header = HeaderOf(ssKms) /\ f.value = ssPuts + 1
  BY <1>1, <1>2
<1>7. TmpInv'
  <2>1. ssFiles[k].value \in 0..MaxPut /\ ssFiles[k].value <= ssPuts /\ ssPuts \in Nat
    BY <1>0 DEF SecretTypes, SecretFile, ValueInv
  <2>2. ssFiles[k].value <= f.value /\ f.value # 0 /\ f.value <= ssPuts'
    BY <1>2, <1>6, <2>1
  <2>3. HeaderOf(ssKms)' = HeaderOf(ssKms)
    BY <1>2 DEF HeaderOf
  <2> QED BY <1>2, <1>6, <2>2, <2>3, Zenon DEF TmpInv
<1>8. TmpWhole'
  <2>1. f.whole
    BY <1>1
  <2> QED BY <1>6, <2>1, Zenon DEF TmpWhole
<1>9. ValueInv'
  <2>1. \A x \in SecretKey : ssFiles[x].value \in 0..MaxPut
    BY <1>0 DEF SecretTypes, SecretFile
  <2> QED BY <1>0, <1>2, <2>1 DEF ValueInv, SecretTypes
<1>10. WalkInv'
  BY <1>0, <1>2 DEF WalkInv, InWalk
<1>11. RewrapMovesAll'
  BY <1>0, <1>2 DEF RewrapMovesAll
<1> QED BY <1>4, <1>5, <1>7, <1>8, <1>9, <1>10, <1>11

\* A call that fails, a crash and another KMS leave nothing half done.
LEMMA CutKeeps ==
  ASSUME SecretInv, SecretFails \/ SecretCrash \/ \E kms \in Kms : SetKms(kms)
  PROVE  /\ SecretTypes' /\ HolderInv' /\ TmpInv' /\ TmpWhole' /\ ValueInv' /\ WalkInv' /\ RewrapMovesAll'
         /\ ssFiles' = ssFiles
<1>0. /\ SecretTypes /\ HolderInv /\ TmpInv /\ TmpWhole /\ ValueInv /\ WalkInv /\ RewrapMovesAll
      /\ StoreCrashes \in Nat
  BY SecretStoreAssumption DEF SecretInv
<1>1. /\ ssTmp' = NoWrite /\ ssHolder' = "none" /\ ssWalk' = <<>> /\ ssFiles' = ssFiles /\ ssPuts' = ssPuts
      /\ ssCrashes' \in 0..StoreCrashes /\ ssKms' \in Kms \cup {"local"}
      /\ (ssRewrapped' => ssRewrapped /\ ssKms' = ssKms)
  <2>1. CASE SecretFails
    BY <1>0, <2>1 DEF SecretFails, SecretTypes
  <2>2. CASE SecretCrash
    BY <1>0, <2>2 DEF SecretCrash, SecretTypes
  <2>3. CASE \E kms \in Kms : SetKms(kms)
    BY <1>0, <2>3 DEF SetKms, SecretTypes, HolderInv
  <2> QED BY <2>1, <2>2, <2>3
<1>2. SecretTypes'
  <2>1. ssTmp' \in [key : SecretKey \cup {"none"}, file : SecretFile]
    BY <1>1, NoSecretIsFile DEF NoWrite
  <2> QED BY <1>0, <1>1, <2>1 DEF SecretTypes
<1>3. HolderInv' /\ TmpInv' /\ TmpWhole' /\ ValueInv'
  BY <1>0, <1>1 DEF HolderInv, TmpInv, TmpWhole, ValueInv
<1>4. WalkInv'
  BY <1>1 DEF WalkInv, InWalk
<1>5. RewrapMovesAll'
  BY <1>0, <1>1, Zenon DEF RewrapMovesAll
<1> QED BY <1>1, <1>2, <1>3, <1>4, <1>5

\* A sequence of a finite set's elements has each of them at one place.
LEMMA SetInSeq ==
  ASSUME NEW S, IsFiniteSet(S)
  PROVE  /\ SetToSeq(S) \in Seq(S) /\ Len(SetToSeq(S)) = Cardinality(S) /\ Cardinality(S) \in Nat
         /\ \A a, b \in 1..Cardinality(S) : SetToSeq(S)[a] = SetToSeq(S)[b] => a = b
         /\ \A x \in S : \E k \in 1..Cardinality(S) : SetToSeq(S)[k] = x
<1> DEFINE n == Cardinality(S)
<1>1. n \in Nat /\ ExistsBijection(1..n, S)
  BY FS_CardinalityType
<1> HIDE DEF n
<1>2. PICK g \in [1..n -> S] : IsInjective(g)
  BY <1>1, Zenon DEF ExistsBijection, Bijection, Injection
<1>3. PICK f \in [1..n -> S] : f = SetToSeq(S) /\ IsInjective(f)
  <2>1. SetToSeq(S) = CHOOSE f \in [1..n -> S] : IsInjective(f)
    BY Zenon DEF SetToSeq, n
  <2> QED BY <1>2, <2>1, Zenon
<1>4. IsFiniteSet(1..n) /\ Cardinality(1..n) = n
  BY <1>1, FS_Interval
<1>5. f \in Injection(1..n, S)
  BY <1>3, Zenon DEF Injection
<1>6. f \in Surjection(1..n, S)
  BY <1>4, <1>5, FS_Injection, Zenon DEF n
<1>7. \A x \in S : \E k \in 1..n : f[k] = x
  BY <1>6, Zenon DEF Surjection
<1>8. \A a, b \in 1..n : f[a] = f[b] => a = b
  BY <1>3 DEF IsInjective
<1>9. f \in Seq(S) /\ Len(f) = n
  BY <1>1
<1> QED BY <1>1, <1>3, <1>7, <1>8, <1>9, Zenon DEF n

\* RewrapAllFiles goes through every file there is.
LEMMA BeginKeeps ==
  ASSUME SecretInv, RewrapBegins
  PROVE  SecretTypes' /\ HolderInv' /\ TmpInv' /\ TmpWhole' /\ ValueInv' /\ WalkInv' /\ RewrapMovesAll'
<1>0. /\ SecretTypes /\ HolderInv /\ TmpInv /\ TmpWhole /\ ValueInv /\ WalkInv /\ RewrapMovesAll
      /\ IsFiniteSet(SecretKey)
  BY SecretStoreAssumption DEF SecretInv
<1>1. PICK ks : ks = Visited
  OBVIOUS
<1>2. ks \subseteq SecretKey /\ IsFiniteSet(ks)
  <2>1. ks \subseteq SecretKey
    BY <1>1 DEF Visited
  <2> QED BY <1>0, <2>1, FS_Subset
<1>3. PICK walk : walk = SetToSeq(ks)
  OBVIOUS
<1>4. /\ walk \in Seq(ks) /\ Len(walk) = Cardinality(ks) /\ Cardinality(ks) \in Nat
      /\ \A x \in ks : \E i \in 1..Cardinality(ks) : walk[i] = x
  BY <1>2, <1>3, SetInSeq, Zenon
<1>5. walk \in Seq(SecretKey) /\ \A i \in 1..Len(walk) : walk[i] \in ks
  BY <1>2, <1>4
<1>6. \A x \in ks : \E i \in 1..Len(walk) : walk[i] = x
  BY <1>4, Zenon
<1>7. /\ ssHolder = "none" /\ ssKms # "local" /\ ssHolder' = "rewrap" /\ ssWalk' = walk
      /\ UNCHANGED <<ssFiles, ssTmp, ssKms, ssRewrapped, ssPuts, ssCrashes>>
  BY <1>1, <1>3 DEF RewrapBegins
<1>8. SecretTypes'
  BY <1>0, <1>5, <1>7 DEF SecretTypes
<1>9. HolderInv'
  BY <1>7 DEF HolderInv
<1>10. TmpInv' /\ TmpWhole'
  BY <1>0, <1>7 DEF HolderInv, TmpInv, TmpWhole
<1>11. ValueInv' /\ RewrapMovesAll'
  BY <1>0, <1>7 DEF ValueInv, RewrapMovesAll
<1>12. WalkInv'
  <2>1. \A k : InWalk(k)' <=> k \in ks
    BY <1>5, <1>6, <1>7 DEF InWalk
  <2>2. \A k \in SecretKey : k \in ks <=> ssFiles[k].value # 0
    BY <1>1 DEF Visited
  <2> QED BY <1>7, <2>1, <2>2 DEF WalkInv
<1> QED BY <1>8, <1>9, <1>10, <1>11, <1>12

\* The file of a rewrap has the value and the data it had, with a key of the KMS.
LEMMA RewrappedFile ==
  ASSUME NEW f \in SecretFile, NEW split \in Splits, ssKms \in Kms
  PROVE  /\ Rewrapped(f, split) \in SecretFile
         /\ Rewrapped(f, split).value = f.value /\ Rewrapped(f, split).header = "kms"
         /\ Rewrapped(f, split).by = ssKms
         /\ Rewrapped(f, split).whole \/ ~f.whole \/ f.split = "in the data"
<1>1. PICK whole : whole = (f.whole /\ f.split # "in the data")
  OBVIOUS
<1>2. whole \in BOOLEAN /\ (whole \/ ~f.whole \/ f.split = "in the data")
  BY <1>1
<1>3. PICK r : r = [f EXCEPT !.header = "kms", !.by = ssKms, !.split = split, !.whole = whole]
  OBVIOUS
<1>4. Rewrapped(f, split) = r
  BY <1>1, <1>3 DEF Rewrapped
<1>5. r.value = f.value /\ r.header = "kms" /\ r.by = ssKms /\ r.whole = whole
  BY <1>3 DEF SecretFile
<1>6. r \in SecretFile
  BY <1>2, <1>3 DEF SecretFile
<1> QED BY <1>2, <1>4, <1>5, <1>6, Zenon

\* A rewrap strikes the file off that it writes.
LEMMA FileKeeps ==
  ASSUME SecretInv, NEW split \in Splits, RewrapFile(split)
  PROVE  SecretTypes' /\ HolderInv' /\ TmpInv' /\ TmpWhole' /\ ValueInv' /\ WalkInv' /\ RewrapMovesAll'
<1>0. /\ SecretTypes /\ HolderInv /\ TmpInv /\ TmpWhole /\ ValueInv /\ WalkInv /\ RewrapMovesAll
      /\ MaxPut \in Nat
  BY SecretStoreAssumption DEF SecretInv
<1>1. PICK n \in Nat : n = Len(ssWalk) /\ n # 0
  BY <1>0 DEF RewrapFile, SecretTypes
<1>2. PICK k \in SecretKey : k = ssWalk[1]
  BY <1>0, <1>1 DEF SecretTypes
<1>2a. Head(ssWalk) = k
  BY <1>0, <1>1, <1>2 DEF SecretTypes
<1>3. PICK rest : rest = Tail(ssWalk)
  OBVIOUS
<1>4. Len(rest) = n - 1 /\ \A i \in 1..(n - 1) : rest[i] = ssWalk[i + 1]
  BY <1>0, <1>1, <1>3 DEF SecretTypes
<1>4a. rest \in Seq(SecretKey)
  BY <1>0, <1>1, <1>3 DEF SecretTypes
<1>5. ssKms \in Kms
  BY <1>0 DEF RewrapFile, HolderInv, SecretTypes
<1>6. PICK f \in SecretFile : f = ssFiles[k]
  BY <1>0 DEF SecretTypes
<1>7. PICK g \in SecretFile : g = Rewrapped(f, split)
  BY <1>5, RewrappedFile
<1>8. g.value = f.value /\ g.header = "kms" /\ g.by = ssKms
  BY <1>5, <1>7, RewrappedFile
<1>8a. g.whole \/ ~f.whole \/ f.split = "in the data"
  BY <1>5, <1>7, RewrappedFile, Zenon
<1>9. /\ ssTmp' = [key |-> k, file |-> g] /\ ssTmp = NoWrite /\ ssHolder = "rewrap" /\ ssWalk' = rest
      /\ UNCHANGED <<ssFiles, ssKms, ssHolder, ssRewrapped, ssPuts, ssCrashes>>
  BY <1>2a, <1>3, <1>6, <1>7 DEF RewrapFile
<1>10. ssTmp'.key = k /\ ssTmp'.file = g
  BY <1>9
<1>11. f.value # 0
  BY <1>0, <1>1, <1>2, <1>6 DEF WalkInv, InWalk
<1>12. SecretTypes'
  <2>1. ssTmp' \in [key : SecretKey \cup {"none"}, file : SecretFile]
    BY <1>9
  <2> QED BY <1>0, <1>4a, <1>9, <2>1 DEF SecretTypes
<1>13. HolderInv'
  BY <1>0, <1>9 DEF HolderInv
<1>14. TmpInv'
  <2>1. f.value \in 0..MaxPut /\ f.value <= ssPuts
    BY <1>0, <1>6 DEF ValueInv, SecretFile
  <2>2. HeaderOf(ssKms)' = "kms"
    BY <1>0, <1>9 DEF HeaderOf, HolderInv
  <2>3. ssFiles'[k].value <= g.value
    BY <1>0, <1>6, <1>8, <1>9, <2>1
  <2> QED BY <1>8, <1>9, <1>10, <1>11, <2>1, <2>2, <2>3, Zenon DEF TmpInv
<1>15. TmpWhole'
  BY <1>6, <1>8a, <1>9, <1>10, Zenon DEF TmpWhole
<1>16. ValueInv' /\ RewrapMovesAll'
  BY <1>0, <1>9 DEF ValueInv, RewrapMovesAll
<1>17. WalkInv'
  <2>1. ASSUME NEW x, InWalk(x)' PROVE InWalk(x)
    <3>1. PICK i \in 1..(n - 1) : ssWalk[i + 1] = x
      BY <1>4, <1>9, <2>1 DEF InWalk
    <3> QED BY <1>1, <3>1 DEF InWalk
  <2>2. ASSUME NEW x, InWalk(x), x # k PROVE InWalk(x)'
    <3>1. PICK i \in 2..n : ssWalk[i] = x
      BY <1>1, <1>2, <2>2 DEF InWalk
    <3>2. i - 1 \in 1..(n - 1) /\ rest[i - 1] = x
      BY <1>1, <1>4, <3>1
    <3> QED BY <1>1, <1>4, <1>9, <3>2 DEF InWalk
  <2>3. ssTmp' # NoWrite
    BY <1>10, <1>11, <1>8, NoSecretIsFile DEF NoWrite
  <2> QED BY <1>0, <1>9, <1>10, <2>1, <2>2, <2>3 DEF WalkInv
<1> QED BY <1>12, <1>13, <1>14, <1>15, <1>16, <1>17

\* A rewrap that has gone through all files has moved them to the KMS.
LEMMA EndKeeps ==
  ASSUME SecretInv, RewrapEnds
  PROVE  SecretTypes' /\ HolderInv' /\ TmpInv' /\ TmpWhole' /\ ValueInv' /\ WalkInv' /\ RewrapMovesAll'
<1>0. SecretTypes /\ HolderInv /\ TmpInv /\ TmpWhole /\ ValueInv /\ WalkInv /\ RewrapMovesAll
  BY DEF SecretInv
<1>1. /\ ssHolder = "rewrap" /\ ssTmp = NoWrite /\ ssWalk = <<>> /\ ssHolder' = "none"
      /\ UNCHANGED <<ssFiles, ssTmp, ssKms, ssWalk, ssPuts, ssCrashes>>
  BY DEF RewrapEnds
<1>2. SecretTypes' /\ HolderInv'
  BY <1>0, <1>1 DEF SecretTypes, HolderInv
<1>3. TmpInv' /\ TmpWhole' /\ ValueInv'
  BY <1>0, <1>1 DEF TmpInv, TmpWhole, ValueInv
<1>4. \A k : ~InWalk(k) /\ ~InWalk(k)'
  BY <1>1 DEF InWalk
<1>5. WalkInv' /\ RewrapMovesAll'
  BY <1>0, <1>1, <1>4 DEF WalkInv, RewrapMovesAll
<1> QED BY <1>2, <1>3, <1>5

\* Every step keeps the invariant, and what can be read stays readable.
LEMMA SecretStep ==
  ASSUME SecretInv, [SecretNext]_ssVars
  PROVE  SecretInv' /\ ReadableStays
<1>0. SecretTypes
  BY DEF SecretInv
<1>1. ssRewrapped' \in BOOLEAN
  BY Zenon DEF SecretInv, SecretNext, ssVars, PutSecret, RenameSecret, SecretFails, SetKms, RewrapBegins, RewrapFile,
               RewrapEnds, SecretCrash
<1>2. CASE UNCHANGED ssVars
  <2>1. SecretInv'
    BY <1>2 DEF SecretInv, ssVars, SecretTypes, HolderInv, TmpInv, TmpWhole, ValueInv, WalkInv, InWalk, RewrapMovesAll,
               HeaderOf
  <2> QED BY <1>0, <1>2, <2>1, FilesStay DEF ssVars
<1>3. ASSUME NEW k \in SecretKey, NEW split \in Splits, PutSecret(k, split)
      PROVE  SecretInv' /\ ReadableStays
  BY <1>0, <1>1, <1>3, PutKeeps, FilesStay DEF SecretInv, PutSecret
<1>4. CASE RenameSecret
  BY <1>1, <1>4, RenameKeeps DEF SecretInv
<1>5. CASE SecretFails \/ SecretCrash \/ \E kms \in Kms : SetKms(kms)
  BY <1>0, <1>1, <1>5, CutKeeps, FilesStay DEF SecretInv
<1>6. CASE RewrapBegins
  BY <1>0, <1>1, <1>6, BeginKeeps, FilesStay DEF SecretInv, RewrapBegins
<1>7. ASSUME NEW split \in Splits, RewrapFile(split)
      PROVE  SecretInv' /\ ReadableStays
  BY <1>0, <1>1, <1>7, FileKeeps, FilesStay DEF SecretInv, RewrapFile
<1>8. CASE RewrapEnds
  BY <1>0, <1>1, <1>8, EndKeeps, FilesStay DEF SecretInv, RewrapEnds
<1> QED BY <1>2, <1>3, <1>4, <1>5, <1>6, <1>7, <1>8 DEF SecretNext

\* The invariant of the secret store says what SecretsRight asks of it.
LEMMA SecretHolds == SecretInv => SecretTypeOK /\ RewrapMovesAll
<1> SUFFICES ASSUME SecretInv PROVE SecretTypeOK /\ RewrapMovesAll
  OBVIOUS
<1> QED BY Zenon DEF SecretInv, SecretTypes, SecretTypeOK

-----------------------------------------------------------------------------
(* The cache of the vault's client.                                          *)

VcReading == [step : {"idle", "trying", "fetched"}, tries : 0..StoreRetries, ttl : {0, ShortTTL}, version : 0..MaxVersion]
VcStoring == [step : {"idle", "trying", "written"}, tries : 0..StoreRetries, version : 0..MaxVersion]

VcTypes ==
  /\ vcNext \in 1..MaxVersion /\ vcVault \in 1..vcNext
  /\ vcCache \in [version : 0..MaxVersion, left : 0..CacheTTL]
  /\ vcRead \in [VcReader -> VcReading] /\ vcStore \in [VcStorer -> VcStoring]
  /\ vcLate \subseteq 0..MaxVersion

\* What was fetched and what is being stored are versions there are.
VersionInv ==
  /\ \A r \in VcReader : vcRead[r].step = "fetched" => vcRead[r].version \in 1..vcNext
  /\ \A s \in VcStorer : vcStore[s].step # "idle" => vcStore[s].version \in 1..vcNext

\* A version that is not the vault's, and not on record as late, has a store under way.
Explained(v) == v = vcVault \/ v \in vcLate \/ \E s \in VcStorer : vcStore[s].step # "idle"

CurrentInv ==
  /\ FreshEntry => Explained(vcCache.version)
  /\ \A r \in VcReader : vcRead[r].step = "fetched" => Explained(vcRead[r].version)

VcInv == VcTypes /\ VersionInv /\ CurrentInv

\* An empty cache satisfies the invariant.
LEMMA VcInitInv == VaultCacheInit => VcInv
<1> SUFFICES ASSUME VaultCacheInit PROVE VcInv
  OBVIOUS
<1>1. NotReading \in VcReading /\ NotStoring \in VcStoring
  BY VaultCacheAssumption DEF NotReading, NotStoring, VcReading, VcStoring
<1>2. NoEntry \in [version : 0..MaxVersion, left : 0..CacheTTL]
  BY VaultCacheAssumption DEF NoEntry
<1>3. VcTypes
  BY <1>1, <1>2, VaultCacheAssumption DEF VaultCacheInit, VcTypes
<1>4. VersionInv /\ CurrentInv
  BY VaultCacheAssumption DEF VaultCacheInit, VersionInv, CurrentInv, FreshEntry, NoEntry, NotReading, NotStoring
<1> QED BY <1>3, <1>4 DEF VcInv

\* A step of a reader: it waits, fetches what the vault holds, gives up or caches
\* what it has fetched.
LEMMA ReaderStep ==
  ASSUME VcInv, NEW r \in VcReader,
         (\E ttl \in {0, ShortTTL} : ReadSecret(r, ttl)) \/ FetchSecret(r) \/ FetchFails(r) \/ CacheSecret(r)
  PROVE  VcInv'
<1>0. /\ VcTypes /\ VersionInv /\ CurrentInv
      /\ StoreRetries \in Nat \ {0} /\ CacheTTL \in Nat \ {0} /\ ShortTTL \in 1..CacheTTL
  BY VaultCacheAssumption DEF VcInv
<1>1. UNCHANGED <<vcVault, vcNext, vcStore, vcLate>>
  BY DEF ReadSecret, FetchSecret, FetchFails, CacheSecret
<1>2. ASSUME NEW v, Explained(v) PROVE Explained(v)'
  <2>1. vcVault' = vcVault /\ vcStore' = vcStore /\ vcLate' = vcLate
    BY <1>1
  <2>2. CASE \E s \in VcStorer : vcStore[s].step # "idle"
    <3>1. \E s \in VcStorer : vcStore'[s].step # "idle"
      BY <2>1, <2>2
    <3> QED BY <3>1 DEF Explained
  <2>3. CASE v = vcVault \/ v \in vcLate
    <3>1. v = vcVault' \/ v \in vcLate'
      BY <2>1, <2>3
    <3> QED BY <3>1 DEF Explained
  <2>4. v = vcVault \/ v \in vcLate \/ \E s \in VcStorer : vcStore[s].step # "idle"
    BY <1>2 DEF Explained
  <2> QED BY <2>2, <2>3, <2>4
<1>3. NotReading \in VcReading /\ NotReading.step = "idle"
  BY <1>0, VaultCacheAssumption DEF NotReading, VcReading
<1>4. \E read \in VcReading :
        /\ vcRead' = [vcRead EXCEPT ![r] = read]
        /\ read.step = "fetched" => read.version = vcVault
  <2>1. ASSUME NEW ttl \in {0, ShortTTL}, ReadSecret(r, ttl)
        PROVE  \E read \in VcReading : /\ vcRead' = [vcRead EXCEPT ![r] = read]
                                       /\ read.step = "fetched" => read.version = vcVault
    <3>1. PICK read : read = [NotReading EXCEPT !.step = "trying", !.ttl = ttl]
      OBVIOUS
    <3>0. read = [step |-> "trying", tries |-> 0, ttl |-> ttl, version |-> 0]
      BY <3>1 DEF NotReading
    <3>2. read \in VcReading /\ read.step = "trying"
      BY <1>0, <3>0, VaultCacheAssumption DEF VcReading
    <3> QED BY <2>1, <3>1, <3>2 DEF ReadSecret, ReadTo
  <2>2. CASE FetchSecret(r)
    <3>1. PICK read : read = [vcRead[r] EXCEPT !.step = "fetched", !.version = vcVault]
      OBVIOUS
    <3>0. vcVault \in 0..MaxVersion /\ vcRead[r] \in VcReading
      BY <1>0, VaultCacheAssumption DEF VcTypes
    <3>2. read \in VcReading /\ read.version = vcVault
      BY <3>0, <3>1 DEF VcReading
    <3> QED BY <2>2, <3>1, <3>2 DEF FetchSecret, ReadTo
  <2>3. CASE FetchFails(r)
    <3>1. PICK read : read = [vcRead[r] EXCEPT !.tries = @ + 1]
      OBVIOUS
    <3>2. vcRead[r].tries < StoreRetries => read \in VcReading
      BY <1>0, <3>1 DEF VcTypes, VcReading
    <3>3. vcRead[r].step = "trying" => read.step = "trying"
      BY <1>0, <3>1 DEF VcTypes, VcReading
    <3> QED BY <1>3, <2>3, <3>1, <3>2, <3>3 DEF FetchFails, ReadTo
  <2>4. CASE CacheSecret(r)
    BY <1>3, <2>4 DEF CacheSecret, ReadTo
  <2> QED BY <2>1, <2>2, <2>3, <2>4
<1>5. PICK read \in VcReading :
        /\ vcRead' = [vcRead EXCEPT ![r] = read]
        /\ read.step = "fetched" => read.version = vcVault
  BY <1>4
<1>6. vcRead'[r] = read /\ \A q \in VcReader \ {r} : vcRead'[q] = vcRead[q]
  BY <1>0, <1>5 DEF VcTypes
<1>7. /\ vcCache' \in [version : 0..MaxVersion, left : 0..CacheTTL]
      /\ FreshEntry' => Explained(vcCache'.version)
  <2>1. CASE CacheSecret(r)
    <3>1. PICK v \in 0..MaxVersion : v = vcRead[r].version
      BY <1>0 DEF VcTypes, VcReading
    <3>2. PICK left \in 0..CacheTTL : left = UseTtl(vcRead[r].ttl)
      BY <1>0 DEF VcTypes, VcReading, UseTtl
    <3>3. vcCache' = [version |-> v, left |-> left]
      BY <2>1, <3>1, <3>2 DEF CacheSecret
    <3>4. Explained(v)
      BY <1>0, <2>1, <3>1 DEF CurrentInv, CacheSecret
    <3> QED BY <3>3, <3>4
  <2>2. CASE ~CacheSecret(r)
    <3>1. vcCache' = vcCache
      BY <2>2 DEF ReadSecret, FetchSecret, FetchFails
    <3> QED BY <1>0, <3>1 DEF VcTypes, CurrentInv, FreshEntry
  <2> QED BY <2>1, <2>2
<1>8. VcTypes'
  BY <1>0, <1>1, <1>5, <1>7 DEF VcTypes
<1>9. VersionInv'
  BY <1>0, <1>1, <1>5, <1>6 DEF VersionInv, VcTypes
<1>10. CurrentInv'
  <2>1. FreshEntry' => Explained(vcCache.version)'
    BY <1>1, <1>7 DEF Explained
  <2>2. ASSUME NEW q \in VcReader, vcRead'[q].step = "fetched"
        PROVE  Explained(vcRead[q].version)'
    <3>1. CASE q = r
      BY <1>1, <1>5, <1>6, <2>2, <3>1 DEF Explained
    <3>2. CASE q # r
      BY <1>0, <1>1, <1>6, <2>2, <3>2 DEF Explained, CurrentInv
    <3> QED BY <3>1, <3>2
  <2> QED BY <2>1, <2>2 DEF CurrentInv
<1> QED BY <1>8, <1>9, <1>10 DEF VcInv

\* A store under way explains every version; one that ends puts what is fetched and
\* what stays cached on record.
LEMMA StorerStep ==
  ASSUME VcInv, NEW s \in VcStorer,
         StoreSecret(s) \/ WriteSecret(s) \/ WriteFails(s) \/ StoreGivesUp(s) \/ DropEntry(s)
  PROVE  VcInv'
<1>0. VcTypes /\ VersionInv /\ CurrentInv /\ StoreRetries \in Nat \ {0} /\ MaxVersion \in Nat \ {0}
  BY VaultCacheAssumption DEF VcInv
<1>1. vcRead' = vcRead
  BY DEF StoreSecret, WriteSecret, WriteFails, StoreGivesUp, DropEntry
<1>2. NotStoring \in VcStoring
  BY <1>0 DEF NotStoring, VcStoring
<1>3. CASE StoreSecret(s)
  <2>1. PICK store : store = [step |-> "trying", tries |-> 0, version |-> vcNext + 1]
    OBVIOUS
  <2>2. /\ vcNext < MaxVersion /\ vcNext' = vcNext + 1 /\ vcStore' = [vcStore EXCEPT ![s] = store]
        /\ UNCHANGED <<vcVault, vcCache, vcLate>>
    BY <1>3, <2>1 DEF StoreSecret, StoreTo
  <2>3. store \in VcStoring /\ store.step = "trying" /\ store.version = vcNext + 1
    BY <1>0, <2>1, <2>2 DEF VcStoring, VcTypes
  <2>4. vcStore'[s] = store /\ \A q \in VcStorer \ {s} : vcStore'[q] = vcStore[q]
    BY <1>0, <2>2 DEF VcTypes
  <2>5. VcTypes'
    BY <1>0, <1>1, <2>2, <2>3 DEF VcTypes
  <2>6. VersionInv'
    BY <1>0, <1>1, <2>2, <2>3, <2>4 DEF VersionInv, VcTypes
  <2>7. CurrentInv'
    BY <2>3, <2>4 DEF CurrentInv, Explained
  <2> QED BY <2>5, <2>6, <2>7 DEF VcInv
<1>4. CASE WriteSecret(s) \/ WriteFails(s)
  <2>1. PICK store \in VcStoring : /\ vcStore' = [vcStore EXCEPT ![s] = store]
                                   /\ store.step # "idle" /\ store.version = vcStore[s].version
    <3>1. CASE WriteSecret(s)
      <4>1. PICK store : store = [vcStore[s] EXCEPT !.step = "written"]
        OBVIOUS
      <4>2. store \in VcStoring /\ store.step # "idle" /\ store.version = vcStore[s].version
        BY <1>0, <4>1 DEF VcTypes, VcStoring
      <4> QED BY <3>1, <4>1, <4>2 DEF WriteSecret, StoreTo
    <3>2. CASE WriteFails(s)
      <4>1. PICK store : store = [vcStore[s] EXCEPT !.tries = @ + 1]
        OBVIOUS
      <4>2. store \in VcStoring /\ store.step # "idle" /\ store.version = vcStore[s].version
        BY <1>0, <3>2, <4>1 DEF VcTypes, VcStoring, WriteFails
      <4> QED BY <3>2, <4>1, <4>2 DEF WriteFails, StoreTo
    <3> QED BY <1>4, <3>1, <3>2
  <2>2. /\ vcStore[s].step # "idle" /\ vcVault' \in {vcVault, vcStore[s].version}
        /\ UNCHANGED <<vcNext, vcCache, vcLate>>
    BY <1>4 DEF WriteSecret, WriteFails
  <2>3. vcStore'[s] = store /\ \A q \in VcStorer \ {s} : vcStore'[q] = vcStore[q]
    BY <1>0, <2>1 DEF VcTypes
  <2>4. vcVault' \in 1..vcNext
    BY <1>0, <2>2 DEF VersionInv, VcTypes
  <2>5. VcTypes'
    BY <1>0, <1>1, <2>1, <2>2, <2>4 DEF VcTypes
  <2>6. VersionInv'
    BY <1>0, <1>1, <2>1, <2>2, <2>3 DEF VersionInv, VcTypes
  <2>7. CurrentInv'
    BY <2>1, <2>3 DEF CurrentInv, Explained
  <2> QED BY <2>5, <2>6, <2>7 DEF VcInv
<1>5. CASE StoreGivesUp(s) \/ DropEntry(s)
  <2>1. /\ vcStore' = [vcStore EXCEPT ![s] = NotStoring] /\ UNCHANGED <<vcVault, vcNext>>
        /\ vcLate \cup FetchedVersions \subseteq vcLate'
        /\ \/ vcCache' = NoEntry /\ vcLate' = vcLate \cup FetchedVersions
           \/ vcCache' = vcCache /\ vcLate' = vcLate \cup {vcCache.version} \cup FetchedVersions
    BY <1>5 DEF StoreGivesUp, DropEntry, StoreTo, AfterStore
  <2>2. vcStore'[s] = NotStoring /\ \A q \in VcStorer \ {s} : vcStore'[q] = vcStore[q]
    BY <1>0, <2>1 DEF VcTypes
  <2>3. FetchedVersions \subseteq 0..MaxVersion
    BY <1>0 DEF FetchedVersions, VcTypes
  <2>4. VcTypes'
    <3>1. vcCache' \in [version : 0..MaxVersion, left : 0..CacheTTL]
      BY <1>0, <2>1, VaultCacheAssumption DEF NoEntry, VcTypes
    <3>2. vcCache.version \in 0..MaxVersion
      BY <1>0 DEF VcTypes
    <3>3. vcLate' \subseteq 0..MaxVersion
      BY <1>0, <2>1, <2>3, <3>2 DEF VcTypes
    <3> QED BY <1>0, <1>1, <1>2, <2>1, <3>1, <3>3 DEF VcTypes
  <2>5. VersionInv'
    BY <1>0, <1>1, <2>1, <2>2 DEF VersionInv, NotStoring
  <2>6. CurrentInv'
    <3>1. ASSUME NEW r \in VcReader, vcRead[r].step = "fetched" PROVE vcRead[r].version \in vcLate'
      <4>1. vcRead[r].version \in FetchedVersions
        BY <1>0, <3>1 DEF FetchedVersions, Fetched, VersionInv
      <4> QED BY <2>1, <4>1
    <3>2. FreshEntry' => vcCache'.version \in vcLate'
      BY <2>1 DEF FreshEntry, NoEntry
    <3> QED BY <1>1, <3>1, <3>2 DEF CurrentInv, Explained
  <2> QED BY <2>4, <2>5, <2>6 DEF VcInv
<1> QED BY <1>3, <1>4, <1>5

\* Every step of the client keeps the invariant, of its readers and of its storers.
LEMMA VcStep ==
  ASSUME VcInv, [VaultCacheNext]_vcVars
  PROVE  VcInv'
<1>0. VcTypes /\ VersionInv /\ CurrentInv
  BY DEF VcInv
<1>1. CASE UNCHANGED vcVars
  BY <1>0, <1>1 DEF vcVars, VcInv, VcTypes, VersionInv, CurrentInv, FreshEntry, Explained
<1>2. CASE CacheTicks
  <2>1. PICK v \in 0..MaxVersion, left \in 0..CacheTTL : vcCache = [version |-> v, left |-> left]
    BY <1>0 DEF VcTypes
  <2>2. vcCache' = [version |-> v, left |-> left - 1] /\ left > 0 /\ UNCHANGED <<vcVault, vcNext, vcRead, vcStore, vcLate>>
    BY <1>2, <2>1 DEF CacheTicks
  <2>3. left - 1 \in 0..CacheTTL /\ vcCache'.version = vcCache.version /\ FreshEntry
    BY <2>1, <2>2, VaultCacheAssumption DEF FreshEntry
  <2>4. VcTypes'
    BY <1>0, <2>2, <2>3 DEF VcTypes
  <2>5. VersionInv' /\ CurrentInv'
    BY <1>0, <2>2, <2>3 DEF VersionInv, CurrentInv, Explained
  <2> QED BY <2>4, <2>5 DEF VcInv
<1>3. ASSUME NEW r \in VcReader,
             (\E ttl \in {0, ShortTTL} : ReadSecret(r, ttl)) \/ FetchSecret(r) \/ FetchFails(r) \/ CacheSecret(r)
      PROVE  VcInv'
  BY <1>3, ReaderStep, Zenon
<1>4. ASSUME NEW s \in VcStorer,
             StoreSecret(s) \/ WriteSecret(s) \/ WriteFails(s) \/ StoreGivesUp(s) \/ DropEntry(s)
      PROVE  VcInv'
  BY <1>4, StorerStep, Zenon
<1> QED BY <1>1, <1>2, <1>3, <1>4 DEF VaultCacheNext

\* The invariant of the cache says what SecretsRight asks of it.
LEMMA VcHolds == VcInv => VcTypeOK /\ CacheIsCurrent
<1> SUFFICES ASSUME VcInv PROVE VcTypeOK /\ CacheIsCurrent
  OBVIOUS
<1>1. VcTypeOK
  BY DEF VcInv, VcTypes, VcTypeOK, VcReading, VcStoring
<1>2. CacheIsCurrent
  BY DEF VcInv, CurrentInv, CacheIsCurrent, Explained
<1> QED BY <1>1, <1>2

-----------------------------------------------------------------------------
(* The residency rules.                                                      *)

TransferPlace == {"idle", "weighs", "decides", "pushes", "answers"}
DrAction == {"none", "allowed", "warn", "blocked"}
Move == [from : Region \cup {"none"}, to : Region \cup {"none"}, country : Country \cup {"none"}]
DrEntry == [from : Region \cup {"none"}, action : DrAction]

DrTypes ==
  /\ drRules \subseteq Rule /\ drHistory \in Seq(DrEntry) /\ Len(drHistory) <= HistorySize
  /\ drReaders \in [Transfer -> 0..1] /\ drWaiting \subseteq DrCall
  /\ drAt \in [DrCall -> TransferPlace \cup {"waits"}]
  /\ drMove \in [Transfer -> Move] /\ drScore \in [Transfer -> 0..100]
  /\ drAnswer \in [Transfer -> DrAction]
  /\ drPlan \in [RuleWriter -> Rule \cup {NoRule}]
DrAloneOK == drAlone \in [Transfer -> BOOLEAN]

\* A transfer that weighs has a country, and one that has not decided has no answer;
\* a writer that waits has a rule to change.
CallInv ==
  /\ \A c \in Transfer : /\ drAt[c] \in TransferPlace
                         /\ drAt[c] = "weighs" => drMove[c].country \in Country
                         /\ drAt[c] \in {"idle", "weighs", "decides"} => drAnswer[c] = "none"
  /\ \A w \in RuleWriter : /\ drAt[w] \in {"idle", "waits"}
                           /\ drAt[w] = "waits" => drPlan[w] \in Rule

ResidencyInv == DrTypes /\ DrAloneOK /\ CallInv /\ StrictStays

\* Without transfers and changes the invariant holds.
LEMMA ResidencyInitInv == ResidencyInit => ResidencyInv
<1> SUFFICES ASSUME ResidencyInit PROVE ResidencyInv
  OBVIOUS
<1>1. NoMove \in Move
  BY DEF NoMove, Move
<1>2. DrTypes
  BY <1>1, ResidencyAssumption DEF ResidencyInit, DrTypes, DrCall, TransferPlace, DrAction, NoRule
<1>3. DrAloneOK
  BY DEF ResidencyInit, DrAloneOK
<1>4. CallInv /\ StrictStays
  BY DEF ResidencyInit, CallInv, StrictStays, DrCall, TransferPlace
<1> QED BY <1>2, <1>3, <1>4 DEF ResidencyInv

\* The score of a transfer that weighs is a number up to 100.
LEMMA ScoreBound ==
  ASSUME DrTypes, NEW c \in Transfer, drMove[c].country \in Country, NEW r
  PROVE  ScoreOf(r, drMove[c]) \in 0..100
<1>1. BaseRisk[drMove[c].country] \in 0..90
  BY ResidencyAssumption
<1>2. Events(drMove[c].from) \in Nat
  <2>1. PICK n \in Nat : n = Len(drHistory) /\ DOMAIN drHistory = 1..n
    BY DEF DrTypes
  <2>2. IsFiniteSet(1..n)
    BY <2>1, FS_Interval
  <2>3. {k \in DOMAIN drHistory : drHistory[k].from = drMove[c].from
                                  /\ drHistory[k].action \in {"blocked", "warn"}} \subseteq 1..n
    BY <2>1
  <2> QED BY <2>2, <2>3, FS_Subset, FS_CardinalityType DEF Events
<1>3. Capped(Events(drMove[c].from), 10) \in Nat
  BY <1>2 DEF Capped
<1>4. Capped(Penalty(r, drMove[c]), 100) \in Nat
  <2>1. Penalty(r, drMove[c]) \in Nat
    BY DEF Penalty
  <2> QED BY <2>1 DEF Capped
<1>5. PICK n : n = BaseRisk[drMove[c].country] + Capped(Events(drMove[c].from), 10)
                    + (IF drMove[c].from # drMove[c].to THEN 25 ELSE 0) + Capped(Penalty(r, drMove[c]), 100)
  OBVIOUS
<1>6. n \in Nat
  BY <1>1, <1>3, <1>4, <1>5
<1>7. ScoreOf(r, drMove[c]) = Capped(n, 100)
  BY <1>5, Zenon DEF ScoreOf
<1> QED BY <1>6, <1>7 DEF Capped

\* A transfer keeps the invariant: it begins, weighs, decides by a rule of its region
\* as the rules are now, pushes what it decided and returns.
LEMMA TransferStep ==
  ASSUME ResidencyInv, NEW c \in Transfer,
         EnforceTransfer(c) \/ EvaluateRisk(c) \/ DecideTransfer(c) \/ PushLog(c) \/ TransferReturns(c)
  PROVE  ResidencyInv'
<1>0. /\ DrTypes /\ CallInv /\ HistorySize \in Nat \ {0} /\ Transfer \cap RuleWriter = {}
      /\ c \in DrCall
  BY ResidencyAssumption DEF ResidencyInv, DrCall
<1>1. DrAloneOK'
  BY Zenon DEF ResidencyInv, DrAloneOK, EnforceTransfer, EvaluateRisk, DecideTransfer, PushLog, TransferReturns
<1>2. drRules' = drRules /\ drPlan' = drPlan
  BY DEF EnforceTransfer, EvaluateRisk, DecideTransfer, PushLog, TransferReturns
<1>3. PICK place \in TransferPlace :
        /\ drAt' = [drAt EXCEPT ![c] = place]
        /\ \/ drAt[c] = "idle" /\ place = "weighs" /\ EnforceTransfer(c)
           \/ drAt[c] = "weighs" /\ place = "decides" /\ EvaluateRisk(c)
           \/ drAt[c] = "decides" /\ place = "pushes" /\ DecideTransfer(c)
           \/ drAt[c] = "pushes" /\ place = "answers" /\ PushLog(c)
           \/ drAt[c] = "answers" /\ place = "idle" /\ TransferReturns(c)
  <2>1. EnforceTransfer(c) => drAt[c] = "idle" /\ drAt' = [drAt EXCEPT ![c] = "weighs"]
    BY Zenon DEF EnforceTransfer, DrGoto
  <2>2. EvaluateRisk(c) => drAt[c] = "weighs" /\ drAt' = [drAt EXCEPT ![c] = "decides"]
    BY Zenon DEF EvaluateRisk, DrGoto
  <2>3. DecideTransfer(c) => drAt[c] = "decides" /\ drAt' = [drAt EXCEPT ![c] = "pushes"]
    BY Zenon DEF DecideTransfer, DrGoto
  <2>4. PushLog(c) => drAt[c] = "pushes" /\ drAt' = [drAt EXCEPT ![c] = "answers"]
    BY Zenon DEF PushLog, DrGoto
  <2>5. TransferReturns(c) => drAt[c] = "answers" /\ drAt' = [drAt EXCEPT ![c] = "idle"]
    BY Zenon DEF TransferReturns, DrGoto
  <2> QED BY <2>1, <2>2, <2>3, <2>4, <2>5 DEF TransferPlace
<1>4. /\ drAt' \in [DrCall -> TransferPlace \cup {"waits"}]
      /\ drAt'[c] = place /\ \A d \in DrCall \ {c} : drAt'[d] = drAt[d]
  BY <1>0, <1>3 DEF DrTypes
<1>5. PICK move \in Move, answer \in DrAction :
        /\ drMove' = [drMove EXCEPT ![c] = move] /\ drAnswer' = [drAnswer EXCEPT ![c] = answer]
        /\ EnforceTransfer(c) => move.country \in Country
        /\ EvaluateRisk(c) => move = drMove[c]
        /\ DecideTransfer(c) =>
             move = drMove[c] /\ \E r \in RuleFound(move.from) : answer = TransferDecision(r, move, drScore[c])
        /\ ~DecideTransfer(c) => answer = drAnswer[c] \/ answer = "none"
        /\ ~EnforceTransfer(c) => move = drMove[c] \/ answer = "none"
        /\ PushLog(c) => move = drMove[c] /\ answer = drAnswer[c]
  <2>0. drMove[c] \in Move /\ drAnswer[c] \in DrAction /\ "none" \in DrAction
    BY <1>0 DEF DrTypes, DrAction
  <2>1. CASE EnforceTransfer(c)
    <3>1. PICK from \in Region, to \in Region, country \in Country :
            drMove' = [drMove EXCEPT ![c] = [from |-> from, to |-> to, country |-> country]]
      BY <2>1 DEF EnforceTransfer
    <3>2. PICK move : move = [from |-> from, to |-> to, country |-> country]
      OBVIOUS
    <3>3. move \in Move /\ move.country \in Country
      BY <3>2 DEF Move
    <3>4. drAnswer' = [drAnswer EXCEPT ![c] = drAnswer[c]]
      BY <1>0, <2>1 DEF EnforceTransfer, DrTypes
    <3>5. ~EvaluateRisk(c) /\ ~DecideTransfer(c) /\ ~PushLog(c)
      BY <2>1 DEF EnforceTransfer, EvaluateRisk, DecideTransfer, PushLog
    <3> QED BY <2>0, <2>1, <3>1, <3>2, <3>3, <3>4, <3>5
  <2>2. CASE EvaluateRisk(c) \/ PushLog(c)
    <3>1. drMove' = [drMove EXCEPT ![c] = drMove[c]] /\ drAnswer' = [drAnswer EXCEPT ![c] = drAnswer[c]]
      BY <1>0, <2>2 DEF EvaluateRisk, PushLog, drCall, DrTypes
    <3>2. ~EnforceTransfer(c) /\ ~DecideTransfer(c)
      BY <2>2 DEF EnforceTransfer, EvaluateRisk, DecideTransfer, PushLog
    <3> QED BY <2>0, <3>1, <3>2
  <2>3. CASE DecideTransfer(c)
    <3>1. PICK r \in RuleFound(drMove[c].from) :
            drAnswer' = [drAnswer EXCEPT ![c] = TransferDecision(r, drMove[c], drScore[c])]
      BY <2>3 DEF DecideTransfer
    <3>2. PICK answer : answer = TransferDecision(r, drMove[c], drScore[c])
      OBVIOUS
    <3>3. answer \in DrAction
      BY <3>2 DEF TransferDecision, ActionOf, DrAction
    <3>4. drMove' = [drMove EXCEPT ![c] = drMove[c]]
      BY <1>0, <2>3 DEF DecideTransfer, DrTypes
    <3>5. ~EvaluateRisk(c) /\ ~EnforceTransfer(c) /\ ~PushLog(c)
      BY <2>3 DEF EnforceTransfer, EvaluateRisk, DecideTransfer, PushLog
    <3> QED BY <2>0, <2>3, <3>1, <3>2, <3>3, <3>4, <3>5
  <2>4. CASE TransferReturns(c)
    <3>1. NoMove \in Move
      BY DEF NoMove, Move
    <3>2. ~EvaluateRisk(c) /\ ~EnforceTransfer(c) /\ ~PushLog(c) /\ ~DecideTransfer(c)
      BY <2>4 DEF EnforceTransfer, EvaluateRisk, DecideTransfer, PushLog, TransferReturns
    <3> QED BY <2>0, <2>4, <3>1, <3>2 DEF TransferReturns
  <2> QED BY <2>1, <2>2, <2>3, <2>4
<1>6. /\ drMove'[c] = move /\ drAnswer'[c] = answer
      /\ \A d \in Transfer \ {c} : drMove'[d] = drMove[d] /\ drAnswer'[d] = drAnswer[d]
      /\ drMove' \in [Transfer -> Move] /\ drAnswer' \in [Transfer -> DrAction]
  BY <1>0, <1>5 DEF DrTypes
<1>7. drScore' \in [Transfer -> 0..100]
  <2>1. CASE EvaluateRisk(c)
    <3>1. drMove[c].country \in Country
      BY <1>0, <2>1 DEF CallInv, EvaluateRisk
    <3>2. PICK r \in RuleFound(drMove[c].from) : drScore' = [drScore EXCEPT ![c] = ScoreOf(r, drMove[c])]
      BY <2>1 DEF EvaluateRisk
    <3>3. ScoreOf(r, drMove[c]) \in 0..100
      BY <1>0, <3>1, ScoreBound
    <3> QED BY <1>0, <3>2, <3>3 DEF DrTypes
  <2>2. CASE ~EvaluateRisk(c)
    <3>1. drScore' = drScore \/ drScore' = [drScore EXCEPT ![c] = 0]
      BY <2>2 DEF EnforceTransfer, DecideTransfer, PushLog, TransferReturns, drCall
    <3>2. drScore \in [Transfer -> 0..100] /\ 0 \in 0..100
      BY <1>0 DEF DrTypes
    <3>3. [drScore EXCEPT ![c] = 0] \in [Transfer -> 0..100]
      BY <3>2
    <3> QED BY <3>1, <3>2, <3>3, Zenon
  <2> QED BY <2>1, <2>2
<1>8. drReaders' \in [Transfer -> 0..1] /\ drWaiting' \subseteq DrCall
  BY <1>0 DEF DrTypes, EnforceTransfer, EvaluateRisk, DecideTransfer, PushLog, TransferReturns, drLock
<1>9. drHistory' \in Seq(DrEntry) /\ Len(drHistory') <= HistorySize
  <2>1. CASE PushLog(c)
    <3>1. PICK entry : entry = Logged(c)
      OBVIOUS
    <3>2. entry \in DrEntry
      BY <1>0, <3>1 DEF Logged, DrEntry, DrTypes, Move
    <3>3. PICK rest : rest = IF Len(drHistory) >= HistorySize THEN Tail(drHistory) ELSE drHistory
      OBVIOUS
    <3>4. rest \in Seq(DrEntry) /\ Len(rest) < HistorySize
      BY <1>0, <3>3 DEF DrTypes
    <3>5. drHistory' = Append(rest, entry)
      BY <2>1, <3>1, <3>3 DEF PushLog, Pushed
    <3> QED BY <1>0, <3>2, <3>4, <3>5
  <2>2. CASE ~PushLog(c)
    BY <1>0, <2>2 DEF DrTypes, EnforceTransfer, EvaluateRisk, DecideTransfer, TransferReturns
  <2> QED BY <2>1, <2>2
<1>10. DrTypes'
  BY <1>0, <1>2, <1>4, <1>6, <1>7, <1>8, <1>9 DEF DrTypes
<1>11. CallInv'
  <2>1. ASSUME NEW d \in Transfer
        PROVE  /\ drAt'[d] \in TransferPlace
               /\ drAt'[d] = "weighs" => drMove'[d].country \in Country
               /\ drAt'[d] \in {"idle", "weighs", "decides"} => drAnswer'[d] = "none"
    <3>1. CASE d # c
      BY <1>0, <1>4, <1>6, <3>1 DEF CallInv, DrCall
    <3>2. CASE d = c
      <4>1. drAt'[c] = "weighs" => move.country \in Country
        BY <1>3, <1>4, <1>5
      <4>2. drAt'[c] \in {"weighs", "decides"} => drAnswer'[c] = "none"
        <5>1. drAt[c] \in {"idle", "weighs"} => drAnswer[c] = "none"
          BY <1>0 DEF CallInv
        <5>2. drAt[c] \in {"idle", "weighs"} => ~DecideTransfer(c)
          BY DEF DecideTransfer
        <5> QED BY <1>3, <1>4, <1>5, <1>6, <5>1, <5>2
      <4>3. drAt'[c] = "idle" => drAnswer'[c] = "none"
        <5>1. drAt'[c] = "idle" => TransferReturns(c)
          BY <1>3, <1>4
        <5>2. TransferReturns(c) => drAnswer'[c] = "none"
          BY <1>0 DEF TransferReturns, DrTypes
        <5> QED BY <5>1, <5>2
      <4> QED BY <1>4, <1>6, <3>2, <4>1, <4>2, <4>3
    <3> QED BY <3>1, <3>2
  <2>2. \A w \in RuleWriter : drAt'[w] \in {"idle", "waits"} /\ (drAt'[w] = "waits" => drPlan'[w] \in Rule)
    BY <1>0, <1>2, <1>4 DEF CallInv, DrCall
  <2> QED BY <2>1, <2>2 DEF CallInv
<1>12. StrictStays'
  <2>0. \A from : RulesFor(from)' = RulesFor(from)
    BY <1>2 DEF RulesFor
  <2>1. ASSUME NEW d \in Transfer, drAnswer'[d] # "none", drAlone'[d], drMove'[d].from # drMove'[d].to,
               RulesFor(drMove'[d].from) # {}, RulesFor(drMove'[d].from) \subseteq Strict
        PROVE  drAnswer'[d] = "blocked"
    <3>1. CASE DecideTransfer(c) /\ d = c
      <4>1. PICK r \in RuleFound(move.from) : answer = TransferDecision(r, move, drScore[c])
        BY <1>5, <3>1
      <4>2. r \in Strict /\ r # NoRule
        BY <1>0, <1>6, <2>1, <3>1, <4>1, ResidencyAssumption DEF RuleFound, RulesFor, NoRule, DrTypes
      <4> QED BY <1>6, <2>1, <3>1, <4>1, <4>2 DEF TransferDecision
    <3>2. CASE d # c \/ ~DecideTransfer(c)
      <4>1. drAnswer'[d] = drAnswer[d] /\ (drMove'[d] = drMove[d] \/ EnforceTransfer(c))
        BY <1>5, <1>6, <2>1, <3>2
      <4>2. ASSUME d = c PROVE ~EnforceTransfer(c) /\ ~TransferReturns(c)
        <5>1. EnforceTransfer(c) => drAnswer[c] = "none"
          BY <1>0 DEF CallInv, EnforceTransfer
        <5>2. TransferReturns(c) => drAnswer'[c] = "none"
          BY <1>0 DEF TransferReturns, DrTypes
        <5> QED BY <2>1, <4>1, <4>2, <5>1, <5>2
      <4>3. drMove'[d] = drMove[d]
        BY <1>6, <4>1, <4>2
      <4>4. drAlone[d]
        <5>1. CASE d # c
          BY <2>1, <5>1 DEF EnforceTransfer, EvaluateRisk, DecideTransfer, PushLog, TransferReturns, ResidencyInv,
                            DrAloneOK
        <5>2. CASE d = c
          BY <2>1, <4>2, <5>2 DEF EvaluateRisk, DecideTransfer, PushLog
        <5> QED BY <5>1, <5>2
      <4> QED BY <2>1, <4>1, <4>3, <4>4 DEF StrictStays, ResidencyInv
    <3> QED BY <3>1, <3>2
  <2>2. ASSUME NEW d \in Transfer, drAnswer'[d] # "none", drAlone'[d], drMove'[d].from # drMove'[d].to,
               RulesFor(drMove[d].from)' # {}, RulesFor(drMove[d].from)' \subseteq Strict
        PROVE  drAnswer'[d] = "blocked"
    <3>1. PICK from : from = drMove'[d].from
      OBVIOUS
    <3>2. RulesFor(drMove[d].from)' = RulesFor(drMove'[d].from)
      BY <1>2 DEF RulesFor
    <3> QED BY <2>1, <2>2, <3>2
  <2> QED BY <2>2 DEF StrictStays
<1> QED BY <1>1, <1>10, <1>11, <1>12 DEF ResidencyInv

\* A writer keeps it: who sees other rules afterwards is not alone any more.
LEMMA RuleStep ==
  ASSUME ResidencyInv, NEW w \in RuleWriter, RuleCall(w) \/ RuleChange(w)
  PROVE  ResidencyInv'
<1>0. /\ DrTypes /\ CallInv /\ StrictStays /\ Transfer \cap RuleWriter = {}
      /\ w \in DrCall /\ HistorySize \in Nat \ {0}
  BY ResidencyAssumption DEF ResidencyInv, DrCall
<1>1. DrAloneOK'
  BY Zenon DEF ResidencyInv, DrAloneOK, RuleCall, RuleChange
<1>2. UNCHANGED <<drReaders, drMove, drScore, drAnswer>>
  BY DEF RuleCall, RuleChange, drCall
<1>3. PICK place \in {"idle", "waits"}, plan \in Rule \cup {NoRule} :
        /\ drAt' = [drAt EXCEPT ![w] = place] /\ drPlan' = [drPlan EXCEPT ![w] = plan]
        /\ place = "waits" => plan \in Rule
  BY DEF RuleCall, RuleChange, DrGoto
<1>4. /\ drAt' \in [DrCall -> TransferPlace \cup {"waits"}] /\ drPlan' \in [RuleWriter -> Rule \cup {NoRule}]
      /\ drAt'[w] = place /\ drPlan'[w] = plan
      /\ \A d \in DrCall \ {w} : drAt'[d] = drAt[d]
      /\ \A v \in RuleWriter \ {w} : drPlan'[v] = drPlan[v]
  BY <1>0, <1>3 DEF DrTypes, TransferPlace
<1>5. drRules' \subseteq Rule /\ drHistory' \in Seq(DrEntry) /\ Len(drHistory') <= HistorySize
  <2>1. CASE RuleCall(w)
    BY <1>0, <2>1 DEF RuleCall, DrTypes
  <2>2. CASE RuleChange(w)
    <3>1. drPlan[w] \in Rule
      BY <1>0, <2>2 DEF CallInv, RuleChange
    <3>2. drHistory' = drHistory \/ drHistory' = <<>>
      BY <2>2 DEF RuleChange
    <3>3. drRules' \subseteq Rule
      BY <1>0, <2>2, <3>1 DEF RuleChange, DrTypes
    <3>4. <<>> \in Seq(DrEntry) /\ Len(<<>>) = 0
      OBVIOUS
    <3>5. drHistory' \in Seq(DrEntry) /\ Len(drHistory') <= HistorySize
      <4>1. CASE drHistory' = <<>>
        BY <1>0, <3>4, <4>1
      <4>2. CASE drHistory' = drHistory
        BY <1>0, <4>2 DEF DrTypes
      <4> QED BY <3>2, <4>1, <4>2
    <3> QED BY <3>3, <3>5
  <2> QED BY <2>1, <2>2
<1>6. drWaiting' \subseteq DrCall
  BY <1>0 DEF RuleCall, RuleChange, DrTypes
<1>7. DrTypes'
  BY <1>0, <1>2, <1>4, <1>5, <1>6 DEF DrTypes
<1>8. CallInv'
  BY <1>0, <1>2, <1>4, <1>3 DEF CallInv, DrCall
<1>9. StrictStays'
  <2>1. ASSUME NEW c \in Transfer, drAlone'[c] PROVE drAlone[c] /\ drRules' = drRules
    <3>1. CASE RuleCall(w)
      BY <2>1, <3>1 DEF RuleCall
    <3>2. CASE RuleChange(w)
      BY <2>1, <3>2 DEF RuleChange
    <3> QED BY <3>1, <3>2
  <2> QED BY <1>0, <1>2, <2>1 DEF StrictStays, RulesFor
<1> QED BY <1>1, <1>7, <1>8, <1>9 DEF ResidencyInv

\* Every step of the residency rules keeps the invariant.
LEMMA ResidencyStep ==
  ASSUME ResidencyInv, [ResidencyNext]_drVars
  PROVE  ResidencyInv'
<1>1. CASE UNCHANGED drVars
  BY <1>1, Zenon DEF drVars, drLock, drCall, ResidencyInv, DrTypes, DrAloneOK, CallInv, StrictStays, RulesFor
<1>2. ASSUME NEW c \in Transfer,
             EnforceTransfer(c) \/ EvaluateRisk(c) \/ DecideTransfer(c) \/ PushLog(c) \/ TransferReturns(c)
      PROVE  ResidencyInv'
  BY <1>2, TransferStep, Zenon
<1>3. ASSUME NEW w \in RuleWriter, RuleCall(w) \/ RuleChange(w)
      PROVE  ResidencyInv'
  BY <1>3, RuleStep, Zenon
<1> QED BY <1>1, <1>2, <1>3, Zenon DEF ResidencyNext

\* A push is what brings a call from "pushes" to "answers", and its entry is the last.
LEMMA PushIsLast ==
  ASSUME ResidencyInv, [ResidencyNext]_drVars
  PROVE  LastPushIsLast
<1>0. DrTypes /\ HistorySize \in Nat \ {0}
  BY ResidencyAssumption DEF ResidencyInv
<1> SUFFICES ASSUME NEW c \in Transfer, drAt[c] = "pushes", drAt'[c] = "answers"
             PROVE  Last(drHistory') = [from |-> drMove[c].from, action |-> drAnswer[c]]
  BY DEF LastPushIsLast
<1>1. PushLog(c)
  <2>1. ~UNCHANGED drVars
    BY DEF drVars
  <2>2. ASSUME NEW d \in Transfer,
               EnforceTransfer(d) \/ EvaluateRisk(d) \/ DecideTransfer(d) \/ PushLog(d) \/ TransferReturns(d)
        PROVE  PushLog(c)
    <3>1. d = c
      BY <1>0, <2>2 DEF DrTypes, DrCall, EnforceTransfer, EvaluateRisk, DecideTransfer, PushLog, TransferReturns, DrGoto
    <3> QED BY <2>2, <3>1 DEF EnforceTransfer, EvaluateRisk, DecideTransfer, TransferReturns
  <2>3. ASSUME NEW w \in RuleWriter, RuleCall(w) \/ RuleChange(w)
        PROVE  FALSE
    BY <1>0, <2>3 DEF DrTypes, DrCall, RuleCall, RuleChange, DrGoto
  <2> QED BY <2>1, <2>2, <2>3, Zenon DEF ResidencyNext
<1>2. PICK entry : entry = Logged(c)
  OBVIOUS
<1>3. PICK rest : rest = IF Len(drHistory) >= HistorySize THEN Tail(drHistory) ELSE drHistory
  OBVIOUS
<1>4. rest \in Seq(DrEntry) /\ entry \in DrEntry
  BY <1>0, <1>2, <1>3 DEF DrTypes, Logged, DrEntry, Move
<1>5. drHistory' = Append(rest, entry)
  BY <1>1, <1>2, <1>3 DEF PushLog, Pushed
<1>6. Last(Append(rest, entry)) = entry
  BY <1>4 DEF Last
<1> QED BY <1>2, <1>5, <1>6 DEF Logged

\* The invariant says what RulesHold asks of the residency rules.
LEMMA ResidencyHolds == ResidencyInv => ResidencyTypeOK /\ StrictStays
BY DEF ResidencyInv, DrTypes, CallInv, ResidencyTypeOK, TransferPlace, DrAction

-----------------------------------------------------------------------------
(* Usage records and what is made of them.                                   *)

ProjectAt(s, p) == {k \in DOMAIN s : s[k].project = p}
BilledAt(s, u, m) == {k \in DOMAIN s : s[k].user = u /\ s[k].period = m}

\* What is counted of a sequence is at most its length, and grows with it.
LEMMA CountIn ==
  ASSUME NEW n \in Nat, NEW S \in SUBSET (1..n)
  PROVE  IsFiniteSet(S) /\ Cardinality(S) \in 0..n
<1>1. IsFiniteSet(1..n) /\ Cardinality(1..n) = n
  BY FS_Interval
<1>2. IsFiniteSet(S) /\ Cardinality(S) <= n
  BY <1>1, FS_Subset
<1>3. Cardinality(S) \in Nat
  BY <1>2, FS_CardinalityType
<1> QED BY <1>2, <1>3

\* A sequence that begins with another has all that is counted of it.
LEMMA CountGrows ==
  ASSUME NEW s \in Seq(Usage), NEW t \in Seq(Usage), Len(s) <= Len(t), \A k \in 1..Len(s) : t[k] = s[k]
  PROVE  /\ \A p : /\ Cardinality(ProjectAt(s, p)) \in 0..Len(s)
                   /\ Cardinality(ProjectAt(s, p)) <= Cardinality(ProjectAt(t, p))
         /\ \A u, m : /\ Cardinality(BilledAt(s, u, m)) \in 0..Len(s)
                      /\ Cardinality(BilledAt(s, u, m)) <= Cardinality(BilledAt(t, u, m))
<1>1. PICK n \in Nat : n = Len(s) /\ DOMAIN s = 1..n
  OBVIOUS
<1>2. PICK l \in Nat : l = Len(t) /\ DOMAIN t = 1..l
  OBVIOUS
<1>3. ASSUME NEW p
      PROVE  /\ Cardinality(ProjectAt(s, p)) \in 0..Len(s)
             /\ Cardinality(ProjectAt(s, p)) <= Cardinality(ProjectAt(t, p))
  <2>1. ProjectAt(s, p) \subseteq 1..n /\ ProjectAt(t, p) \subseteq 1..l
    BY <1>1, <1>2 DEF ProjectAt
  <2>2. ProjectAt(s, p) \subseteq ProjectAt(t, p)
    BY <1>1, <1>2 DEF ProjectAt
  <2> QED BY <1>1, <2>1, <2>2, CountIn, FS_Subset
<1>4. ASSUME NEW u, NEW m
      PROVE  /\ Cardinality(BilledAt(s, u, m)) \in 0..Len(s)
             /\ Cardinality(BilledAt(s, u, m)) <= Cardinality(BilledAt(t, u, m))
  <2>1. BilledAt(s, u, m) \subseteq 1..n /\ BilledAt(t, u, m) \subseteq 1..l
    BY <1>1, <1>2 DEF BilledAt
  <2>2. BilledAt(s, u, m) \subseteq BilledAt(t, u, m)
    BY <1>1, <1>2 DEF BilledAt
  <2> QED BY <1>1, <2>1, <2>2, CountIn, FS_Subset
<1> QED BY <1>3, <1>4

\* One record more is one more of its project, and of no other.
LEMMA CountOneMore ==
  ASSUME NEW s \in Seq(Usage), NEW r \in Usage, NEW p
  PROVE  Cardinality(ProjectAt(Append(s, r), p)) =
           Cardinality(ProjectAt(s, p)) + (IF r.project = p THEN 1 ELSE 0)
<1>1. PICK n \in Nat : n = Len(s) /\ DOMAIN s = 1..n
  OBVIOUS
<1>2. PICK t : t = Append(s, r)
  OBVIOUS
<1>3. /\ t \in Seq(Usage) /\ Len(t) = n + 1 /\ DOMAIN t = 1..(n + 1)
      /\ t[n + 1] = r /\ \A k \in 1..n : t[k] = s[k]
  BY <1>1, <1>2
<1>4. ProjectAt(s, p) \in SUBSET (1..n)
  BY <1>1 DEF ProjectAt
<1>5. IsFiniteSet(ProjectAt(s, p)) /\ Cardinality(ProjectAt(s, p)) \in 0..n
  BY <1>4, CountIn
<1>6. ProjectAt(t, p) = ProjectAt(s, p) \cup (IF r.project = p THEN {n + 1} ELSE {})
  <2>1. CASE r.project = p
    BY <1>1, <1>3, <2>1 DEF ProjectAt
  <2>2. CASE r.project # p
    BY <1>1, <1>3, <2>2 DEF ProjectAt
  <2> QED BY <2>1, <2>2
<1>7. n + 1 \notin ProjectAt(s, p)
  BY <1>4
<1>8. Cardinality(ProjectAt(s, p) \cup {n + 1}) = Cardinality(ProjectAt(s, p)) + 1
  BY <1>5, <1>7, FS_AddElement
<1>9. CASE r.project = p
  BY <1>2, <1>6, <1>8, <1>9
<1>10. CASE r.project # p
  <2>1. ProjectAt(t, p) = ProjectAt(s, p)
    BY <1>6, <1>10
  <2> QED BY <1>2, <1>5, <1>10, <2>1
<1> QED BY <1>9, <1>10

BillInvoices == [BillUser \X Period -> -1..MaxRecords]

BillTypes ==
  /\ blRecords \in Seq(Usage) /\ Len(blRecords) <= MaxRecords
  /\ blByProject \in [Projects -> [count : Nat, cost : Nat]]
  /\ blInvoices \in BillInvoices
  /\ blFile.state \in {"absent", "torn", "whole"} /\ blFile.records \in Seq(Usage)
  /\ blFile.invoices \in BillInvoices
  /\ blSave = "idle" \/ blSave \in Seq(Usage)
  /\ blPrice \in 1..MaxPrice /\ blCrashes \in 0..BillCrashes
BillFlagsOK == blExact \in BOOLEAN /\ blLoaded \in BOOLEAN

\* No sum counts more records than there are of its project, nor at more than the
\* highest price; no invoice bills more than there is, until a file is loaded.
SumInv ==
  \A p \in Projects : /\ blByProject[p].count <= Cardinality(ProjectAt(blRecords, p))
                      /\ blByProject[p].cost <= blByProject[p].count * MaxPrice
InvoiceInv ==
  ~blLoaded => \A u \in BillUser, m \in Period :
                 blInvoices[<<u, m>>] <= Cardinality(BilledAt(blRecords, u, m))
ExactInv ==
  blExact => \A p \in BillProject :
    blByProject[p] = [count |-> Cardinality(ProjectAt(blRecords, p)),
                      cost |-> Cardinality(ProjectAt(blRecords, p)) * blPrice]

BillInv == BillTypes /\ BillFlagsOK /\ SumInv /\ InvoiceInv /\ ExactInv

\* A file that is not there, or is torn, has nothing in it.
LEMMA NoInvoicesType == NoInvoices \in BillInvoices /\ <<>> \in Seq(Usage) /\ \A p : ProjectAt(<<>>, p) = {}
<1>1. NoBill \in -1..MaxRecords
  <2>1. MaxRecords \in Nat
    BY BillingAssumption
  <2> QED BY <2>1 DEF NoBill
<1>2. NoInvoices \in BillInvoices
  BY <1>1 DEF NoInvoices, BillInvoices
<1> QED BY <1>2 DEF ProjectAt

\* Nothing billed and nothing recorded satisfies what is asked of sums and invoices.
LEMMA NothingBilled ==
  ASSUME NEW sums, sums = [p \in Projects |-> NoSum]
  PROVE  /\ sums \in [Projects -> [count : Nat, cost : Nat]]
         /\ \A p \in Projects : /\ sums[p].count <= Cardinality(ProjectAt(<<>>, p))
                                /\ sums[p].cost <= sums[p].count * MaxPrice
         /\ \A p \in BillProject : sums[p] = [count |-> Cardinality(ProjectAt(<<>>, p)),
                                              cost |-> Cardinality(ProjectAt(<<>>, p)) * 1]
         /\ \A u \in BillUser, m \in Period : NoInvoices[<<u, m>>] <= Cardinality(BilledAt(<<>>, u, m))
<1>1. \A p : Cardinality(ProjectAt(<<>>, p)) = 0
  BY NoInvoicesType, FS_EmptySet
<1>2. \A u, m : Cardinality(BilledAt(<<>>, u, m)) = 0
  <2>1. \A u, m : BilledAt(<<>>, u, m) = {}
    BY DEF BilledAt
  <2> QED BY <2>1, FS_EmptySet
<1>3. 0 * MaxPrice = 0 /\ 0 * 1 = 0
  <2>1. MaxPrice \in Nat
    BY BillingAssumption
  <2> QED BY <2>1
<1>4. \A p \in Projects : sums[p] = [count |-> 0, cost |-> 0]
  BY DEF NoSum
<1>5. BillProject \subseteq Projects
  BY DEF Projects
<1>6. \A u \in BillUser, m \in Period : NoInvoices[<<u, m>>] = -1
  BY DEF NoInvoices, NoBill
<1> QED BY <1>1, <1>2, <1>3, <1>4, <1>5, <1>6 DEF NoSum

\* Without usage records the invariant holds.
LEMMA BillInitInv == BillingInit => BillInv
<1> SUFFICES ASSUME BillingInit PROVE BillInv
  OBVIOUS
<1>1. BillFlagsOK
  BY Zenon DEF BillingInit, BillFlagsOK
<1>2. /\ blRecords = <<>> /\ blInvoices = NoInvoices /\ blPrice = 1 /\ blCrashes = 0 /\ blSave = "idle"
      /\ blByProject = [p \in Projects |-> NoSum]
      /\ blFile.state = "absent" /\ blFile.records = <<>> /\ blFile.invoices = NoInvoices
  BY DEF BillingInit, NoBillFile
<1>3. BillTypes
  <2>0. MaxRecords \in Nat /\ MaxPrice \in Nat \ {0} /\ BillCrashes \in Nat
    BY BillingAssumption, Zenon
  <2>1. MaxRecords \in Nat /\ 1 \in 1..MaxPrice /\ 0 \in 0..BillCrashes /\ Len(<<>>) = 0
    BY <2>0
  <2>2. blByProject \in [Projects -> [count : Nat, cost : Nat]]
    BY <1>2, NothingBilled
  <2> QED BY <1>2, <2>1, <2>2, NoInvoicesType DEF BillTypes
<1>4. SumInv
  BY <1>2, NothingBilled DEF SumInv
<1>5. InvoiceInv
  BY <1>2, NothingBilled DEF InvoiceInv
<1>6. ExactInv
  BY <1>2, NothingBilled DEF ExactInv
<1> QED BY <1>1, <1>3, <1>4, <1>5, <1>6 DEF BillInv

\* A record more: its project's sum has it too, at the price of now.
LEMMA UsageKeeps ==
  ASSUME BillInv, NEW r \in Usage, AddUsage(r)
  PROVE  BillInv'
<1>0. /\ BillTypes /\ SumInv /\ MaxRecords \in Nat /\ MaxPrice \in Nat \ {0} /\ NoProject \notin BillProject
      /\ r.project \in Projects
  BY BillingAssumption DEF BillInv, NoProject, Usage
<1>1. /\ BillFlagsOK' /\ blExact' = blExact /\ blLoaded' = blLoaded
  BY Zenon DEF BillInv, BillFlagsOK, AddUsage
<1>2. UNCHANGED <<blInvoices, blPrice, blFile, blSave, blCrashes>>
  BY DEF AddUsage
<1>3. PICK s : s = Append(blRecords, r)
  OBVIOUS
<1>4. /\ s \in Seq(Usage) /\ Len(s) <= MaxRecords /\ blRecords' = s
      /\ Len(blRecords) <= Len(s) /\ \A k \in 1..Len(blRecords) : s[k] = blRecords[k]
  BY <1>0, <1>3 DEF AddUsage, BillTypes
<1>5. \A p : /\ Cardinality(ProjectAt(blRecords, p)) \in Nat
             /\ Cardinality(ProjectAt(s, p)) = Cardinality(ProjectAt(blRecords, p)) + (IF r.project = p THEN 1 ELSE 0)
  <2>1. \A p : Cardinality(ProjectAt(blRecords, p)) \in 0..Len(blRecords)
    BY <1>0, <1>4, CountGrows DEF BillTypes
  <2> QED BY <1>0, <1>3, <2>1, CountOneMore DEF BillTypes
<1>6. PICK sum : sum = Plus1(blByProject[r.project])
  OBVIOUS
<1>7. \A p \in Projects : blByProject[p].count \in Nat /\ blByProject[p].cost \in Nat
  BY <1>0 DEF BillTypes
<1>8. /\ sum \in [count : Nat, cost : Nat] /\ sum.count = blByProject[r.project].count + 1
      /\ sum.cost = blByProject[r.project].cost + blPrice
      /\ sum = [count |-> blByProject[r.project].count + 1, cost |-> blByProject[r.project].cost + blPrice]
  <2>1. Estimated(1) = blPrice /\ blPrice \in Nat
    BY <1>0 DEF Estimated, BillTypes
  <2> QED BY <1>0, <1>6, <1>7, <2>1 DEF Plus1
<1>9. blByProject' = blByProject \/ blByProject' = [blByProject EXCEPT ![r.project] = sum]
  BY <1>6 DEF AddUsage
<1>10. r.project # NoProject => blByProject' = [blByProject EXCEPT ![r.project] = sum]
  BY <1>6 DEF AddUsage
<1>11. BillTypes'
  <2>1. blByProject' \in [Projects -> [count : Nat, cost : Nat]]
    BY <1>0, <1>8, <1>9 DEF BillTypes
  <2> QED BY <1>0, <1>2, <1>4, <2>1 DEF BillTypes
<1>12. SumInv'
  <2>1. ASSUME NEW p \in Projects
        PROVE  /\ blByProject'[p].count <= Cardinality(ProjectAt(s, p))
               /\ blByProject'[p].cost <= blByProject'[p].count * MaxPrice
    <3>1. CASE blByProject'[p] = blByProject[p]
      BY <1>0, <1>5, <1>7, <3>1 DEF SumInv
    <3>2. CASE blByProject'[p] = sum /\ p = r.project
      <4>1. PICK n \in Nat, c \in Nat : n = blByProject[p].count /\ c = blByProject[p].cost
        BY <1>7
      <4>2. c <= n * MaxPrice /\ blPrice <= MaxPrice
        BY <1>0, <4>1 DEF SumInv, BillTypes
      <4>3. c + blPrice <= (n + 1) * MaxPrice
        <5>0. MaxPrice \in Nat /\ blPrice \in Nat
          BY <1>0 DEF BillTypes
        <5>1. PICK m \in Nat : m = n * MaxPrice
          BY <4>1, <5>0
        <5>2. (n + 1) * MaxPrice = m + MaxPrice
          BY <4>1, <5>0, <5>1
        <5>3. c <= m /\ blPrice <= MaxPrice /\ c \in Nat
          BY <4>1, <4>2, <5>1
        <5>4. c + blPrice <= m + MaxPrice
          BY <5>0, <5>1, <5>3
        <5> QED BY <5>2, <5>4
      <4>4. n + 1 <= Cardinality(ProjectAt(s, p))
        BY <1>0, <1>5, <3>2, <4>1 DEF SumInv
      <4> QED BY <1>8, <3>2, <4>1, <4>3, <4>4
    <3>3. blByProject'[p] = blByProject[p] \/ (blByProject'[p] = sum /\ p = r.project)
      BY <1>0, <1>9 DEF BillTypes
    <3> QED BY <3>1, <3>2, <3>3
  <2> QED BY <1>4, <2>1 DEF SumInv
<1>13. InvoiceInv'
  <2>1. \A u, m : /\ Cardinality(BilledAt(blRecords, u, m)) \in 0..Len(blRecords)
                  /\ Cardinality(BilledAt(blRecords, u, m)) <= Cardinality(BilledAt(s, u, m))
    BY <1>0, <1>4, CountGrows DEF BillTypes
  <2>2. ASSUME NEW u \in BillUser, NEW m \in Period, ~blLoaded
        PROVE  blInvoices[<<u, m>>] <= Cardinality(BilledAt(s, u, m))
    <3>1. blInvoices[<<u, m>>] \in Int /\ blInvoices[<<u, m>>] <= Cardinality(BilledAt(blRecords, u, m))
      BY <1>0, <2>2 DEF BillInv, InvoiceInv, BillTypes, BillInvoices
    <3>2. Cardinality(BilledAt(s, u, m)) \in 0..Len(s)
      BY <1>4, CountGrows
    <3> QED BY <1>0, <1>4, <2>1, <3>1, <3>2 DEF BillTypes
  <2> QED BY <1>1, <1>2, <1>4, <2>2 DEF InvoiceInv
<1>14. ExactInv'
  <2>1. ASSUME NEW p \in BillProject, blExact
        PROVE  blByProject'[p] = [count |-> Cardinality(ProjectAt(s, p)),
                                  cost |-> Cardinality(ProjectAt(s, p)) * blPrice]
    <3>1. PICK n \in Nat : n = Cardinality(ProjectAt(blRecords, p))
      BY <1>5
    <3>2. blByProject[p] = [count |-> n, cost |-> n * blPrice] /\ p \in Projects
      BY <2>1, <3>1 DEF BillInv, ExactInv, Projects
    <3>3. CASE r.project = p
      <4>1. blByProject'[p] = sum
        BY <1>0, <1>10, <3>2, <3>3 DEF BillTypes
      <4>2. (n + 1) * blPrice = n * blPrice + blPrice
        BY <1>0, <3>1 DEF BillTypes
      <4>3. sum = [count |-> n + 1, cost |-> n * blPrice + blPrice]
        BY <1>8, <3>2, <3>3
      <4>4. Cardinality(ProjectAt(s, p)) = n + 1
        BY <1>5, <3>1, <3>3
      <4> QED BY <4>1, <4>2, <4>3, <4>4
    <3>4. CASE r.project # p
      <4>1. blByProject'[p] = blByProject[p]
        BY <1>0, <1>9, <3>2, <3>4 DEF BillTypes
      <4>2. Cardinality(ProjectAt(s, p)) = n
        BY <1>5, <3>1, <3>4
      <4> QED BY <3>2, <4>1, <4>2
    <3> QED BY <3>3, <3>4
  <2> QED BY <1>1, <1>2, <1>4, <2>1 DEF ExactInv
<1> QED BY <1>1, <1>11, <1>12, <1>13, <1>14 DEF BillInv

\* What is counted of the records is a number, at most as many as there may be.
LEMMA CountsAreNumbers ==
  ASSUME BillTypes
  PROVE  /\ \A p : Cardinality(ProjectAt(blRecords, p)) \in 0..MaxRecords
         /\ \A u, m : Cardinality(BilledAt(blRecords, u, m)) \in 0..MaxRecords
<1>1. PICK n \in Nat : n = Len(blRecords) /\ blRecords \in Seq(Usage) /\ n <= MaxRecords
  BY DEF BillTypes
<1>2. MaxRecords \in Nat
  BY BillingAssumption, Zenon
<1>3. /\ \A p : Cardinality(ProjectAt(blRecords, p)) \in 0..Len(blRecords)
      /\ \A u, m : Cardinality(BilledAt(blRecords, u, m)) \in 0..Len(blRecords)
  BY <1>1, CountGrows
<1> QED BY <1>1, <1>2, <1>3

\* The aggregator sums every project's records at the price of now.
LEMMA AggregationKeeps ==
  ASSUME BillInv, RunAggregation
  PROVE  BillInv'
<1>0. BillTypes /\ MaxPrice \in Nat \ {0}
  BY BillingAssumption, Zenon DEF BillInv
<1>1. BillFlagsOK' /\ blLoaded' = blLoaded
  BY Zenon DEF BillInv, BillFlagsOK, RunAggregation
<1>2. /\ blByProject' = [p \in Projects |-> [count |-> Cardinality(ProjectAt(blRecords, p)),
                                             cost |-> Cardinality(ProjectAt(blRecords, p)) * blPrice]]
      /\ UNCHANGED <<blRecords, blInvoices, blPrice, blFile, blSave, blCrashes>>
  BY DEF RunAggregation, Aggregated, RecordsOf, Estimated, ProjectAt
<1>3. \A p : Cardinality(ProjectAt(blRecords, p)) \in Nat
  BY <1>0, CountsAreNumbers
<1>4. blPrice \in Nat /\ blPrice <= MaxPrice
  BY <1>0 DEF BillTypes
<1>5. \A n \in Nat : n * blPrice \in Nat /\ n * blPrice <= n * MaxPrice
  BY <1>0, <1>4
<1>6. BillTypes'
  <2>1. \A p \in Projects : Cardinality(ProjectAt(blRecords, p)) * blPrice \in Nat
    BY <1>3, <1>5
  <2>2. blByProject' \in [Projects -> [count : Nat, cost : Nat]]
    BY <1>2, <1>3, <2>1
  <2> QED BY <1>0, <1>2, <2>2 DEF BillTypes
<1>7. SumInv'
  <2>1. ASSUME NEW p \in Projects
        PROVE  /\ blByProject'[p].count <= Cardinality(ProjectAt(blRecords, p))
               /\ blByProject'[p].cost <= blByProject'[p].count * MaxPrice
    <3>1. PICK n \in Nat : n = Cardinality(ProjectAt(blRecords, p))
      BY <1>3
    <3>2. blByProject'[p] = [count |-> n, cost |-> n * blPrice]
      BY <1>2, <3>1
    <3> QED BY <1>5, <3>1, <3>2
  <2> QED BY <1>2, <2>1 DEF SumInv
<1>8. InvoiceInv'
  BY <1>1, <1>2 DEF BillInv, InvoiceInv
<1>9. ExactInv'
  BY <1>2 DEF ExactInv, Projects
<1> QED BY <1>1, <1>6, <1>7, <1>8, <1>9 DEF BillInv

\* An invoice bills the records there are.
LEMMA InvoiceKeeps ==
  ASSUME BillInv, NEW u \in BillUser, NEW m \in Period, GenerateInvoice(u, m) \/ InvoiceWhileSaving(u, m)
  PROVE  BillInv' /\ InvoicesGrow
<1>0. BillTypes
  BY DEF BillInv
<1>1. BillFlagsOK' /\ blLoaded' = blLoaded /\ blExact' = blExact
  BY Zenon DEF BillInv, BillFlagsOK, GenerateInvoice, InvoiceWhileSaving
<1>2. /\ blInvoices' = [blInvoices EXCEPT ![<<u, m>>] = Cardinality(BilledAt(blRecords, u, m))]
      /\ UNCHANGED <<blRecords, blByProject, blPrice, blFile, blSave, blCrashes>>
  BY DEF GenerateInvoice, InvoiceWhileSaving, Billed, RecordsIn, BilledAt
<1>3. PICK n \in 0..MaxRecords : n = Cardinality(BilledAt(blRecords, u, m))
  BY <1>0, CountsAreNumbers
<1>4. /\ blInvoices' \in BillInvoices /\ blInvoices'[<<u, m>>] = n
      /\ \A x \in (BillUser \X Period) \ {<<u, m>>} : blInvoices'[x] = blInvoices[x]
  BY <1>0, <1>2, <1>3 DEF BillTypes, BillInvoices
<1>5. BillTypes'
  BY <1>0, <1>2, <1>4 DEF BillTypes
<1>6. SumInv' /\ ExactInv'
  BY <1>1, <1>2 DEF BillInv, SumInv, ExactInv
<1>7. InvoiceInv'
  <2>1. ASSUME NEW v \in BillUser, NEW d \in Period, ~blLoaded
        PROVE  blInvoices'[<<v, d>>] <= Cardinality(BilledAt(blRecords, v, d))
    <3>1. CASE v = u /\ d = m
      BY <1>3, <1>4, <3>1
    <3>2. CASE ~(v = u /\ d = m)
      BY <1>4, <2>1, <3>2 DEF BillInv, InvoiceInv
    <3> QED BY <3>1, <3>2
  <2> QED BY <1>1, <1>2, <2>1 DEF InvoiceInv
<1>8. InvoicesGrow
  <2>1. ASSUME ~blLoaded, NEW x \in DOMAIN blInvoices PROVE blInvoices[x] <= blInvoices'[x]
    <3>1. x \in BillUser \X Period /\ blInvoices[x] \in -1..MaxRecords
      BY <1>0, <2>1 DEF BillTypes, BillInvoices
    <3>2. CASE x = <<u, m>>
      BY <1>3, <1>4, <2>1, <3>2 DEF BillInv, InvoiceInv
    <3>3. CASE x # <<u, m>>
      <4>1. blInvoices'[x] = blInvoices[x]
        BY <1>4, <3>1, <3>3
      <4>2. MaxRecords \in Nat
        BY BillingAssumption, Zenon
      <4> QED BY <3>1, <4>1, <4>2
    <3> QED BY <3>2, <3>3
  <2> QED BY <1>1, <2>1 DEF InvoicesGrow
<1> QED BY <1>1, <1>5, <1>6, <1>7, <1>8 DEF BillInv

\* A load brings records that are in no sum, and invoices that may bill what is not there.
LEMMA LoadKeeps ==
  ASSUME BillInv, LoadFromFile
  PROVE  BillInv'
<1>0. BillTypes /\ SumInv /\ ExactInv
  BY DEF BillInv
<1>1. BillFlagsOK' /\ blLoaded'
  BY Zenon DEF BillInv, BillFlagsOK, LoadFromFile
<1>2. PICK n \in Nat, l \in Nat : n = Len(blRecords) /\ l = Len(blFile.records) /\ n + l <= MaxRecords
  BY <1>0 DEF LoadFromFile, BillTypes
<1>3. PICK s : s = blRecords \o blFile.records
  OBVIOUS
<1>4. blRecords \in Seq(Usage) /\ blFile.records \in Seq(Usage)
  BY <1>0 DEF BillTypes
<1>5. s \in Seq(Usage) /\ Len(s) = n + l /\ \A k \in 1..n : s[k] = blRecords[k]
  BY <1>2, <1>3, <1>4
<1>6. /\ blRecords' = s /\ UNCHANGED <<blByProject, blPrice, blFile, blSave, blCrashes>>
      /\ blInvoices' = [x \in DOMAIN blInvoices |->
           IF blFile.invoices[x] # NoBill THEN blFile.invoices[x] ELSE blInvoices[x]]
  BY <1>3 DEF LoadFromFile, Loaded
<1>7. blInvoices' \in BillInvoices
  BY <1>0, <1>6 DEF BillTypes, BillInvoices
<1>8. BillTypes'
  BY <1>0, <1>2, <1>5, <1>6, <1>7 DEF BillTypes
<1>9. SumInv'
  <2>1. ASSUME NEW p \in Projects PROVE blByProject[p].count <= Cardinality(ProjectAt(s, p))
    <3>1. /\ Cardinality(ProjectAt(blRecords, p)) <= Cardinality(ProjectAt(s, p))
          /\ Cardinality(ProjectAt(blRecords, p)) \in 0..n
      BY <1>2, <1>4, <1>5, CountGrows
    <3>2. Cardinality(ProjectAt(s, p)) \in 0..Len(s)
      BY <1>5, CountGrows
    <3>3. blByProject[p].count \in Nat
      BY <1>0 DEF BillTypes
    <3> QED BY <1>0, <1>5, <3>1, <3>2, <3>3 DEF SumInv
  <2> QED BY <1>0, <1>6, <2>1 DEF SumInv
<1>10. InvoiceInv'
  BY <1>1 DEF InvoiceInv
<1>11. ExactInv'
  <2>1. CASE blExact'
    <3>1. blExact /\ blFile.records = <<>>
      BY <2>1, Zenon DEF LoadFromFile
    <3>2. l = 0
      BY <1>2, <3>1
    <3>3. \A p : ProjectAt(s, p) = ProjectAt(blRecords, p)
      <4>1. DOMAIN s = 1..n /\ DOMAIN blRecords = 1..n
        BY <1>2, <1>4, <1>5, <3>2
      <4> QED BY <1>5, <4>1 DEF ProjectAt
    <3> QED BY <1>0, <1>6, <3>1, <3>3 DEF ExactInv
  <2>2. CASE ~blExact'
    BY <2>2 DEF ExactInv
  <2> QED BY <2>1, <2>2
<1> QED BY <1>1, <1>8, <1>9, <1>10, <1>11 DEF BillInv

\* A new price, a save and a crash keep the invariant.
LEMMA BillRest ==
  ASSUME BillInv,
         (\E price \in 1..MaxPrice : SetCostProfile(price)) \/ SaveCopy \/ SaveEncode \/ BillingCrash
         \/ UNCHANGED blVars
  PROVE  BillInv'
<1>0. BillTypes /\ SumInv /\ InvoiceInv /\ ExactInv
  BY DEF BillInv
<1>1. BillFlagsOK'
  BY Zenon DEF BillInv, BillFlagsOK, SetCostProfile, SaveCopy, SaveEncode, BillingCrash, blVars
<1>2. ASSUME NEW price \in 1..MaxPrice, SetCostProfile(price)
      PROVE  BillTypes' /\ SumInv' /\ InvoiceInv' /\ ExactInv'
  <2>1. BillTypes'
    BY <1>0, <1>2 DEF SetCostProfile, BillTypes
  <2>2. SumInv' /\ InvoiceInv' /\ ExactInv'
    BY <1>0, <1>2 DEF SetCostProfile, SumInv, InvoiceInv, ExactInv
  <2> QED BY <2>1, <2>2
<1>3. CASE SaveCopy \/ SaveEncode \/ UNCHANGED blVars
  <2>1. UNCHANGED <<blRecords, blByProject, blInvoices, blPrice, blCrashes, blExact, blLoaded>>
    BY <1>3 DEF SaveCopy, SaveEncode, blVars
  <2>2. /\ blFile'.state \in {"absent", "torn", "whole"} /\ blFile'.records \in Seq(Usage)
        /\ blFile'.invoices \in BillInvoices
        /\ blSave' = "idle" \/ blSave' \in Seq(Usage)
    <3>1. CASE SaveCopy
      BY <1>0, <3>1, NoInvoicesType DEF SaveCopy, TornFile, BillTypes
    <3>2. CASE SaveEncode
      BY <1>0, <3>2 DEF SaveEncode, BillTypes
    <3>3. CASE UNCHANGED blVars
      BY <1>0, <3>3 DEF blVars, BillTypes
    <3> QED BY <1>3, <3>1, <3>2, <3>3
  <2>3. BillTypes'
    BY <1>0, <2>1, <2>2 DEF BillTypes
  <2>4. SumInv' /\ InvoiceInv' /\ ExactInv'
    BY <1>0, <2>1 DEF SumInv, InvoiceInv, ExactInv
  <2> QED BY <1>1, <2>3, <2>4 DEF BillInv
<1>4. CASE BillingCrash
  <2>1. /\ blRecords' = <<>> /\ blInvoices' = NoInvoices /\ blPrice' = 1 /\ blSave' = "idle"
        /\ blByProject' = [p \in Projects |-> NoSum] /\ blFile' = blFile
        /\ blCrashes' = blCrashes + 1 /\ blCrashes < BillCrashes
    BY <1>4 DEF BillingCrash
  <2>2. BillTypes'
    <3>0. MaxRecords \in Nat /\ MaxPrice \in Nat \ {0} /\ BillCrashes \in Nat
      BY BillingAssumption, Zenon
    <3>1. blPrice' \in 1..MaxPrice /\ blCrashes' \in 0..BillCrashes /\ Len(<<>>) = 0
      BY <1>0, <2>1, <3>0 DEF BillTypes
    <3>2. blByProject' \in [Projects -> [count : Nat, cost : Nat]]
      BY <2>1, NothingBilled
    <3> QED BY <1>0, <2>1, <3>0, <3>1, <3>2, NoInvoicesType DEF BillTypes
  <2>3. SumInv'
    BY <2>1, NothingBilled DEF SumInv
  <2>4. InvoiceInv'
    BY <2>1, NothingBilled DEF InvoiceInv
  <2>5. ExactInv'
    BY <2>1, NothingBilled DEF ExactInv
  <2> QED BY <1>1, <2>2, <2>3, <2>4, <2>5 DEF BillInv
<1> QED BY <1>1, <1>2, <1>3, <1>4 DEF BillInv

\* Every step of the billing keeps the invariant; an invoice grows unless a file was
\* loaded or the process has crashed.
LEMMA BillStep ==
  ASSUME BillInv, [BillingNext]_blVars
  PROVE  BillInv' /\ InvoicesGrow
<1>0. ASSUME blInvoices' = blInvoices PROVE InvoicesGrow
  <2>1. \A x \in DOMAIN blInvoices : blInvoices[x] \in Int
    BY DEF BillInv, BillTypes, BillInvoices
  <2> QED BY <1>0, <2>1 DEF InvoicesGrow
<1>1. ASSUME NEW r \in Usage, AddUsage(r) PROVE BillInv' /\ InvoicesGrow
  BY <1>0, <1>1, UsageKeeps DEF AddUsage
<1>2. ASSUME NEW price \in 1..MaxPrice, SetCostProfile(price) PROVE BillInv' /\ InvoicesGrow
  <2>1. blInvoices' = blInvoices
    BY <1>2 DEF SetCostProfile
  <2> QED BY <1>0, <1>2, <2>1, BillRest, Zenon
<1>3. CASE RunAggregation
  BY <1>0, <1>3, AggregationKeeps DEF RunAggregation
<1>4. ASSUME NEW u \in BillUser, NEW m \in Period, GenerateInvoice(u, m) \/ InvoiceWhileSaving(u, m)
      PROVE  BillInv' /\ InvoicesGrow
  BY <1>4, InvoiceKeeps, Zenon
<1>5. CASE SaveCopy \/ SaveEncode \/ UNCHANGED blVars
  <2>1. blInvoices' = blInvoices
    BY <1>5 DEF SaveCopy, SaveEncode, blVars
  <2> QED BY <1>0, <1>5, <2>1, BillRest, Zenon
<1>6. CASE BillingCrash
  <2>1. InvoicesGrow
    <3>1. blCrashes' # blCrashes
      BY <1>6 DEF BillingCrash, BillInv, BillTypes
    <3> QED BY <3>1 DEF InvoicesGrow
  <2> QED BY <1>6, <2>1, BillRest, Zenon
<1>7. CASE LoadFromFile
  <2>1. blLoaded'
    BY <1>7, Zenon DEF LoadFromFile
  <2> QED BY <1>7, <2>1, LoadKeeps DEF InvoicesGrow
<1> QED BY <1>1, <1>2, <1>3, <1>4, <1>5, <1>6, <1>7, Zenon DEF BillingNext

\* The invariant says what RulesHold asks of the billing.
LEMMA BillHolds == BillInv => BillTypeOK /\ SumsAreExact
<1> SUFFICES ASSUME BillInv PROVE BillTypeOK /\ SumsAreExact
  OBVIOUS
<1>0. /\ BillTypes /\ SumInv /\ ExactInv /\ MaxRecords \in Nat /\ MaxPrice \in Nat
      /\ \A p : Cardinality(ProjectAt(blRecords, p)) \in 0..MaxRecords
  BY BillingAssumption, CountsAreNumbers, Zenon DEF BillInv
<1>1. blRecords \in UNION {[1..k -> Usage] : k \in 0..MaxRecords}
  <2>1. PICK n \in 0..MaxRecords : n = Len(blRecords)
    BY <1>0 DEF BillTypes
  <2>2. blRecords \in [1..n -> Usage]
    BY <1>0, <2>1 DEF BillTypes
  <2> QED BY <2>2
<1>2. blByProject \in [Projects -> [count : 0..MaxRecords, cost : 0..MaxRecords * MaxPrice]]
  <2>1. ASSUME NEW p \in Projects
        PROVE  blByProject[p] \in [count : 0..MaxRecords, cost : 0..MaxRecords * MaxPrice]
    <3>1. PICK n \in Nat, c \in Nat : blByProject[p] = [count |-> n, cost |-> c]
      BY <1>0 DEF BillTypes
    <3>2. n <= Cardinality(ProjectAt(blRecords, p)) /\ c <= n * MaxPrice
      BY <1>0, <3>1 DEF SumInv
    <3>3. n <= MaxRecords
      BY <1>0, <3>1, <3>2
    <3>4. n * MaxPrice <= MaxRecords * MaxPrice /\ n * MaxPrice \in Nat /\ MaxRecords * MaxPrice \in Nat
      BY <1>0, <3>1, <3>3
    <3>5. n \in 0..MaxRecords /\ c \in 0..MaxRecords * MaxPrice
      BY <1>0, <3>1, <3>2, <3>3, <3>4
    <3> QED BY <3>1, <3>5
  <2>2. blByProject = [p \in Projects |-> blByProject[p]]
    BY <1>0 DEF BillTypes
  <2> QED BY <2>1, <2>2
<1>3. BillTypeOK
  BY <1>0, <1>1, <1>2, Zenon DEF BillInv, BillFlagsOK, BillTypes, BillInvoices, BillTypeOK
<1>4. SumsAreExact
  BY <1>0 DEF ExactInv, SumsAreExact, RecordsOf, ProjectAt
<1> QED BY <1>3, <1>4

-----------------------------------------------------------------------------
(* Quality of service.                                                       *)

QosPlace == {"idle", "copy", "rename", "check", "consume", "count", "answer", "queued", "end"}
QosMode == {"none", "soft", "hard"}
QosArg == [bucket : Bucket \cup {0}, to : Owner \cup {"none"}, mode : QosMode, seen : QosMode,
           level : Level \cup {"none"}, req : 0..Bandwidth, paid : BOOLEAN, copy : [Owner -> Nat]]
PolicyRec == [to : Owner \cup {"none"}, mode : QosMode]

QosTypes ==
  /\ policies \in [PolicyId -> PolicyRec]
  /\ bucketOf \in [Owner -> Bucket \cup {0}]
  /\ tokens \in [Bucket -> 0..Bandwidth] /\ given \in [Bucket -> Nat]
  /\ madeFor \in [Bucket -> Owner \cup {"none"}]
  /\ queueLen \in [Level -> 0..QosQueueSize]
  /\ usage \in [Owner -> Nat] /\ usageFile \in [Owner -> Nat]
  /\ qosPc \in [QosCall -> QosPlace] /\ qosArg \in [QosCall -> QosArg]
QosFlagsOK == softSeen \in [QosCall -> BOOLEAN] /\ filesOverlap \in BOOLEAN

\* A policy that is there applies to an owner; buckets are made in their order and
\* have no more tokens than they were given; an owner's bucket was made for it.
BucketInv ==
  /\ \A p \in PolicyId : policies[p].mode # "none" => policies[p].to \in Owner
  /\ \A b \in Bucket : tokens[b] <= given[b]
  /\ \A b, d \in Bucket : d <= b /\ given[b] > 0 => given[d] > 0
  /\ \A o \in Owner : bucketOf[o] # 0 => given[bucketOf[o]] > 0 /\ madeFor[bucketOf[o]] = o

\* The bucket a call has found was made for the owner of the call.
FoundInv ==
  \A c \in QosCall :
    /\ qosPc[c] \in {"check", "consume", "count"} => qosArg[c].to \in Owner
    /\ qosPc[c] = "consume" => /\ qosArg[c].bucket \in Bucket /\ given[qosArg[c].bucket] > 0
                               /\ madeFor[qosArg[c].bucket] = qosArg[c].to

\* A call that waits to be checked knows of every soft policy of its owner.
SoftIn(those, o) == \E q \in PolicyId : those[q].mode = "soft" /\ those[q].to = o
SoftInv ==
  \A c \in QosCall : /\ qosPc[c] = "check" /\ SoftIn(policies, qosArg[c].to) => softSeen[c]
                     /\ qosArg[c].seen = "soft" => softSeen[c]

\* Copies that wait to be logged hold no more than the usage, and, while no two of
\* them were made at once, no less than the file.
UsageFileInv ==
  /\ \A o \in Owner : usageFile[o] <= usage[o]
  /\ \A c \in QosCall : qosPc[c] = "rename" => \A o \in Owner : qosArg[c].copy[o] <= usage[o]
  /\ ~filesOverlap => \A c \in QosCall : qosPc[c] = "rename" =>
       /\ \A o \in Owner : usageFile[o] <= qosArg[c].copy[o]
       /\ \A d \in QosCall \ {c} : qosPc[d] # "rename"

QosInv ==
  /\ QosTypes /\ QosFlagsOK /\ BucketInv /\ FoundInv /\ SoftInv /\ HardPaid /\ UsageFileInv /\ UsageIsConsumption

\* The variables of a call that is over, and no usage, have their types.
LEMMA NoArgType == NoArg \in QosArg /\ NoUse \in [Owner -> Nat]
<1>1. NoUse \in [Owner -> Nat]
  BY DEF NoUse
<1>2. FALSE \in BOOLEAN /\ 0 \in 0..Bandwidth
  BY QosAssumption
<1> QED BY <1>1, <1>2 DEF NoArg, QosArg, QosMode

\* Without policies and calls the invariant holds.
LEMMA QosInitInv == QosInit => QosInv
<1> SUFFICES ASSUME QosInit PROVE QosInv
  OBVIOUS
<1>0. Bandwidth \in Nat \ {0} /\ QosQueueSize \in Nat /\ MaxBuckets \in Nat /\ IsFiniteSet(QosCall)
  BY QosAssumption
<1>1. QosFlagsOK
  BY Zenon DEF QosInit, QosFlagsOK
<1>2. QosTypes
  BY <1>0, NoArgType DEF QosInit, QosTypes, PolicyRec, QosMode, QosPlace
<1>3. BucketInv
  BY <1>0 DEF QosInit, BucketInv, Bucket
<1>4. \A c \in QosCall : qosPc[c] = "idle" /\ qosArg[c] = NoArg /\ NoArg.seen = "none" /\ NoArg.to = "none"
  BY DEF QosInit, NoArg
<1>5. FoundInv /\ SoftInv /\ HardPaid
  BY <1>4 DEF FoundInv, SoftInv, HardPaid
<1>6. UsageFileInv
  BY <1>4 DEF QosInit, UsageFileInv, NoUse
<1>7. UsageIsConsumption
  <2>1. ASSUME NEW o \in Owner PROVE usage[o] + SumFunction(TakenFrom(o)) = SumFunction(GivenAway(o))
    <3>1. PICK f : f = TakenFrom(o)
      OBVIOUS
    <3>2. f \in [QosCall -> Int] /\ \A c \in QosCall : f[c] = 0
      BY <1>4, <3>1 DEF TakenFrom
    <3>3. PICK g : g = GivenAway(o)
      OBVIOUS
    <3>4. g \in [Bucket -> Int] /\ \A b \in Bucket : g[b] = 0
      BY <3>3 DEF GivenAway, QosInit
    <3>5. IsFiniteSet(Bucket)
      BY <1>0, FS_Interval DEF Bucket
    <3>6. SumFunction(f) = 0
      BY <1>0, <3>2, SumZero
    <3>7. SumFunction(g) = 0
      BY <3>4, <3>5, SumZero
    <3>8. usage[o] = 0
      BY DEF QosInit, NoUse
    <3> QED BY <3>1, <3>3, <3>6, <3>7, <3>8
  <2> QED BY <2>1 DEF UsageIsConsumption
<1> QED BY <1>1, <1>2, <1>3, <1>5, <1>6, <1>7 DEF QosInv

\* The next bucket is one that was not made, behind all that were.
LEMMA NextBucket ==
  ASSUME QosTypes, BucketInv, NEW b \in Bucket, b = Cardinality({d \in Bucket : given[d] > 0}) + 1
  PROVE  given[b] = 0 /\ tokens[b] = 0 /\ \A d \in Bucket : d < b => given[d] > 0
<1>0. MaxBuckets \in Nat /\ b \in 1..MaxBuckets
  BY QosAssumption DEF Bucket
<1>1. PICK S : S = {d \in Bucket : given[d] > 0}
  OBVIOUS
<1>2. \A d \in Bucket : given[d] \in Nat /\ (d \in S <=> given[d] > 0)
  BY <1>1 DEF QosTypes
<1>3. \A d, e \in Bucket : e <= d /\ d \in S => e \in S
  BY <1>2 DEF BucketInv
<1>4. b = Cardinality(S) + 1
  BY <1>1
<1>5. IsFiniteSet(S) /\ Cardinality(S) \in Nat
  <2>1. IsFiniteSet(Bucket) /\ S \in SUBSET Bucket
    BY <1>0, <1>1, FS_Interval DEF Bucket
  <2> QED BY <2>1, FS_Subset, FS_CardinalityType
<1>6. given[b] = 0
  <2>1. SUFFICES ASSUME b \in S PROVE FALSE
    BY <1>2
  <2>2. (1..b) \in SUBSET S
    BY <1>0, <1>3, <2>1 DEF Bucket
  <2>3. Cardinality(1..b) = b
    BY <1>0, FS_Interval
  <2>4. Cardinality(1..b) <= Cardinality(S)
    BY <1>5, <2>2, FS_Subset
  <2> QED BY <1>0, <1>4, <1>5, <2>3, <2>4
<1>7. ASSUME NEW d \in Bucket, d < b PROVE given[d] > 0
  <2>1. SUFFICES ASSUME d \notin S PROVE FALSE
    BY <1>2
  <2>2. S \in SUBSET (1..(d - 1)) /\ d \in 1..MaxBuckets
    BY <1>0, <1>1, <1>3, <2>1 DEF Bucket
  <2>3. IsFiniteSet(1..(d - 1)) /\ Cardinality(1..(d - 1)) = d - 1
    BY <2>2, FS_Interval
  <2>4. Cardinality(S) <= d - 1
    <3>1. Cardinality(S) <= Cardinality(1..(d - 1))
      BY <2>2, <2>3, FS_Subset, Zenon
    <3> QED BY <2>3, <3>1
  <2> QED BY <1>0, <1>4, <1>5, <1>7, <2>2, <2>4
<1> QED BY <1>6, <1>7 DEF BucketInv, QosTypes

\* The fields of a call's variables that a step leaves alone.
Keeps(arg, old) ==
  arg.to = old.to /\ arg.mode = old.mode /\ arg.level = old.level /\ arg.req = old.req

\* What each step of a call makes of its variables.
LEMMA EnqueueArg ==
  ASSUME QosTypes, NEW c \in QosCall, NEW p \in PolicyId, NEW l \in Level, NEW req \in 1..Bandwidth,
         EnqueueTaskWithQoS(c, p, l, req)
  PROVE  \E arg \in QosArg : /\ qosArg' = [qosArg EXCEPT ![c] = arg]
                             /\ arg.to = policies[p].to /\ arg.mode = policies[p].mode /\ arg.seen = "none"
<1>1. PICK arg : arg = [NoArg EXCEPT !.to = policies[p].to, !.mode = policies[p].mode, !.level = l, !.req = req]
  OBVIOUS
<1>2. PICK use : use = NoUse /\ use \in [Owner -> Nat]
  BY NoArgType
<1>3. arg = [bucket |-> 0, to |-> policies[p].to, mode |-> policies[p].mode, seen |-> "none", level |-> l,
             req |-> req, paid |-> FALSE, copy |-> use]
  BY <1>1, <1>2 DEF NoArg
<1>4. policies[p].to \in Owner \cup {"none"} /\ policies[p].mode \in QosMode /\ req \in 0..Bandwidth
      /\ "none" \in QosMode
  BY QosAssumption DEF QosTypes, PolicyRec, QosMode
<1>5. arg \in QosArg
  BY <1>2, <1>3, <1>4, Zenon DEF QosArg
<1>6. qosArg' = [qosArg EXCEPT ![c] = arg]
  BY <1>1 DEF EnqueueTaskWithQoS
<1>7. arg.to = policies[p].to /\ arg.mode = policies[p].mode /\ arg.seen = "none"
  BY <1>3
<1> QED BY <1>5, <1>6, <1>7

\* CheckAdmission leaves what the call asks for.
LEMMA CheckArg ==
  ASSUME QosTypes, NEW c \in QosCall, CheckAdmission(c), qosArg[c].to \in Owner, bucketOf[qosArg[c].to] # 0
  PROVE  \E arg \in QosArg : /\ qosArg' = [qosArg EXCEPT ![c] = arg] /\ Keeps(arg, qosArg[c])
                             /\ arg.bucket = bucketOf[qosArg[c].to] /\ arg.seen \in Modes(qosArg[c].to)
                             /\ arg.copy = qosArg[c].copy
<1>1. PICK m \in Modes(qosArg[c].to) :
        qosArg' = [qosArg EXCEPT ![c].bucket = bucketOf[qosArg[c].to], ![c].seen = m]
  BY Zenon DEF CheckAdmission
<1>2. PICK b : b = bucketOf[qosArg[c].to]
  OBVIOUS
<1>3. PICK old : old = qosArg[c]
  OBVIOUS
<1>4. PICK mid : mid = [old EXCEPT !.bucket = b]
  OBVIOUS
<1>5. PICK arg : arg = [mid EXCEPT !.seen = m]
  OBVIOUS
<1>6. m \in QosMode /\ b \in Bucket \cup {0} /\ old \in QosArg
  BY <1>1, <1>2, <1>3 DEF QosTypes, Modes, Applies, QosMode, PolicyRec
<1>7. mid \in QosArg /\ Keeps(mid, old) /\ mid.bucket = b /\ mid.copy = old.copy
  BY <1>4, <1>6 DEF QosArg, Keeps
<1>8. arg \in QosArg /\ Keeps(arg, mid) /\ arg.bucket = mid.bucket /\ arg.seen = m /\ arg.copy = mid.copy
  BY <1>5, <1>6, <1>7 DEF QosArg, Keeps
<1>9. qosArg' = [qosArg EXCEPT ![c] = arg]
  BY <1>1, <1>2, <1>3, <1>4, <1>5 DEF QosTypes
<1>10. Keeps(arg, old)
  BY <1>7, <1>8 DEF Keeps
<1> QED BY <1>1, <1>2, <1>3, <1>7, <1>8, <1>9, <1>10

\* consume leaves what the call asks for and pays it or not.
LEMMA ConsumeArg ==
  ASSUME QosTypes, NEW c \in QosCall, Consume(c)
  PROVE  \E arg \in QosArg : /\ qosArg' = [qosArg EXCEPT ![c] = arg] /\ Keeps(arg, qosArg[c])
                             /\ arg.seen = qosArg[c].seen /\ arg.copy = qosArg[c].copy
                             /\ (arg.paid \/ (tokens' = tokens /\ arg.paid = qosArg[c].paid))
<1>1. PICK old : old = qosArg[c]
  OBVIOUS
<1>2. old \in QosArg /\ 0 \in Bucket \cup {0}
  BY <1>1 DEF QosTypes
<1>3. CASE tokens[old.bucket] >= old.req
  <2>1. qosArg' = [qosArg EXCEPT ![c].paid = TRUE, ![c].bucket = 0]
    BY <1>1, <1>3 DEF Consume
  <2>2. PICK mid : mid = [old EXCEPT !.paid = TRUE]
    OBVIOUS
  <2>3. PICK arg : arg = [mid EXCEPT !.bucket = 0]
    OBVIOUS
  <2>4. mid \in QosArg /\ Keeps(mid, old) /\ mid.paid /\ mid.seen = old.seen /\ mid.copy = old.copy
    BY <1>2, <2>2 DEF QosArg, Keeps
  <2>5. arg \in QosArg /\ Keeps(arg, mid) /\ arg.paid = mid.paid /\ arg.seen = mid.seen /\ arg.copy = mid.copy
    BY <1>2, <2>3, <2>4 DEF QosArg, Keeps
  <2>6. qosArg' = [qosArg EXCEPT ![c] = arg]
    BY <1>1, <2>1, <2>2, <2>3 DEF QosTypes
  <2>7. Keeps(arg, old)
    BY <2>4, <2>5 DEF Keeps
  <2>8. arg.paid
    BY <2>4, <2>5, Zenon
  <2> QED BY <1>1, <2>4, <2>5, <2>6, <2>7, <2>8
<1>4. CASE ~(tokens[old.bucket] >= old.req)
  <2>1. qosArg' = [qosArg EXCEPT ![c].bucket = 0] /\ tokens' = tokens
    BY <1>1, <1>4 DEF Consume
  <2>2. PICK arg : arg = [old EXCEPT !.bucket = 0]
    OBVIOUS
  <2>3. arg \in QosArg /\ Keeps(arg, old) /\ arg.paid = old.paid /\ arg.seen = old.seen /\ arg.copy = old.copy
    BY <1>2, <2>2 DEF QosArg, Keeps
  <2>4. qosArg' = [qosArg EXCEPT ![c] = arg]
    BY <1>1, <2>1, <2>2 DEF QosTypes
  <2> QED BY <1>1, <2>1, <2>3, <2>4
<1> QED BY <1>3, <1>4

\* The copy of the usage is the usage.
LEMMA CopyArg ==
  ASSUME QosTypes, NEW c \in QosCall, CopyUsage(c)
  PROVE  \E arg \in QosArg : /\ qosArg' = [qosArg EXCEPT ![c] = arg] /\ Keeps(arg, qosArg[c])
                             /\ arg.seen = qosArg[c].seen /\ arg.copy = usage
<1>1. PICK old : old = qosArg[c]
  OBVIOUS
<1>2. PICK use : use = usage /\ use \in [Owner -> Nat]
  BY DEF QosTypes
<1>3. PICK arg : arg = [old EXCEPT !.copy = use]
  OBVIOUS
<1>4. old \in QosArg
  BY <1>1 DEF QosTypes
<1>5. arg \in QosArg /\ Keeps(arg, old) /\ arg.seen = old.seen /\ arg.copy = use
  BY <1>2, <1>3, <1>4 DEF QosArg, Keeps
<1>6. qosArg' = [qosArg EXCEPT ![c] = arg]
  BY <1>1, <1>2, <1>3 DEF CopyUsage, QosTypes
<1> QED BY <1>1, <1>2, <1>5, <1>6

QosKept == QosTypes /\ BucketInv /\ FoundInv /\ SoftInv /\ HardPaid /\ UsageFileInv /\ UsageIsConsumption

\* The sums stay while what calls have taken and what buckets have given stay.
LEMMA SumsStay ==
  ASSUME UsageIsConsumption, usage' = usage,
         \A o \in Owner : TakenFrom(o)' = TakenFrom(o) /\ GivenAway(o)' = GivenAway(o)
  PROVE  UsageIsConsumption'
BY DEF UsageIsConsumption

\* A step that neither takes tokens nor counts them keeps the sums.
LEMMA NothingTaken ==
  ASSUME UsageIsConsumption, QosTypes, usage' = usage, UNCHANGED <<tokens, given, madeFor>>,
         NEW c \in QosCall, NEW place, NEW arg, place # "count", qosPc[c] # "count",
         qosPc' = [qosPc EXCEPT ![c] = place], qosArg' = [qosArg EXCEPT ![c] = arg]
  PROVE  UsageIsConsumption'
<1>1. ASSUME NEW o \in Owner PROVE TakenFrom(o)' = TakenFrom(o) /\ GivenAway(o)' = GivenAway(o)
  <2>1. ASSUME NEW d \in QosCall
        PROVE  (IF qosPc'[d] = "count" /\ qosArg'[d].to = o THEN qosArg'[d].req ELSE 0)
                 = (IF qosPc[d] = "count" /\ qosArg[d].to = o THEN qosArg[d].req ELSE 0)
    BY DEF QosTypes
  <2>2. TakenFrom(o)' = TakenFrom(o)
    BY <2>1 DEF TakenFrom
  <2>3. GivenAway(o)' = GivenAway(o)
    BY DEF GivenAway
  <2> QED BY <2>2, <2>3
<1> QED BY <1>1, SumsStay

\* SetPolicy gives the owner a full bucket, which is one that was never made.
LEMMA SetKeeps ==
  ASSUME QosInv, NEW c \in QosCall, NEW p \in PolicyId, NEW o \in Owner, NEW mode \in {"soft", "hard"},
         NEW b \in Bucket, SetPolicy(c, p, o, mode, b)
  PROVE  QosKept' /\ UsageFileForward
<1>0. /\ QosTypes /\ BucketInv /\ FoundInv /\ SoftInv /\ HardPaid /\ UsageFileInv /\ UsageIsConsumption
      /\ softSeen \in [QosCall -> BOOLEAN] /\ Bandwidth \in Nat \ {0} /\ MaxBuckets \in Nat
  BY QosAssumption, Zenon DEF QosInv, QosFlagsOK
<1>1. /\ qosPc[c] = "idle" /\ b = Cardinality({d \in Bucket : given[d] > 0}) + 1
      /\ policies' = [policies EXCEPT ![p] = [to |-> o, mode |-> mode]]
      /\ bucketOf' = [bucketOf EXCEPT ![o] = b]
      /\ tokens' = [tokens EXCEPT ![b] = Bandwidth]
      /\ given' = [given EXCEPT ![b] = Bandwidth]
      /\ madeFor' = [madeFor EXCEPT ![b] = o]
      /\ qosPc' = [qosPc EXCEPT ![c] = "copy"]
      /\ usage' = usage /\ queueLen' = queueLen /\ qosArg' = qosArg /\ usageFile' = usageFile
  BY DEF SetPolicy, QosGoto, qosFile
<1>2. filesOverlap' = filesOverlap
  BY Zenon DEF SetPolicy, qosFile
<1>3. softSeen' = [d \in QosCall |-> softSeen[d] \/ (mode = "soft" /\ qosPc[d] # "idle" /\ qosArg[d].to = o)]
  BY Zenon DEF SetPolicy
<1>4. given[b] = 0 /\ tokens[b] = 0 /\ \A d \in Bucket : d < b => given[d] > 0
  BY <1>0, <1>1, NextBucket
<1>5. /\ given'[b] = Bandwidth /\ tokens'[b] = Bandwidth /\ madeFor'[b] = o
      /\ \A d \in Bucket \ {b} : given'[d] = given[d] /\ tokens'[d] = tokens[d] /\ madeFor'[d] = madeFor[d]
  BY <1>0, <1>1 DEF QosTypes
<1>6. policies'[p] = [to |-> o, mode |-> mode] /\ \A q \in PolicyId \ {p} : policies'[q] = policies[q]
  BY <1>0, <1>1 DEF QosTypes
<1>7. bucketOf'[o] = b /\ \A q \in Owner \ {o} : bucketOf'[q] = bucketOf[q]
  BY <1>0, <1>1 DEF QosTypes
<1>8. qosPc'[c] = "copy" /\ \A d \in QosCall \ {c} : qosPc'[d] = qosPc[d]
  BY <1>0, <1>1 DEF QosTypes
<1>9. QosTypes'
  <2>1. policies' \in [PolicyId -> PolicyRec]
    <3>1. [to |-> o, mode |-> mode] \in PolicyRec
      BY DEF PolicyRec, QosMode
    <3> QED BY <1>0, <1>1, <3>1 DEF QosTypes
  <2>2. bucketOf' \in [Owner -> Bucket \cup {0}] /\ madeFor' \in [Bucket -> Owner \cup {"none"}]
    BY <1>0, <1>1 DEF QosTypes
  <2>3. tokens' \in [Bucket -> 0..Bandwidth] /\ given' \in [Bucket -> Nat]
    BY <1>0, <1>1 DEF QosTypes
  <2>4. qosPc' \in [QosCall -> QosPlace]
    BY <1>0, <1>1 DEF QosTypes, QosPlace
  <2> QED BY <1>0, <1>1, <2>1, <2>2, <2>3, <2>4 DEF QosTypes
<1>10. BucketInv'
  <2>1. \A q \in PolicyId : policies'[q].mode # "none" => policies'[q].to \in Owner
    BY <1>0, <1>6 DEF BucketInv
  <2>2. \A d \in Bucket : tokens'[d] <= given'[d]
    BY <1>0, <1>5 DEF BucketInv
  <2>3. ASSUME NEW d \in Bucket, NEW e \in Bucket, e <= d, given'[d] > 0 PROVE given'[e] > 0
    <3>1. CASE e = b
      BY <1>0, <1>5, <3>1
    <3>2. CASE e # b /\ d # b
      BY <1>0, <1>5, <2>3, <3>2 DEF BucketInv
    <3>3. CASE e # b /\ d = b
      <4>1. e < b
        BY <1>0, <2>3, <3>3 DEF Bucket
      <4> QED BY <1>4, <1>5, <3>3, <4>1
    <3> QED BY <3>1, <3>2, <3>3
  <2>4. ASSUME NEW q \in Owner, bucketOf'[q] # 0
        PROVE  given'[bucketOf'[q]] > 0 /\ madeFor'[bucketOf'[q]] = q
    <3>1. CASE q = o
      BY <1>0, <1>5, <1>7, <3>1
    <3>2. CASE q # o
      <4>1. PICK d \in Bucket : d = bucketOf[q]
        BY <1>0, <1>7, <2>4, <3>2 DEF QosTypes
      <4>2. given[d] > 0 /\ madeFor[d] = q /\ bucketOf'[q] = d
        BY <1>0, <1>7, <2>4, <3>2, <4>1 DEF BucketInv
      <4>3. d # b
        BY <1>4, <4>2
      <4> QED BY <1>5, <4>2, <4>3
    <3> QED BY <3>1, <3>2
  <2> QED BY <2>1, <2>2, <2>3, <2>4 DEF BucketInv
<1>11. FoundInv'
  <2>1. ASSUME NEW d \in QosCall, qosPc'[d] = "consume"
        PROVE  /\ qosArg[d].bucket \in Bucket /\ given'[qosArg[d].bucket] > 0
               /\ madeFor'[qosArg[d].bucket] = qosArg[d].to
    <3>1. PICK e \in Bucket : e = qosArg[d].bucket /\ given[e] > 0 /\ madeFor[e] = qosArg[d].to
      BY <1>0, <1>8, <2>1 DEF FoundInv
    <3>2. e # b
      BY <1>4, <3>1
    <3> QED BY <1>5, <3>1, <3>2
  <2>2. \A d \in QosCall : qosPc'[d] \in {"check", "consume", "count"} => qosArg[d].to \in Owner
    BY <1>0, <1>8 DEF FoundInv
  <2> QED BY <1>1, <2>1, <2>2 DEF FoundInv
<1>12. SoftInv'
  <2>1. ASSUME NEW d \in QosCall, softSeen[d] PROVE softSeen'[d]
    BY <1>3, <2>1, Zenon
  <2>2. ASSUME NEW d \in QosCall, qosPc'[d] = "check", SoftIn(policies', qosArg'[d].to) PROVE softSeen'[d]
    <3>0. qosPc[d] = "check" /\ qosPc[d] # "idle"
      BY <1>8, <2>2
    <3>1. CASE SoftIn(policies, qosArg[d].to)
      <4>1. softSeen[d]
        BY <1>0, <3>0, <3>1, Zenon DEF SoftInv
      <4> QED BY <2>1, <4>1
    <3>2. CASE ~SoftIn(policies, qosArg[d].to)
      <4>1. mode = "soft" /\ qosArg[d].to = o
        BY <1>1, <1>6, <2>2, <3>2 DEF SoftIn
      <4> QED BY <1>3, <3>0, <4>1, Zenon
    <3> QED BY <3>1, <3>2
  <2>3. \A d \in QosCall : qosArg[d].seen = "soft" => softSeen'[d]
    BY <1>0, <2>1, Zenon DEF SoftInv
  <2>4. ASSUME NEW d \in QosCall
        PROVE  /\ qosPc'[d] = "check" /\ SoftIn(policies', qosArg'[d].to) => softSeen'[d]
               /\ qosArg[d].seen = "soft" => softSeen'[d]
    BY <2>2, <2>3, Zenon
  <2> QED BY <1>1, <2>4, Zenon DEF SoftInv
<1>13. HardPaid'
  <2>1. \A d \in QosCall : softSeen[d] => softSeen'[d]
    BY <1>3, Zenon
  <2>2. \A d \in QosCall : qosPc'[d] = "queued" => qosPc[d] = "queued"
    BY <1>8
  <2> QED BY <1>0, <1>1, <2>1, <2>2, Zenon DEF HardPaid
<1>14. UsageFileInv'
  <2>1. \A d \in QosCall : qosPc'[d] = "rename" <=> qosPc[d] = "rename"
    BY <1>1, <1>8
  <2> QED BY <1>0, <1>1, <1>2, <2>1 DEF UsageFileInv
<1>15. UsageIsConsumption'
  <2>1. ASSUME NEW q \in Owner PROVE TakenFrom(q)' = TakenFrom(q) /\ GivenAway(q)' = GivenAway(q)
    <3>1. \A d \in QosCall : qosPc'[d] = "count" <=> qosPc[d] = "count"
      BY <1>1, <1>8
    <3>2. TakenFrom(q)' = TakenFrom(q)
      BY <1>1, <3>1 DEF TakenFrom
    <3>3. ASSUME NEW d \in Bucket
          PROVE  (IF madeFor'[d] = q THEN given'[d] - tokens'[d] ELSE 0)
                   = (IF madeFor[d] = q THEN given[d] - tokens[d] ELSE 0)
      BY <1>0, <1>4, <1>5
    <3>4. GivenAway(q)' = GivenAway(q)
      BY <3>3 DEF GivenAway
    <3> QED BY <3>2, <3>4
  <2> QED BY <1>0, <1>1, <2>1, SumsStay
<1>16. UsageFileForward
  BY <1>0, <1>1 DEF UsageFileForward, QosTypes
<1> QED BY <1>9, <1>10, <1>11, <1>12, <1>13, <1>14, <1>15, <1>16 DEF QosKept

\* RemovePolicy drops the bucket of an owner, and no tokens.
LEMMA RemoveKeeps ==
  ASSUME QosInv, NEW p \in PolicyId, RemovePolicy(p)
  PROVE  QosKept' /\ UsageFileForward
<1>0. QosTypes /\ BucketInv /\ FoundInv /\ SoftInv /\ HardPaid /\ UsageFileInv /\ UsageIsConsumption
  BY DEF QosInv
<1>1. /\ policies[p].mode # "none"
      /\ bucketOf' = [bucketOf EXCEPT ![policies[p].to] = 0]
      /\ policies' = [policies EXCEPT ![p] = [to |-> "none", mode |-> "none"]]
      /\ UNCHANGED <<tokens, given, madeFor, usage, queueLen, qosPc, qosArg, usageFile>>
  BY DEF RemovePolicy, qosFile
<1>2. filesOverlap' = filesOverlap /\ softSeen' = softSeen
  BY Zenon DEF RemovePolicy, qosFile
<1>3. /\ policies'[p] = [to |-> "none", mode |-> "none"] /\ \A q \in PolicyId \ {p} : policies'[q] = policies[q]
      /\ policies[p].to \in Owner
  BY <1>0, <1>1 DEF QosTypes, BucketInv
<1>4. \A o \in Owner : bucketOf'[o] = 0 \/ bucketOf'[o] = bucketOf[o]
  BY <1>0, <1>1 DEF QosTypes
<1>5. QosTypes'
  <2>1. policies' \in [PolicyId -> PolicyRec]
    <3>1. [to |-> "none", mode |-> "none"] \in PolicyRec
      BY DEF PolicyRec, QosMode
    <3> QED BY <1>0, <1>1, <3>1 DEF QosTypes
  <2>2. bucketOf' \in [Owner -> Bucket \cup {0}]
    BY <1>0, <1>1 DEF QosTypes
  <2> QED BY <1>0, <1>1, <2>1, <2>2 DEF QosTypes
<1>6. BucketInv'
  <2>1. \A q \in PolicyId : policies'[q].mode # "none" => policies'[q].to \in Owner
    BY <1>0, <1>3 DEF BucketInv
  <2> QED BY <1>0, <1>1, <1>4, <2>1 DEF BucketInv
<1>7. FoundInv' /\ UsageFileInv'
  BY <1>0, <1>1, <1>2 DEF FoundInv, UsageFileInv
<1>8. SoftInv' /\ HardPaid'
  <2>1. \A o : SoftIn(policies', o) => SoftIn(policies, o)
    BY <1>3 DEF SoftIn
  <2>2. \A c \in QosCall : SoftIn(policies', qosArg'[c].to) => SoftIn(policies, qosArg[c].to)
    BY <1>1, <2>1
  <2> QED BY <1>0, <1>1, <1>2, <2>2, Zenon DEF SoftInv, HardPaid
<1>9. UsageIsConsumption'
  <2>1. \A o \in Owner : TakenFrom(o)' = TakenFrom(o) /\ GivenAway(o)' = GivenAway(o)
    BY <1>1 DEF TakenFrom, GivenAway
  <2> QED BY <1>0, <1>1, <2>1, SumsStay
<1>10. UsageFileForward
  BY <1>0, <1>1 DEF UsageFileForward, QosTypes
<1> QED BY <1>5, <1>6, <1>7, <1>8, <1>9, <1>10 DEF QosKept

\* Time gives a bucket one token and takes none.
LEMMA TimeKeeps ==
  ASSUME QosInv, NEW b \in Bucket, TimePasses(b)
  PROVE  QosKept' /\ UsageFileForward
<1>0. /\ QosTypes /\ BucketInv /\ FoundInv /\ SoftInv /\ HardPaid /\ UsageFileInv /\ UsageIsConsumption
      /\ Bandwidth \in Nat \ {0}
  BY QosAssumption DEF QosInv
<1>1. /\ given[b] > 0 /\ tokens[b] < Bandwidth
      /\ tokens' = [tokens EXCEPT ![b] = @ + 1] /\ given' = [given EXCEPT ![b] = @ + 1]
      /\ UNCHANGED <<policies, bucketOf, madeFor, usage, queueLen, qosPc, qosArg, usageFile>>
  BY DEF TimePasses, qosFile
<1>2. filesOverlap' = filesOverlap /\ softSeen' = softSeen
  BY Zenon DEF TimePasses, qosFile
<1>3. /\ tokens'[b] = tokens[b] + 1 /\ given'[b] = given[b] + 1
      /\ \A d \in Bucket \ {b} : tokens'[d] = tokens[d] /\ given'[d] = given[d]
      /\ \A d \in Bucket : tokens[d] \in 0..Bandwidth /\ given[d] \in Nat
  BY <1>0, <1>1 DEF QosTypes
<1>4. QosTypes'
  <2>1. tokens' \in [Bucket -> 0..Bandwidth]
    BY <1>0, <1>1, <1>3 DEF QosTypes
  <2>2. given' \in [Bucket -> Nat]
    BY <1>0, <1>1, <1>3 DEF QosTypes
  <2> QED BY <1>0, <1>1, <2>1, <2>2 DEF QosTypes
<1>5. \A d \in Bucket : given'[d] > 0 <=> given[d] > 0
  BY <1>1, <1>3
<1>6. BucketInv'
  <2>1. \A d \in Bucket : tokens'[d] <= given'[d]
    BY <1>0, <1>3 DEF BucketInv
  <2>2. \A o \in Owner : bucketOf[o] # 0 => bucketOf[o] \in Bucket
    BY <1>0 DEF QosTypes
  <2> QED BY <1>0, <1>1, <1>5, <2>1, <2>2 DEF BucketInv
<1>7. FoundInv'
  BY <1>0, <1>1, <1>5 DEF FoundInv
<1>8. UsageFileInv'
  BY <1>0, <1>1, <1>2 DEF UsageFileInv
<1>9. SoftInv' /\ HardPaid'
  <2>1. \A c \in QosCall : SoftIn(policies', qosArg'[c].to) => SoftIn(policies, qosArg[c].to)
    BY <1>1 DEF SoftIn
  <2> QED BY <1>0, <1>1, <1>2, <2>1, Zenon DEF SoftInv, HardPaid
<1>10. UsageIsConsumption'
  <2>1. ASSUME NEW o \in Owner PROVE TakenFrom(o)' = TakenFrom(o) /\ GivenAway(o)' = GivenAway(o)
    <3>1. ASSUME NEW d \in Bucket
          PROVE  (IF madeFor'[d] = o THEN given'[d] - tokens'[d] ELSE 0)
                   = (IF madeFor[d] = o THEN given[d] - tokens[d] ELSE 0)
      <4>1. given'[d] - tokens'[d] = given[d] - tokens[d]
        BY <1>3
      <4> QED BY <1>1, <4>1
    <3>2. GivenAway(o)' = GivenAway(o)
      BY <3>1 DEF GivenAway
    <3> QED BY <1>1, <3>2 DEF TakenFrom
  <2> QED BY <1>0, <1>1, <2>1, SumsStay
<1>11. UsageFileForward
  BY <1>0, <1>1 DEF UsageFileForward, QosTypes
<1> QED BY <1>4, <1>6, <1>7, <1>8, <1>9, <1>10, <1>11 DEF QosKept

\* What a call does to its own place and variables: the tokens and policies stay.
LEMMA EnqueueKeeps ==
  ASSUME QosInv, NEW c \in QosCall, NEW p \in PolicyId, NEW l \in Level, NEW req \in 1..Bandwidth,
         EnqueueTaskWithQoS(c, p, l, req)
  PROVE  QosKept' /\ UsageFileForward
<1>0. /\ QosTypes /\ BucketInv /\ FoundInv /\ SoftInv /\ HardPaid /\ UsageFileInv /\ UsageIsConsumption
      /\ softSeen \in [QosCall -> BOOLEAN]
  BY Zenon DEF QosInv, QosFlagsOK
<1>1. PICK arg \in QosArg : /\ qosArg' = [qosArg EXCEPT ![c] = arg]
                            /\ arg.to = policies[p].to /\ arg.mode = policies[p].mode /\ arg.seen = "none"
  BY <1>0, EnqueueArg
<1>2. /\ qosPc[c] = "idle" /\ policies[p].mode # "none" /\ qosPc' = [qosPc EXCEPT ![c] = "check"]
      /\ UNCHANGED <<policies, bucketOf, tokens, given, madeFor, usage, queueLen, usageFile>>
  BY DEF EnqueueTaskWithQoS, QosGoto, qosBuckets, qosFile
<1>3. /\ filesOverlap' = filesOverlap
      /\ softSeen' = [softSeen EXCEPT ![c] = \E q \in Applies(policies[p].to) : policies[q].mode = "soft"]
  BY Zenon DEF EnqueueTaskWithQoS, qosFile
<1>4. /\ qosPc'[c] = "check" /\ qosArg'[c] = arg
      /\ \A d \in QosCall \ {c} : qosPc'[d] = qosPc[d] /\ qosArg'[d] = qosArg[d]
  BY <1>0, <1>1, <1>2 DEF QosTypes
<1>5. /\ \A d \in QosCall \ {c} : softSeen'[d] = softSeen[d]
      /\ softSeen'[c] = \E q \in Applies(policies[p].to) : policies[q].mode = "soft"
  BY <1>0, <1>3, Zenon
<1>6. QosTypes'
  <2>1. qosPc' \in [QosCall -> QosPlace] /\ qosArg' \in [QosCall -> QosArg]
    BY <1>0, <1>1, <1>2 DEF QosTypes, QosPlace
  <2> QED BY <1>0, <1>2, <2>1 DEF QosTypes
<1>7. BucketInv'
  BY <1>0, <1>2 DEF BucketInv
<1>8. FoundInv'
  <2>1. arg.to \in Owner
    BY <1>0, <1>1, <1>2 DEF BucketInv
  <2> QED BY <1>0, <1>2, <1>4, <2>1 DEF FoundInv
<1>9. SoftInv'
  <2>1. SoftIn(policies', arg.to) => softSeen'[c]
    <3>1. SoftIn(policies', arg.to) => \E q \in Applies(policies[p].to) : policies[q].mode = "soft"
      BY <1>1, <1>2 DEF SoftIn, Applies
    <3> QED BY <1>5, <3>1, Zenon
  <2>2. ASSUME NEW d \in QosCall \ {c}
        PROVE  /\ qosPc'[d] = "check" /\ SoftIn(policies', qosArg'[d].to) => softSeen'[d]
               /\ qosArg'[d].seen = "soft" => softSeen'[d]
    <3>1. SoftIn(policies', qosArg'[d].to) => SoftIn(policies, qosArg[d].to)
      BY <1>2, <1>4 DEF SoftIn
    <3> QED BY <1>0, <1>4, <1>5, <3>1, Zenon DEF SoftInv
  <2>3. /\ qosPc'[c] = "check" /\ SoftIn(policies', qosArg'[c].to) => softSeen'[c]
        /\ qosArg'[c].seen = "soft" => softSeen'[c]
    <3>1. qosArg'[c].seen # "soft"
      BY <1>1, <1>4
    <3>2. SoftIn(policies', qosArg'[c].to) => SoftIn(policies', arg.to)
      BY <1>4 DEF SoftIn
    <3> QED BY <2>1, <3>1, <3>2, Zenon
  <2>4. ASSUME NEW d \in QosCall
        PROVE  /\ qosPc'[d] = "check" /\ SoftIn(policies', qosArg'[d].to) => softSeen'[d]
               /\ qosArg'[d].seen = "soft" => softSeen'[d]
    BY <2>2, <2>3, Zenon
  <2> QED BY <2>4, Zenon DEF SoftInv
<1>10. HardPaid'
  <2>1. qosPc'[c] # "queued"
    BY <1>4
  <2> QED BY <1>0, <1>4, <1>5, <2>1, Zenon DEF HardPaid
<1>11. UsageFileInv'
  BY <1>0, <1>2, <1>3, <1>4 DEF UsageFileInv
<1>12. UsageIsConsumption'
  <2>1. "check" # "count" /\ qosPc[c] # "count"
    BY <1>2
  <2> QED BY <1>0, <1>1, <1>2, <2>1, NothingTaken
<1>13. UsageFileForward
  BY <1>0, <1>2 DEF UsageFileForward, QosTypes
<1> QED BY <1>6, <1>7, <1>8, <1>9, <1>10, <1>11, <1>12, <1>13 DEF QosKept

\* A step of a call that leaves policies, buckets and what is seen alone, but for its
\* own place and variables, in what it must not touch.
LEMMA CallRest ==
  ASSUME QosInv, NEW c \in QosCall, NEW place \in QosPlace, NEW arg \in QosArg,
         qosPc' = [qosPc EXCEPT ![c] = place], qosArg' = [qosArg EXCEPT ![c] = arg],
         place # "check", place = "count" => qosPc[c] = "consume" /\ Keeps(arg, qosArg[c]),
         place = "consume" => /\ arg.to \in Owner /\ arg.bucket \in Bucket /\ given[arg.bucket] > 0
                              /\ madeFor[arg.bucket] = arg.to,
         UNCHANGED <<policies, bucketOf, given, madeFor>>
  PROVE  FoundInv' /\ \A d \in QosCall \ {c} : qosPc'[d] = qosPc[d] /\ qosArg'[d] = qosArg[d]
<1>0. QosTypes /\ FoundInv
  BY DEF QosInv
<1>1. /\ qosPc'[c] = place /\ qosArg'[c] = arg
      /\ \A d \in QosCall \ {c} : qosPc'[d] = qosPc[d] /\ qosArg'[d] = qosArg[d]
  BY <1>0 DEF QosTypes
<1>2. place = "count" => arg.to \in Owner
  BY <1>0 DEF FoundInv, Keeps
<1>3. FoundInv'
  <2>1. ASSUME NEW d \in QosCall
        PROVE  /\ qosPc'[d] \in {"check", "consume", "count"} => qosArg'[d].to \in Owner
               /\ qosPc'[d] = "consume" => /\ qosArg'[d].bucket \in Bucket /\ given[qosArg'[d].bucket] > 0
                                           /\ madeFor[qosArg'[d].bucket] = qosArg'[d].to
    <3>1. CASE d = c
      BY <1>1, <1>2, <3>1
    <3>2. CASE d # c
      BY <1>0, <1>1, <3>2 DEF FoundInv
    <3> QED BY <3>1, <3>2
  <2> QED BY <2>1 DEF FoundInv
<1> QED BY <1>1, <1>3

\* CheckAdmission finds the owner's bucket, or none, and the mode of some policy.
LEMMA CheckKeeps ==
  ASSUME QosInv, NEW c \in QosCall, CheckAdmission(c)
  PROVE  QosKept' /\ UsageFileForward
<1>0. /\ QosTypes /\ BucketInv /\ FoundInv /\ SoftInv /\ HardPaid /\ UsageFileInv /\ UsageIsConsumption
      /\ softSeen \in [QosCall -> BOOLEAN]
  BY Zenon DEF QosInv, QosFlagsOK
<1>1. /\ qosPc[c] = "check" /\ qosArg[c].to \in Owner
      /\ UNCHANGED <<policies, bucketOf, tokens, given, madeFor, usage, queueLen, usageFile>>
  BY <1>0 DEF CheckAdmission, FoundInv, qosBuckets, qosFile
<1>2. filesOverlap' = filesOverlap /\ softSeen' = softSeen
  BY Zenon DEF CheckAdmission, qosFile
<1>3. PICK place \in QosPlace, arg \in QosArg :
        /\ qosPc' = [qosPc EXCEPT ![c] = place] /\ qosArg' = [qosArg EXCEPT ![c] = arg]
        /\ Keeps(arg, qosArg[c]) /\ arg.copy = qosArg[c].copy
        /\ \/ place = "answer" /\ arg.seen = qosArg[c].seen
           \/ /\ place = "consume" /\ bucketOf[qosArg[c].to] # 0
              /\ arg.bucket = bucketOf[qosArg[c].to] /\ arg.seen \in Modes(qosArg[c].to)
  <2>1. CASE bucketOf[qosArg[c].to] = 0
    <3>1. qosPc' = [qosPc EXCEPT ![c] = "answer"] /\ qosArg' = [qosArg EXCEPT ![c] = qosArg[c]]
      BY <1>0, <2>1 DEF CheckAdmission, QosGoto, QosTypes
    <3>2. qosArg[c] \in QosArg /\ Keeps(qosArg[c], qosArg[c]) /\ "answer" \in QosPlace
      BY <1>0 DEF QosTypes, Keeps, QosPlace
    <3> QED BY <3>1, <3>2
  <2>2. CASE bucketOf[qosArg[c].to] # 0
    <3>1. PICK arg \in QosArg : /\ qosArg' = [qosArg EXCEPT ![c] = arg] /\ Keeps(arg, qosArg[c])
                                /\ arg.bucket = bucketOf[qosArg[c].to] /\ arg.seen \in Modes(qosArg[c].to)
                                /\ arg.copy = qosArg[c].copy
      BY <1>0, <1>1, <2>2, CheckArg
    <3>2. qosPc' = [qosPc EXCEPT ![c] = "consume"] /\ "consume" \in QosPlace
      BY <2>2 DEF CheckAdmission, QosGoto, QosPlace
    <3> QED BY <2>2, <3>1, <3>2
  <2> QED BY <2>1, <2>2
<1>4. place = "consume" => /\ arg.to \in Owner /\ arg.bucket \in Bucket /\ given[arg.bucket] > 0
                           /\ madeFor[arg.bucket] = arg.to
  BY <1>0, <1>1, <1>3 DEF QosTypes, BucketInv, Keeps
<1>5. FoundInv' /\ \A d \in QosCall \ {c} : qosPc'[d] = qosPc[d] /\ qosArg'[d] = qosArg[d]
  BY <1>1, <1>3, <1>4, CallRest
<1>6. qosPc'[c] = place /\ qosArg'[c] = arg /\ place \notin {"check", "queued", "rename"}
  BY <1>0, <1>3 DEF QosTypes
<1>7. QosTypes'
  <2>1. qosPc' \in [QosCall -> QosPlace] /\ qosArg' \in [QosCall -> QosArg]
    BY <1>0, <1>3 DEF QosTypes
  <2> QED BY <1>0, <1>1, <2>1 DEF QosTypes
<1>8. BucketInv'
  BY <1>0, <1>1 DEF BucketInv
<1>9. SoftInv'
  <2>1. arg.seen = "soft" => softSeen[c]
    <3>1. CASE arg.seen = qosArg[c].seen
      BY <1>0, <3>1, Zenon DEF SoftInv
    <3>2. CASE arg.seen \in Modes(qosArg[c].to)
      <4>1. arg.seen = "soft" => SoftIn(policies, qosArg[c].to)
        BY <3>2 DEF Modes, Applies, SoftIn
      <4> QED BY <1>0, <1>1, <4>1, Zenon DEF SoftInv
    <3> QED BY <1>3, <3>1, <3>2
  <2>2. ASSUME NEW d \in QosCall
        PROVE  /\ qosPc'[d] = "check" /\ SoftIn(policies', qosArg'[d].to) => softSeen[d]
               /\ qosArg'[d].seen = "soft" => softSeen[d]
    <3>1. CASE d = c
      <4>1. qosPc'[d] # "check" /\ (qosArg'[d].seen = "soft" => arg.seen = "soft")
        BY <1>6, <3>1
      <4> QED BY <2>1, <3>1, <4>1, Zenon
    <3>2. CASE d # c
      <4>1. qosPc'[d] = qosPc[d] /\ qosArg'[d] = qosArg[d] /\ policies' = policies
        BY <1>1, <1>5, <3>2
      <4> QED BY <1>0, <4>1, Zenon DEF SoftInv
    <3> QED BY <3>1, <3>2
  <2> QED BY <1>2, <2>2, Zenon DEF SoftInv
<1>10. HardPaid'
  BY <1>0, <1>2, <1>5, <1>6, Zenon DEF HardPaid
<1>11. UsageFileInv'
  BY <1>0, <1>1, <1>2, <1>5, <1>6 DEF UsageFileInv
<1>12. UsageIsConsumption'
  <2>1. place # "count" /\ qosPc[c] # "count"
    BY <1>1, <1>3
  <2> QED BY <1>0, <1>1, <1>3, <2>1, NothingTaken
<1>13. UsageFileForward
  BY <1>0, <1>1 DEF UsageFileForward, QosTypes
<1> QED BY <1>5, <1>7, <1>8, <1>9, <1>10, <1>11, <1>12, <1>13 DEF QosKept

\* Tokens taken are the call's until it counts them.
LEMMA ConsumeKeeps ==
  ASSUME QosInv, NEW c \in QosCall, Consume(c)
  PROVE  QosKept' /\ UsageFileForward
<1>0. /\ QosTypes /\ BucketInv /\ FoundInv /\ SoftInv /\ HardPaid /\ UsageFileInv /\ UsageIsConsumption
      /\ Bandwidth \in Nat \ {0} /\ MaxBuckets \in Nat /\ IsFiniteSet(QosCall)
  BY QosAssumption DEF QosInv
<1>1. PICK arg \in QosArg : /\ qosArg' = [qosArg EXCEPT ![c] = arg] /\ Keeps(arg, qosArg[c])
                            /\ arg.seen = qosArg[c].seen /\ arg.copy = qosArg[c].copy
                            /\ (arg.paid \/ (tokens' = tokens /\ arg.paid = qosArg[c].paid))
  BY <1>0, ConsumeArg
<1>2. /\ qosPc[c] = "consume"
      /\ UNCHANGED <<policies, bucketOf, given, madeFor, usage, queueLen, usageFile>>
  BY DEF Consume, qosFile
<1>3. filesOverlap' = filesOverlap /\ softSeen' = softSeen
  BY Zenon DEF Consume, qosFile
<1>4. PICK b \in Bucket, n \in 0..Bandwidth, o \in Owner :
        b = qosArg[c].bucket /\ n = qosArg[c].req /\ o = qosArg[c].to /\ madeFor[b] = o
  <2>1. qosArg[c].req \in 0..Bandwidth
    BY <1>0 DEF QosTypes, QosArg
  <2> QED BY <1>0, <1>2, <2>1 DEF FoundInv
<1>5. PICK place \in {"count", "answer"} :
        /\ qosPc' = [qosPc EXCEPT ![c] = place]
        /\ place = "count" => tokens[b] >= n /\ tokens' = [tokens EXCEPT ![b] = @ - n]
        /\ place = "answer" => tokens' = tokens
  BY <1>4 DEF Consume, QosGoto
<1>6. place \in QosPlace /\ place # "check" /\ place # "consume" /\ place # "queued" /\ place # "rename"
  BY DEF QosPlace
<1>7. FoundInv' /\ \A d \in QosCall \ {c} : qosPc'[d] = qosPc[d] /\ qosArg'[d] = qosArg[d]
  BY <1>1, <1>2, <1>5, <1>6, CallRest
<1>8. qosPc'[c] = place /\ qosArg'[c] = arg
  BY <1>0, <1>1, <1>5 DEF QosTypes
<1>9. tokens' \in [Bucket -> 0..Bandwidth] /\ \A d \in Bucket : tokens'[d] <= tokens[d] /\ tokens[d] \in 0..Bandwidth
  <2>1. CASE place = "count"
    BY <1>0, <1>4, <1>5, <2>1 DEF QosTypes
  <2>2. CASE place = "answer"
    BY <1>0, <1>5, <2>2 DEF QosTypes
  <2> QED BY <1>5, <2>1, <2>2
<1>10. QosTypes'
  <2>1. qosPc' \in [QosCall -> QosPlace] /\ qosArg' \in [QosCall -> QosArg]
    BY <1>0, <1>1, <1>5, <1>6 DEF QosTypes
  <2> QED BY <1>0, <1>2, <1>9, <2>1 DEF QosTypes
<1>11. BucketInv'
  <2>1. \A d \in Bucket : tokens'[d] <= given[d]
    BY <1>0, <1>9 DEF BucketInv, QosTypes
  <2> QED BY <1>0, <1>2, <2>1 DEF BucketInv
<1>12. SoftInv'
  <2>1. \A d \in QosCall : qosArg'[d].seen = qosArg[d].seen
    BY <1>1, <1>7, <1>8
  <2>2. \A d \in QosCall : qosPc'[d] = "check" => d # c /\ qosPc[d] = "check" /\ qosArg'[d] = qosArg[d]
    BY <1>6, <1>7, <1>8
  <2> QED BY <1>0, <1>2, <1>3, <2>1, <2>2, Zenon DEF SoftInv
<1>13. HardPaid'
  <2>1. qosPc'[c] # "queued"
    BY <1>6, <1>8
  <2> QED BY <1>0, <1>3, <1>7, <2>1, Zenon DEF HardPaid
<1>14. UsageFileInv'
  BY <1>0, <1>2, <1>3, <1>6, <1>7, <1>8 DEF UsageFileInv
<1>15. UsageIsConsumption'
  <2>1. ASSUME NEW q \in Owner PROVE usage[q] + SumFunction(TakenFrom(q)') = SumFunction(GivenAway(q)')
    <3>0. usage[q] + SumFunction(TakenFrom(q)) = SumFunction(GivenAway(q)) /\ usage[q] \in Nat
      BY <1>0 DEF UsageIsConsumption, QosTypes
    <3>1. PICK f, f1 : f = TakenFrom(q) /\ f1 = TakenFrom(q)'
      OBVIOUS
    <3>2. PICK g, g1 : g = GivenAway(q) /\ g1 = GivenAway(q)'
      OBVIOUS
    <3>3. \A d \in QosCall : qosArg[d].req \in Int
      BY <1>0 DEF QosTypes, QosArg
    <3>4. f \in [QosCall -> Int] /\ f[c] = 0 /\ f = [d \in QosCall |-> IF qosPc[d] = "count" /\ qosArg[d].to = q THEN qosArg[d].req ELSE 0]
      BY <1>2, <3>1, <3>3 DEF TakenFrom
    <3>5. f1 = [d \in QosCall |-> IF qosPc'[d] = "count" /\ qosArg'[d].to = q THEN qosArg'[d].req ELSE 0]
      BY <3>1 DEF TakenFrom
    <3>6. arg.to = o /\ arg.req = n
      BY <1>1, <1>4 DEF Keeps
    <3>7. f1 \in [QosCall -> Int]
      BY <1>10, <3>5 DEF QosTypes, QosArg
    <3>8. /\ \A d \in QosCall \ {c} : f1[d] = f[d]
          /\ f1[c] = IF place = "count" /\ o = q THEN n ELSE 0
      BY <1>7, <1>8, <3>4, <3>5, <3>6
    <3>9. SumFunction(f1) = SumFunction(f) - f[c] + f1[c] /\ SumFunction(f) \in Int
      BY <1>0, <3>4, <3>7, <3>8, SumChange
    <3>10. /\ g = [d \in Bucket |-> IF madeFor[d] = q THEN given[d] - tokens[d] ELSE 0]
           /\ g1 = [d \in Bucket |-> IF madeFor[d] = q THEN given[d] - tokens'[d] ELSE 0]
      BY <1>2, <3>2 DEF GivenAway
    <3>11. /\ \A d \in Bucket : given[d] \in Int /\ tokens[d] \in Int /\ tokens'[d] \in Int
           /\ \A d \in Bucket \ {b} : tokens'[d] = tokens[d]
           /\ tokens'[b] = tokens[b] - (IF place = "count" THEN n ELSE 0)
      <4>1. \A d \in Bucket : given[d] \in Int /\ tokens[d] \in Int /\ tokens'[d] \in Int
        BY <1>0, <1>9 DEF QosTypes
      <4>2. CASE place = "count"
        BY <1>0, <1>5, <4>1, <4>2 DEF QosTypes
      <4>3. CASE place = "answer"
        BY <1>5, <4>1, <4>3
      <4> QED BY <1>5, <4>1, <4>2, <4>3
    <3>12. g \in [Bucket -> Int] /\ g1 \in [Bucket -> Int]
      BY <3>10, <3>11
    <3>13. /\ \A d \in Bucket \ {b} : g1[d] = g[d]
           /\ g1[b] = g[b] + (IF place = "count" /\ o = q THEN n ELSE 0)
      <4>1. \A d \in Bucket \ {b} : g1[d] = g[d]
        BY <3>10, <3>11
      <4>2. CASE o = q
        BY <1>4, <3>10, <3>11, <4>2
      <4>3. CASE o # q
        BY <1>4, <3>10, <3>11, <4>3
      <4> QED BY <4>1, <4>2, <4>3
    <3>14. IsFiniteSet(Bucket)
      BY <1>0, FS_Interval DEF Bucket
    <3>15. SumFunction(g1) = SumFunction(g) - g[b] + g1[b] /\ SumFunction(g) \in Int
      BY <3>12, <3>13, <3>14, SumChange
    <3>16. g[b] \in Int /\ n \in Int
      BY <1>4, <3>12
    <3>17. usage[q] + SumFunction(f1) = SumFunction(g1)
      <4>1. CASE place = "count" /\ o = q
        BY <3>0, <3>1, <3>2, <3>4, <3>8, <3>9, <3>13, <3>15, <3>16, <4>1
      <4>2. CASE ~(place = "count" /\ o = q)
        BY <3>0, <3>1, <3>2, <3>4, <3>8, <3>9, <3>13, <3>15, <3>16, <4>2
      <4> QED BY <4>1, <4>2
    <3> QED BY <3>1, <3>2, <3>17
  <2> QED BY <1>2, <2>1 DEF UsageIsConsumption
<1>16. UsageFileForward
  BY <1>0, <1>2 DEF UsageFileForward, QosTypes
<1> QED BY <1>7, <1>10, <1>11, <1>12, <1>13, <1>14, <1>15, <1>16 DEF QosKept

\* What was taken is counted for its owner.
LEMMA CountKeeps ==
  ASSUME QosInv, NEW c \in QosCall, CountUsage(c)
  PROVE  QosKept' /\ UsageFileForward
<1>0. /\ QosTypes /\ BucketInv /\ FoundInv /\ SoftInv /\ HardPaid /\ UsageFileInv /\ UsageIsConsumption
      /\ Bandwidth \in Nat \ {0} /\ IsFiniteSet(QosCall)
  BY QosAssumption DEF QosInv
<1>1. /\ qosPc[c] = "count" /\ qosPc' = [qosPc EXCEPT ![c] = "answer"] /\ qosArg' = qosArg
      /\ UNCHANGED <<policies, bucketOf, tokens, given, madeFor, queueLen, usageFile>>
  BY DEF CountUsage, QosGoto, qosBuckets, qosFile
<1>2. filesOverlap' = filesOverlap /\ softSeen' = softSeen
  BY Zenon DEF CountUsage, qosFile
<1>3. PICK n \in 0..Bandwidth, o \in Owner :
        n = qosArg[c].req /\ o = qosArg[c].to /\ usage' = [usage EXCEPT ![o] = @ + n]
  <2>1. qosArg[c].req \in 0..Bandwidth /\ qosArg[c].to \in Owner
    BY <1>0, <1>1 DEF QosTypes, QosArg, FoundInv
  <2> QED BY <2>1 DEF CountUsage, Counted
<1>4. qosPc'[c] = "answer" /\ \A d \in QosCall \ {c} : qosPc'[d] = qosPc[d]
  BY <1>0, <1>1 DEF QosTypes
<1>5. /\ usage' \in [Owner -> Nat] /\ usage'[o] = usage[o] + n
      /\ \A q \in Owner \ {o} : usage'[q] = usage[q]
      /\ \A q \in Owner : usage[q] \in Nat /\ usage'[q] >= usage[q]
  BY <1>0, <1>3 DEF QosTypes
<1>6. QosTypes'
  <2>1. qosPc' \in [QosCall -> QosPlace]
    BY <1>0, <1>1 DEF QosTypes, QosPlace
  <2> QED BY <1>0, <1>1, <1>5, <2>1 DEF QosTypes
<1>7. BucketInv'
  BY <1>0, <1>1 DEF BucketInv
<1>8. FoundInv'
  BY <1>0, <1>1, <1>4 DEF FoundInv
<1>9. SoftInv' /\ HardPaid'
  <2>1. \A d \in QosCall : /\ qosPc'[d] = "check" => qosPc[d] = "check"
                           /\ qosPc'[d] = "queued" => qosPc[d] = "queued"
    BY <1>4
  <2> QED BY <1>0, <1>1, <1>2, <2>1, Zenon DEF SoftInv, HardPaid
<1>10. UsageFileInv'
  <2>1. \A d \in QosCall : qosPc'[d] = "rename" <=> qosPc[d] = "rename"
    BY <1>1, <1>4
  <2>2. \A q \in Owner : usageFile[q] \in Nat
    BY <1>0 DEF QosTypes
  <2>3. \A d \in QosCall, q \in Owner : qosArg[d].copy[q] \in Nat
    BY <1>0 DEF QosTypes, QosArg
  <2>4. /\ \A q \in Owner : usageFile[q] <= usage'[q]
        /\ \A d \in QosCall : qosPc[d] = "rename" => \A q \in Owner : qosArg[d].copy[q] <= usage'[q]
    BY <1>0, <1>5, <2>2, <2>3 DEF UsageFileInv
  <2> QED BY <1>0, <1>1, <1>2, <2>1, <2>4 DEF UsageFileInv
<1>11. UsageIsConsumption'
  <2>1. ASSUME NEW q \in Owner PROVE usage'[q] + SumFunction(TakenFrom(q)') = SumFunction(GivenAway(q)')
    <3>0. usage[q] + SumFunction(TakenFrom(q)) = SumFunction(GivenAway(q)) /\ usage[q] \in Nat
      BY <1>0 DEF UsageIsConsumption, QosTypes
    <3>1. PICK f, f1 : f = TakenFrom(q) /\ f1 = TakenFrom(q)'
      OBVIOUS
    <3>2. \A d \in QosCall : qosArg[d].req \in Int
      BY <1>0 DEF QosTypes, QosArg
    <3>3. f = [d \in QosCall |-> IF qosPc[d] = "count" /\ qosArg[d].to = q THEN qosArg[d].req ELSE 0]
      BY <3>1 DEF TakenFrom
    <3>4. f1 = [d \in QosCall |-> IF qosPc'[d] = "count" /\ qosArg[d].to = q THEN qosArg[d].req ELSE 0]
      BY <1>1, <3>1 DEF TakenFrom
    <3>5. f \in [QosCall -> Int] /\ f1 \in [QosCall -> Int]
      BY <3>2, <3>3, <3>4
    <3>6. /\ \A d \in QosCall \ {c} : f1[d] = f[d]
          /\ f1[c] = 0 /\ f[c] = IF o = q THEN n ELSE 0
      BY <1>1, <1>3, <1>4, <3>3, <3>4
    <3>7. SumFunction(f1) = SumFunction(f) - f[c] + f1[c] /\ SumFunction(f) \in Int
      BY <1>0, <3>5, <3>6, SumChange
    <3>8. GivenAway(q)' = GivenAway(q)
      BY <1>1 DEF GivenAway
    <3>9. usage'[q] = usage[q] + (IF o = q THEN n ELSE 0)
      BY <1>5
    <3>10. usage'[q] + SumFunction(f1) = SumFunction(GivenAway(q))
      <4>1. CASE o = q
        BY <1>3, <3>0, <3>1, <3>6, <3>7, <3>9, <4>1
      <4>2. CASE o # q
        BY <1>3, <3>0, <3>1, <3>6, <3>7, <3>9, <4>2
      <4> QED BY <4>1, <4>2
    <3> QED BY <3>1, <3>8, <3>10
  <2> QED BY <2>1 DEF UsageIsConsumption
<1>12. UsageFileForward
  BY <1>0, <1>1 DEF UsageFileForward, QosTypes
<1> QED BY <1>6, <1>7, <1>8, <1>9, <1>10, <1>11, <1>12 DEF QosKept

\* A task that is let in was paid for, or a soft policy was seen.
LEMMA AnswerKeeps ==
  ASSUME QosInv, NEW c \in QosCall, QosEnqueue(c)
  PROVE  QosKept' /\ UsageFileForward
<1>0. /\ QosTypes /\ BucketInv /\ FoundInv /\ SoftInv /\ HardPaid /\ UsageFileInv /\ UsageIsConsumption
      /\ QosQueueSize \in Nat
  BY QosAssumption DEF QosInv
<1>1. /\ qosPc[c] = "answer" /\ qosArg' = qosArg
      /\ UNCHANGED <<policies, bucketOf, tokens, given, madeFor, usage, usageFile>>
  BY DEF QosEnqueue, qosBuckets, qosFile
<1>2. filesOverlap' = filesOverlap /\ softSeen' = softSeen
  BY Zenon DEF QosEnqueue, qosFile
<1>3. PICK place \in {"end", "queued"} :
        qosPc' = [qosPc EXCEPT ![c] = place] /\ (place = "queued" => ~QosRefused(c))
  <2>1. CASE QosRefused(c) \/ queueLen[qosArg[c].level] >= QosQueueSize
    BY <2>1, Zenon DEF QosEnqueue, QosGoto
  <2>2. CASE ~(QosRefused(c) \/ queueLen[qosArg[c].level] >= QosQueueSize)
    BY <2>2, Zenon DEF QosEnqueue, QosGoto
  <2> QED BY <2>1, <2>2
<1>4. qosPc'[c] = place /\ \A d \in QosCall \ {c} : qosPc'[d] = qosPc[d]
  BY <1>0, <1>3 DEF QosTypes
<1>5. queueLen' \in [Level -> 0..QosQueueSize]
  <2>1. CASE QosRefused(c) \/ queueLen[qosArg[c].level] >= QosQueueSize
    <3>1. queueLen' = queueLen
      BY <2>1, Zenon DEF QosEnqueue
    <3> QED BY <1>0, <3>1 DEF QosTypes
  <2>2. CASE ~(QosRefused(c) \/ queueLen[qosArg[c].level] >= QosQueueSize)
    <3>1. PICK l : l = qosArg[c].level
      OBVIOUS
    <3>2. queueLen' = [queueLen EXCEPT ![l] = @ + 1] /\ ~(queueLen[l] >= QosQueueSize)
      BY <2>2, <3>1, Zenon DEF QosEnqueue
    <3>3. queueLen \in [Level -> 0..QosQueueSize]
      BY <1>0 DEF QosTypes
    <3>4. \A k \in Level : queueLen'[k] \in 0..QosQueueSize
      <4> TAKE k \in Level
      <4>1. queueLen[k] \in Nat /\ queueLen[k] <= QosQueueSize
        BY <1>0, <3>3
      <4>2. queueLen'[k] = IF k = l THEN queueLen[k] + 1 ELSE queueLen[k]
        BY <3>2, <3>3
      <4>3. k = l => queueLen[k] + 1 <= QosQueueSize
        BY <1>0, <3>2, <4>1
      <4> QED BY <1>0, <4>1, <4>2, <4>3
    <3>5. queueLen' = [k \in Level |-> queueLen'[k]]
      BY <3>2, <3>3
    <3> QED BY <3>4, <3>5
  <2> QED BY <2>1, <2>2
<1>6. QosTypes'
  <2>1. qosPc' \in [QosCall -> QosPlace]
    BY <1>0, <1>3 DEF QosTypes, QosPlace
  <2> QED BY <1>0, <1>1, <1>5, <2>1 DEF QosTypes
<1>7. BucketInv'
  BY <1>0, <1>1 DEF BucketInv
<1>8. FoundInv'
  BY <1>0, <1>1, <1>4 DEF FoundInv
<1>9. SoftInv'
  <2>1. \A d \in QosCall : qosPc'[d] = "check" => qosPc[d] = "check"
    BY <1>4
  <2> QED BY <1>0, <1>1, <1>2, <2>1, Zenon DEF SoftInv
<1>10. HardPaid'
  <2>1. place = "queued" /\ qosArg[c].mode = "hard" => qosArg[c].paid \/ softSeen[c]
    <3>1. place = "queued" /\ qosArg[c].mode = "hard" => qosArg[c].paid \/ qosArg[c].seen = "soft"
      BY <1>3, Zenon DEF QosRefused
    <3> QED BY <1>0, <3>1, Zenon DEF SoftInv
  <2>2. ASSUME NEW d \in QosCall, qosPc'[d] = "queued", qosArg[d].mode = "hard"
        PROVE  qosArg[d].paid \/ softSeen[d]
    <3>1. CASE d = c
      BY <1>4, <2>1, <2>2, <3>1, Zenon
    <3>2. CASE d # c
      <4>1. qosPc[d] = "queued"
        BY <1>4, <2>2, <3>2
      <4> QED BY <1>0, <2>2, <4>1, Zenon DEF HardPaid
    <3> QED BY <3>1, <3>2
  <2> QED BY <1>1, <1>2, <2>2, Zenon DEF HardPaid
<1>11. UsageFileInv'
  <2>1. \A d \in QosCall : qosPc'[d] = "rename" <=> qosPc[d] = "rename"
    BY <1>1, <1>4
  <2> QED BY <1>0, <1>1, <1>2, <2>1 DEF UsageFileInv
<1>12. UsageIsConsumption'
  <2>1. place # "count" /\ qosPc[c] # "count" /\ qosArg' = [qosArg EXCEPT ![c] = qosArg[c]]
    BY <1>0, <1>1 DEF QosTypes
  <2> QED BY <1>0, <1>1, <1>3, <2>1, NothingTaken
<1>13. UsageFileForward
  BY <1>0, <1>1 DEF UsageFileForward, QosTypes
<1> QED BY <1>6, <1>7, <1>8, <1>9, <1>10, <1>11, <1>12, <1>13 DEF QosKept

\* The copy and the rename of the usage file.
LEMMA CopyKeeps ==
  ASSUME QosInv, NEW c \in QosCall, CopyUsage(c)
  PROVE  QosKept' /\ UsageFileForward
<1>0. QosTypes /\ BucketInv /\ FoundInv /\ SoftInv /\ HardPaid /\ UsageFileInv /\ UsageIsConsumption
  BY DEF QosInv
<1>1. PICK arg \in QosArg : /\ qosArg' = [qosArg EXCEPT ![c] = arg] /\ Keeps(arg, qosArg[c])
                            /\ arg.seen = qosArg[c].seen /\ arg.copy = usage
  BY <1>0, CopyArg
<1>2. /\ qosPc[c] = "copy" /\ qosPc' = [qosPc EXCEPT ![c] = "rename"]
      /\ UNCHANGED <<policies, bucketOf, tokens, given, madeFor, usage, queueLen, usageFile>>
  BY DEF CopyUsage, QosGoto, qosBuckets
<1>3. softSeen' = softSeen /\ (~filesOverlap' => ~filesOverlap /\ \A d \in QosCall \ {c} : qosPc[d] # "rename")
  BY Zenon DEF CopyUsage
<1>4. "rename" \in QosPlace
  BY DEF QosPlace
<1>5. FoundInv' /\ \A d \in QosCall \ {c} : qosPc'[d] = qosPc[d] /\ qosArg'[d] = qosArg[d]
  BY <1>1, <1>2, <1>4, CallRest
<1>6. qosPc'[c] = "rename" /\ qosArg'[c] = arg
  BY <1>0, <1>1, <1>2 DEF QosTypes
<1>7. QosTypes'
  <2>1. qosPc' \in [QosCall -> QosPlace] /\ qosArg' \in [QosCall -> QosArg]
    BY <1>0, <1>1, <1>2, <1>4 DEF QosTypes
  <2> QED BY <1>0, <1>2, <2>1 DEF QosTypes
<1>8. BucketInv'
  BY <1>0, <1>2 DEF BucketInv
<1>9. SoftInv' /\ HardPaid'
  <2>1. \A d \in QosCall : qosArg'[d].seen = qosArg[d].seen
    BY <1>1, <1>5, <1>6
  <2>2. \A d \in QosCall : /\ qosPc'[d] = "check" => qosPc[d] = "check" /\ qosArg'[d] = qosArg[d]
                           /\ qosPc'[d] = "queued" => qosPc[d] = "queued" /\ qosArg'[d] = qosArg[d]
    BY <1>5, <1>6
  <2> QED BY <1>0, <1>2, <1>3, <2>1, <2>2, Zenon DEF SoftInv, HardPaid
<1>10. UsageFileInv'
  <2>1. \A o \in Owner : usage[o] \in Nat /\ usageFile[o] <= usage[o]
    BY <1>0 DEF UsageFileInv, QosTypes
  <2>2. ASSUME NEW d \in QosCall, qosPc'[d] = "rename" PROVE \A o \in Owner : qosArg'[d].copy[o] <= usage[o]
    BY <1>0, <1>1, <1>5, <1>6, <2>1, <2>2 DEF UsageFileInv
  <2>3. ASSUME ~filesOverlap', NEW d \in QosCall, qosPc'[d] = "rename"
        PROVE  /\ \A o \in Owner : usageFile[o] <= qosArg'[d].copy[o]
               /\ \A e \in QosCall \ {d} : qosPc'[e] # "rename"
    <3>1. d = c
      BY <1>3, <1>5, <2>3
    <3> QED BY <1>1, <1>3, <1>5, <1>6, <2>1, <2>3, <3>1
  <2> QED BY <1>2, <2>1, <2>2, <2>3 DEF UsageFileInv
<1>11. UsageIsConsumption'
  <2>1. "rename" # "count" /\ qosPc[c] # "count"
    BY <1>2
  <2> QED BY <1>0, <1>1, <1>2, <2>1, NothingTaken
<1>12. UsageFileForward
  BY <1>0, <1>2 DEF UsageFileForward, QosTypes
<1> QED BY <1>5, <1>7, <1>8, <1>9, <1>10, <1>11, <1>12 DEF QosKept

\* The renamed copy goes forward while no other writer has come between.
LEMMA RenameUsageKeeps ==
  ASSUME QosInv, NEW c \in QosCall, RenameUsage(c)
  PROVE  QosKept' /\ UsageFileForward
<1>0. QosTypes /\ BucketInv /\ FoundInv /\ SoftInv /\ HardPaid /\ UsageFileInv /\ UsageIsConsumption
  BY DEF QosInv
<1>1. /\ qosPc[c] = "rename" /\ qosPc' = [qosPc EXCEPT ![c] = "end"] /\ qosArg' = qosArg
      /\ usageFile' = qosArg[c].copy
      /\ UNCHANGED <<policies, bucketOf, tokens, given, madeFor, usage, queueLen>>
  BY DEF RenameUsage, QosGoto, qosBuckets, Copied
<1>2. filesOverlap' = filesOverlap /\ softSeen' = softSeen
  BY Zenon DEF RenameUsage
<1>3. qosPc'[c] = "end" /\ \A d \in QosCall \ {c} : qosPc'[d] = qosPc[d]
  BY <1>0, <1>1 DEF QosTypes
<1>4. usageFile' \in [Owner -> Nat]
  BY <1>0, <1>1 DEF QosTypes, QosArg
<1>5. QosTypes'
  <2>1. qosPc' \in [QosCall -> QosPlace]
    BY <1>0, <1>1 DEF QosTypes, QosPlace
  <2> QED BY <1>0, <1>1, <1>4, <2>1 DEF QosTypes
<1>6. BucketInv'
  BY <1>0, <1>1 DEF BucketInv
<1>7. FoundInv'
  BY <1>0, <1>1, <1>3 DEF FoundInv
<1>8. SoftInv' /\ HardPaid'
  <2>1. \A d \in QosCall : /\ qosPc'[d] = "check" => qosPc[d] = "check"
                           /\ qosPc'[d] = "queued" => qosPc[d] = "queued"
    BY <1>3
  <2> QED BY <1>0, <1>1, <1>2, <2>1, Zenon DEF SoftInv, HardPaid
<1>9. UsageFileInv'
  <2>1. \A o \in Owner : usageFile'[o] <= usage[o]
    BY <1>0, <1>1 DEF UsageFileInv
  <2>2. \A d \in QosCall : qosPc'[d] = "rename" => d # c /\ qosPc[d] = "rename"
    BY <1>3
  <2>3. ~filesOverlap => \A d \in QosCall : qosPc'[d] # "rename"
    BY <1>0, <1>1, <2>2 DEF UsageFileInv
  <2> QED BY <1>0, <1>1, <1>2, <2>1, <2>2, <2>3 DEF UsageFileInv
<1>10. UsageIsConsumption'
  <2>1. "end" # "count" /\ qosPc[c] # "count" /\ qosArg' = [qosArg EXCEPT ![c] = qosArg[c]]
    BY <1>0, <1>1 DEF QosTypes
  <2> QED BY <1>0, <1>1, <2>1, NothingTaken
<1>11. UsageFileForward
  <2>1. \A o \in Owner : qosArg[c].copy[o] \in Nat /\ usageFile[o] \in Nat
    BY <1>0 DEF QosTypes, QosArg
  <2> QED BY <1>0, <1>1, <2>1 DEF UsageFileForward, UsageFileInv
<1> QED BY <1>5, <1>6, <1>7, <1>8, <1>9, <1>10, <1>11 DEF QosKept

\* A call that is over leaves nothing behind.
LEMMA ReturnKeeps ==
  ASSUME QosInv, NEW c \in QosCall, QosReturn(c)
  PROVE  QosKept' /\ UsageFileForward
<1>0. /\ QosTypes /\ BucketInv /\ FoundInv /\ SoftInv /\ HardPaid /\ UsageFileInv /\ UsageIsConsumption
      /\ softSeen \in [QosCall -> BOOLEAN]
  BY Zenon DEF QosInv, QosFlagsOK
<1>1. /\ qosPc[c] \in {"end", "queued", "rename"}
      /\ qosPc' = [qosPc EXCEPT ![c] = "idle"] /\ qosArg' = [qosArg EXCEPT ![c] = NoArg]
      /\ UNCHANGED <<policies, bucketOf, tokens, given, madeFor, usage, queueLen, usageFile>>
  BY DEF QosReturn, QosGoto, qosBuckets, qosFile
<1>2. filesOverlap' = filesOverlap /\ softSeen' = [softSeen EXCEPT ![c] = FALSE]
  BY Zenon DEF QosReturn, qosFile
<1>3. NoArg \in QosArg /\ NoArg.seen = "none" /\ "idle" \in QosPlace
  BY NoArgType DEF NoArg, QosPlace
<1>4. FoundInv' /\ \A d \in QosCall \ {c} : qosPc'[d] = qosPc[d] /\ qosArg'[d] = qosArg[d]
  BY <1>1, <1>3, CallRest
<1>5. /\ qosPc'[c] = "idle" /\ qosArg'[c] = NoArg
  BY <1>0, <1>1 DEF QosTypes
<1>6. \A d \in QosCall \ {c} : softSeen'[d] = softSeen[d]
  BY <1>0, <1>2, Zenon
<1>7. QosTypes'
  <2>1. qosPc' \in [QosCall -> QosPlace] /\ qosArg' \in [QosCall -> QosArg]
    BY <1>0, <1>1, <1>3 DEF QosTypes
  <2> QED BY <1>0, <1>1, <2>1 DEF QosTypes
<1>8. BucketInv'
  BY <1>0, <1>1 DEF BucketInv
<1>9. SoftInv' /\ HardPaid'
  <2>1. /\ qosPc'[c] # "check" /\ qosPc'[c] # "queued" /\ qosArg'[c].seen # "soft"
    BY <1>3, <1>5
  <2>2. policies' = policies
    BY <1>1
  <2>3. ASSUME NEW d \in QosCall
        PROVE  /\ qosPc'[d] = "check" /\ SoftIn(policies', qosArg'[d].to) => softSeen'[d]
               /\ qosArg'[d].seen = "soft" => softSeen'[d]
               /\ qosPc'[d] = "queued" /\ qosArg'[d].mode = "hard" => qosArg'[d].paid \/ softSeen'[d]
    <3>1. CASE d = c
      BY <2>1, <3>1, Zenon
    <3>2. CASE d # c
      <4>1. qosPc'[d] = qosPc[d] /\ qosArg'[d] = qosArg[d]
        BY <1>4, <3>2
      <4>2. softSeen'[d] = softSeen[d]
        BY <1>6, <3>2, Zenon
      <4> QED BY <1>0, <2>2, <4>1, <4>2, Zenon DEF SoftInv, HardPaid
    <3> QED BY <3>1, <3>2
  <2> QED BY <2>3, Zenon DEF SoftInv, HardPaid
<1>10. UsageFileInv'
  <2>1. \A d \in QosCall : qosPc'[d] = "rename" => d # c /\ qosPc[d] = "rename" /\ qosArg'[d] = qosArg[d]
    BY <1>4, <1>5
  <2>2. ~filesOverlap => \A d \in QosCall : qosPc'[d] = "rename" => \A e \in QosCall \ {d} : qosPc'[e] # "rename"
    BY <1>0, <2>1 DEF UsageFileInv
  <2> QED BY <1>0, <1>1, <1>2, <2>1, <2>2 DEF UsageFileInv
<1>11. UsageIsConsumption'
  <2>1. "idle" # "count" /\ qosPc[c] # "count"
    BY <1>1
  <2> QED BY <1>0, <1>1, <2>1, NothingTaken
<1>12. UsageFileForward
  BY <1>0, <1>1 DEF UsageFileForward, QosTypes
<1> QED BY <1>4, <1>7, <1>8, <1>9, <1>10, <1>11, <1>12 DEF QosKept

\* Every step of the quality of service keeps the invariant, and the file goes forward
\* while its writers do not overlap.
LEMMA QosStep ==
  ASSUME QosInv, [QosNext]_qosVars
  PROVE  QosInv' /\ UsageFileForward
<1>0. QosFlagsOK
  BY Zenon DEF QosInv
<1>1. QosFlagsOK'
  <2>1. CASE UNCHANGED <<softSeen, filesOverlap>>
    BY <1>0, <2>1, Zenon DEF QosFlagsOK
  <2>2. ASSUME NEW c \in QosCall, NEW p \in PolicyId, NEW o \in Owner, NEW mode \in {"soft", "hard"}, NEW b \in Bucket,
               SetPolicy(c, p, o, mode, b)
        PROVE  QosFlagsOK'
    BY <1>0, <2>2, Zenon DEF QosFlagsOK, SetPolicy, qosFile
  <2>3. ASSUME NEW c \in QosCall, NEW p \in PolicyId, NEW l \in Level, NEW req \in 1..Bandwidth,
               EnqueueTaskWithQoS(c, p, l, req)
        PROVE  QosFlagsOK'
    BY <1>0, <2>3, Zenon DEF QosFlagsOK, EnqueueTaskWithQoS, qosFile
  <2>4. ASSUME NEW c \in QosCall, CopyUsage(c) PROVE QosFlagsOK'
    BY <1>0, <2>4, Zenon DEF QosFlagsOK, CopyUsage
  <2>5. ASSUME NEW c \in QosCall, QosReturn(c) PROVE QosFlagsOK'
    BY <1>0, <2>5, Zenon DEF QosFlagsOK, QosReturn, qosFile
  <2>6. ASSUME NEW c \in QosCall,
               CheckAdmission(c) \/ Consume(c) \/ CountUsage(c) \/ QosEnqueue(c) \/ RenameUsage(c)
        PROVE  UNCHANGED <<softSeen, filesOverlap>>
    BY <2>6, Zenon DEF CheckAdmission, Consume, CountUsage, QosEnqueue, RenameUsage, qosFile
  <2>7. ASSUME UNCHANGED qosVars PROVE UNCHANGED <<softSeen, filesOverlap>>
    BY <2>7, Zenon DEF qosVars, qosFile
  <2>8. ASSUME NEW p \in PolicyId, RemovePolicy(p) PROVE UNCHANGED <<softSeen, filesOverlap>>
    BY <2>8, Zenon DEF RemovePolicy, qosFile
  <2>9. ASSUME NEW b \in Bucket, TimePasses(b) PROVE UNCHANGED <<softSeen, filesOverlap>>
    BY <2>9, Zenon DEF TimePasses, qosFile
  <2> QED BY <2>1, <2>2, <2>3, <2>4, <2>5, <2>6, <2>7, <2>8, <2>9, Zenon DEF QosNext
<1>2. QosKept' /\ UsageFileForward
  <2>1. CASE UNCHANGED qosVars
    <3>1. /\ UNCHANGED <<policies, bucketOf, tokens, given, madeFor, usage, queueLen, qosPc, qosArg, softSeen>>
          /\ UNCHANGED <<usageFile, filesOverlap>>
      BY <2>1, Zenon DEF qosVars, qosBuckets, qosFile
    <3>2. QosTypes' /\ BucketInv' /\ FoundInv' /\ UsageFileInv'
      BY <3>1 DEF QosInv, QosTypes, BucketInv, FoundInv, UsageFileInv
    <3>3. SoftInv' /\ HardPaid'
      BY <3>1, Zenon DEF QosInv, SoftInv, HardPaid
    <3>4. UsageIsConsumption'
      BY <3>1 DEF QosInv, UsageIsConsumption, TakenFrom, GivenAway
    <3>5. UsageFileForward
      BY <3>1 DEF QosInv, QosTypes, UsageFileForward
    <3> QED BY <3>2, <3>3, <3>4, <3>5 DEF QosKept
  <2>2. ASSUME NEW c \in QosCall, NEW p \in PolicyId, NEW o \in Owner, NEW mode \in {"soft", "hard"}, NEW b \in Bucket,
               SetPolicy(c, p, o, mode, b)
        PROVE  QosKept' /\ UsageFileForward
    BY <2>2, SetKeeps, Zenon
  <2>3. ASSUME NEW c \in QosCall, NEW p \in PolicyId, NEW l \in Level, NEW req \in 1..Bandwidth,
               EnqueueTaskWithQoS(c, p, l, req)
        PROVE  QosKept' /\ UsageFileForward
    BY <2>3, EnqueueKeeps, Zenon
  <2>4. ASSUME NEW c \in QosCall,
               CheckAdmission(c) \/ Consume(c) \/ CountUsage(c) \/ QosEnqueue(c)
               \/ CopyUsage(c) \/ RenameUsage(c) \/ QosReturn(c)
        PROVE  QosKept' /\ UsageFileForward
    BY <2>4, CheckKeeps, ConsumeKeeps, CountKeeps, AnswerKeeps, CopyKeeps, RenameUsageKeeps, ReturnKeeps, Zenon
  <2>5. ASSUME NEW p \in PolicyId, RemovePolicy(p) PROVE QosKept' /\ UsageFileForward
    BY <2>5, RemoveKeeps, Zenon
  <2>6. ASSUME NEW b \in Bucket, TimePasses(b) PROVE QosKept' /\ UsageFileForward
    BY <2>6, TimeKeeps, Zenon
  <2> QED BY <2>1, <2>2, <2>3, <2>4, <2>5, <2>6, Zenon DEF QosNext
<1> QED BY <1>1, <1>2, Zenon DEF QosInv, QosKept

\* The invariant says what RulesHold asks of the quality of service.
LEMMA QosHolds == QosInv => QosTypeOK /\ UsageIsConsumption /\ HardPaid
<1>1. QosTypes => QosTypeOK
  BY DEF QosTypes, QosTypeOK, PolicyRec, QosMode, QosPlace
<1> QED BY <1>1, Zenon DEF QosInv

(***************************************************************************)
(* Retrieval                                                               *)
(***************************************************************************)
RdPlace == {"idle", "fetch", "reload", "retry", "assemble", "answer"}

RetrievalTypes ==
  /\ layout \in {"plain", "replicated", "parity", "streamed"}
  /\ uploads \in 0..MaxUpload /\ memManifest \in 0..uploads /\ diskManifest \in 0..uploads
  /\ uploads > 0 => diskManifest > 0
  /\ shardAt \in [1..MaxUpload -> [1..3 -> {"none", "good", "bad", "gone"}]]
  /\ rdPc \in [Downloader -> RdPlace]
  /\ rdOf \in [Downloader -> 0..uploads] /\ rdLoaded \in [Downloader -> 0..uploads]
  /\ rdLeft \in [Downloader -> SUBSET (1..3)] /\ rdFound \in [Downloader -> SUBSET (1..3)]
  /\ rdMissed \in [Downloader -> BOOLEAN] /\ harmed \in [Downloader -> BOOLEAN]
  /\ DOMAIN rdAgain = Downloader /\ DOMAIN rdGot = Downloader
  /\ scanPc \in {"idle", "reload"} /\ scanLoaded \in 0..uploads

\* A download that goes on has a manifest; one that does not has found nothing.
DownloadHasManifest(c) ==
  /\ rdPc[c] # "idle" => rdOf[c] \in 1..uploads
  /\ rdPc[c] = "reload" => rdLoaded[c] \in 1..uploads
  /\ rdPc[c] = "idle" => rdFound[c] = {} /\ ~rdMissed[c]

\* With one listed shard for a part, what has been found is of one upload, and
\* what is answered is its file.
FoundOfOne(c) ==
  layout \in {"plain", "streamed"} =>
    /\ rdLeft[c] \subseteq 1..2 /\ rdFound[c] \subseteq 1..2
    /\ \E v \in 0..uploads : rdAgain[c] \subseteq {<<v, 1>>, <<v, 2>>}
    /\ rdGot[c] # <<>> => \E v \in 1..uploads : rdGot[c] = Contents(v)

\* A download that nothing harms has found or will find each part, of one upload.
UnharmedGoesOn(c) ==
  layout = "plain" /\ ~harmed[c] =>
    /\ rdPc[c] \notin {"reload", "retry"}
    /\ rdPc[c] = "fetch" =>
         ~rdMissed[c] /\ rdFound[c] \cup rdLeft[c] = {1, 2} /\ \A i \in {1, 2} : Readable(rdOf[c], i)
    /\ rdPc[c] = "assemble" => rdAgain[c] = {<<rdOf[c], 1>>, <<rdOf[c], 2>>}
    /\ rdPc[c] = "answer" => rdGot[c] = Contents(rdOf[c])

DownloadInv(c) == DownloadHasManifest(c) /\ FoundOfOne(c) /\ UnharmedGoesOn(c)
RetrievalInv == RetrievalTypes /\ \A c \in Downloader : DownloadInv(c)

\* What the layouts with one listed shard for a part list, and the leaves they need.
LEMMA OneShardEach ==
  ASSUME NEW v
  PROVE  /\ layout \in {"plain", "streamed"} =>
              ListedShards(v) = << <<v, 1>>, <<v, 2>> >> /\ ShardNo(v) = {1, 2}
         /\ layout = "plain" => MerkleRoot(v) = << <<v, 1>>, <<v, 2>> >>
         /\ layout = "streamed" => MerkleRoot(v) = << <<v, 1>>, <<v, 1>>, <<v, 2>>, <<v, 2>> >>
         /\ layout # "replicated" => Contents(v) = << <<v, 1>>, <<v, 2>> >>
<1>1. layout \in {"plain", "streamed"} => ListedShards(v) = << <<v, 1>>, <<v, 2>> >>
  BY DEF ListedShards
<1>2. layout \in {"plain", "streamed"} => ShardNo(v) = {1, 2}
  <2>1. Len(<< <<v, 1>>, <<v, 2>> >>) = 2 /\ 1..2 = {1, 2}
    OBVIOUS
  <2> QED BY <1>1, <2>1 DEF ShardNo
<1>3. layout = "plain" => MerkleRoot(v) = << <<v, 1>>, <<v, 2>> >>
  <2>1. Len(<< <<v, 1>>, <<v, 2>> >>) # 3
    OBVIOUS
  <2> QED BY <1>1, <2>1 DEF MerkleRoot, computeMerkleRoot
<1>4. layout = "streamed" => MerkleRoot(v) = << <<v, 1>>, <<v, 1>>, <<v, 2>>, <<v, 2>> >>
  <2>1. Len(<< <<v, 1>>, <<v, 1>>, <<v, 2>>, <<v, 2>> >>) # 3
    OBVIOUS
  <2> QED BY <2>1 DEF MerkleRoot, computeMerkleRoot
<1> QED BY <1>1, <1>2, <1>3, <1>4 DEF Contents

\* What is listed, whatever the layout, has one to three shards.
LEMMA ShardsListed ==
  ASSUME RetrievalTypes, NEW v
  PROVE  ShardNo(v) \subseteq 1..3
<1>1. /\ Len(<< <<v, 1>>, <<v, 2>> >>) = 2 /\ Len(<< <<v, Whole>>, <<v, Whole>> >>) = 2
      /\ Len(<< <<v, 1>>, <<v, 2>>, <<v, 3>> >>) = 3
  OBVIOUS
<1>2. Len(ListedShards(v)) \in {2, 3}
  BY <1>1 DEF ListedShards, RetrievalTypes
<1> QED BY <1>2 DEF ShardNo

\* The plugin and an upload leave readable shards readable, and make some so.
LEMMA RepairedReads ==
  ASSUME RetrievalTypes, NEW v \in 1..MaxUpload
  PROVE  /\ Repaired(v) \in [1..MaxUpload -> [1..3 -> {"none", "good", "bad", "gone"}]]
         /\ \A w \in 1..MaxUpload, i \in 1..3 : Readable(w, i) => Repaired(v)[w][i] = "good"
<1>1. PICK repaired : repaired = [i \in 1..3 |-> IF i \in ShardNo(v) THEN "good" ELSE shardAt[v][i]]
  OBVIOUS
<1>2. Repaired(v) = [shardAt EXCEPT ![v] = repaired]
  BY <1>1 DEF Repaired
<1>3. repaired \in [1..3 -> {"none", "good", "bad", "gone"}]
  <2>1. \A i \in 1..3 : shardAt[v][i] \in {"none", "good", "bad", "gone"}
    <3>1. shardAt \in [1..MaxUpload -> [1..3 -> {"none", "good", "bad", "gone"}]]
      BY DEF RetrievalTypes
    <3>2. shardAt[v] \in [1..3 -> {"none", "good", "bad", "gone"}]
      BY <3>1, Zenon
    <3> QED BY <3>2, Zenon
  <2>2. \A i \in 1..3 : repaired[i] \in {"none", "good", "bad", "gone"}
    BY <1>1, <2>1
  <2>3. repaired = [i \in 1..3 |-> repaired[i]]
    BY <1>1
  <2> QED BY <2>2, <2>3
<1>4. \A i \in 1..3 : shardAt[v][i] = "good" => repaired[i] = "good"
  BY <1>1
<1> QED BY <1>2, <1>3, <1>4 DEF RetrievalTypes, Readable

\* Two elements are two.
LEMMA TwoElements ==
  ASSUME NEW x, NEW y, x # y
  PROVE  IsFiniteSet({x, y}) /\ Cardinality({x, y}) = 2
<1>1. IsFiniteSet({x}) /\ Cardinality({x}) = 1
  BY FS_Singleton
<1>2. {x, y} = {x} \cup {y} /\ y \notin {x}
  OBVIOUS
<1>3. IsFiniteSet({x} \cup {y}) /\ Cardinality({x} \cup {y}) = Cardinality({x}) + 1
  BY <1>1, <1>2, FS_AddElement
<1> QED BY <1>1, <1>2, <1>3

\* The shards found of one upload, of which there are at most two.
LEMMA FoundAreFew ==
  ASSUME NEW v \in Nat, NEW found, found \subseteq {<<v, 1>>, <<v, 2>>}
  PROVE  IsFiniteSet(found) /\ Cardinality(found) \in 0..2
<1>1. IsFiniteSet({<<v, 1>>, <<v, 2>>}) /\ Cardinality({<<v, 1>>, <<v, 2>>}) = 2
  <2>1. <<v, 1>> # <<v, 2>>
    OBVIOUS
  <2> QED BY <2>1, TwoElements, Zenon
<1>2. IsFiniteSet(found) /\ Cardinality(found) <= 2
  BY <1>1, FS_Subset
<1>3. Cardinality(found) \in Nat
  BY <1>2, FS_CardinalityType
<1> QED BY <1>2, <1>3

\* The two shards of an upload in their order.
LEMMA BothInOrder ==
  ASSUME NEW v \in Nat
  PROVE  ByIndex({<<v, 1>>, <<v, 2>>}) = << <<v, 1>>, <<v, 2>> >>
<1> DEFINE both == {<<v, 1>>, <<v, 2>>}
           ahead(s) == Cardinality({t \in both : t[2] < s[2]})
<1>1. Cardinality(both) = 2
  <2>1. <<v, 1>> # <<v, 2>>
    OBVIOUS
  <2> QED BY <2>1, TwoElements, Zenon
<1>2. ahead(<<v, 1>>) = 0
  <2>1. {t \in both : t[2] < <<v, 1>>[2]} = {}
    OBVIOUS
  <2> QED BY <2>1, FS_EmptySet
<1>3. ahead(<<v, 2>>) = 1
  <2>1. {t \in both : t[2] < <<v, 2>>[2]} = {<<v, 1>>}
    OBVIOUS
  <2> QED BY <2>1, FS_Singleton
<1>4. ByIndex(both) = [k \in 1..Cardinality(both) |-> CHOOSE s \in both : ahead(s) = k - 1]
  BY DEF ByIndex
<1> HIDE DEF ahead
<1>5. (CHOOSE s \in both : ahead(s) = 1 - 1) = <<v, 1>>
  BY <1>2, <1>3
<1>6. (CHOOSE s \in both : ahead(s) = 2 - 1) = <<v, 2>>
  BY <1>2, <1>3
<1>7. PICK f : f = ByIndex(both)
  OBVIOUS
<1>8. /\ f = [k \in 1..2 |-> CHOOSE s \in both : ahead(s) = k - 1]
  BY <1>1, <1>4, <1>7
<1>9. f[1] = <<v, 1>> /\ f[2] = <<v, 2>> /\ DOMAIN f = 1..2
  BY <1>5, <1>6, <1>8
<1>10. f = [k \in 1..2 |-> f[k]]
  BY <1>8
<1>11. f = << <<v, 1>>, <<v, 2>> >>
  BY <1>9, <1>10
<1> QED BY <1>7, <1>11

\* The initial state has the invariant.
LEMMA RetrievalInitInv == RetrievalInit => RetrievalInv
<1> SUFFICES ASSUME RetrievalInit PROVE RetrievalInv
  OBVIOUS
<1>1. RetrievalTypes
  BY RetrievalAssumption DEF RetrievalInit, RetrievalTypes, RdPlace
<1>2. ASSUME NEW c \in Downloader PROVE DownloadInv(c)
  <2>1. rdPc[c] = "idle" /\ rdFound[c] = {} /\ rdLeft[c] = {} /\ rdAgain[c] = {} /\ rdGot[c] = <<>>
        /\ rdMissed[c] = FALSE /\ uploads = 0
    BY DEF RetrievalInit
  <2>2. DownloadHasManifest(c) /\ UnharmedGoesOn(c)
    BY <2>1 DEF DownloadHasManifest, UnharmedGoesOn
  <2>3. FoundOfOne(c)
    BY <2>1 DEF FoundOfOne
  <2> QED BY <2>2, <2>3 DEF DownloadInv
<1> QED BY <1>1, <1>2 DEF RetrievalInv

\* Uploads, imports, repairs and scans take no upload back and leave readable shards
\* readable; a loss harms every download.
LEMMA StoreKeeps ==
  ASSUME RetrievalInv, UNCHANGED <<layout, rdVars>>, RetrievalTypes', uploads' >= uploads,
         \/ harmed' = [c \in Downloader |-> TRUE]
         \/ harmed' = harmed /\ \A v \in 1..MaxUpload, i \in 1..3 : Readable(v, i) => Readable(v, i)'
  PROVE  RetrievalInv'
<1> SUFFICES ASSUME NEW c \in Downloader PROVE DownloadInv(c)'
  BY DEF RetrievalInv
<1>0. /\ layout' = layout /\ rdPc' = rdPc /\ rdOf' = rdOf /\ rdLeft' = rdLeft /\ rdFound' = rdFound
      /\ rdMissed' = rdMissed /\ rdAgain' = rdAgain /\ rdLoaded' = rdLoaded /\ rdGot' = rdGot
  BY DEF rdVars
<1>1. uploads \in 0..MaxUpload /\ uploads' \in 0..MaxUpload /\ DownloadInv(c)
  BY RetrievalAssumption DEF RetrievalInv, RetrievalTypes
<1>2. 1..uploads \subseteq 1..uploads' /\ 0..uploads \subseteq 0..uploads' /\ 1..uploads \subseteq 1..MaxUpload
  BY <1>1, RetrievalAssumption
<1>3. DownloadHasManifest(c)'
  BY <1>0, <1>1, <1>2 DEF DownloadInv, DownloadHasManifest
<1>4. FoundOfOne(c)'
  BY <1>0, <1>1, <1>2 DEF DownloadInv, FoundOfOne, Contents
<1>5. UnharmedGoesOn(c)'
  <2>1. CASE harmed' = [d \in Downloader |-> TRUE]
    BY <2>1 DEF UnharmedGoesOn
  <2>2. CASE harmed' = harmed /\ \A v \in 1..MaxUpload, i \in 1..3 : Readable(v, i) => Readable(v, i)'
    <3>1. rdPc[c] = "fetch" => rdOf[c] \in 1..MaxUpload
      BY <1>1, <1>2 DEF DownloadInv, DownloadHasManifest
    <3>2. rdPc[c] = "fetch" /\ (\A i \in {1, 2} : Readable(rdOf[c], i)) => \A i \in {1, 2} : Readable(rdOf[c], i)'
      BY <1>0, <2>2, <3>1 DEF Readable
    <3> QED BY <1>0, <1>1, <2>2, <3>2 DEF DownloadInv, UnharmedGoesOn, Contents
  <2> QED BY <2>1, <2>2
<1> QED BY <1>3, <1>4, <1>5 DEF DownloadInv

\* UploadSaved, UploadEntered, ImportManifest, LoseShard, scanAndRepair and
\* TriggerRepair keep the invariant.
LEMMA StoreStepsKeep ==
  ASSUME RetrievalInv,
         \/ UploadSaved \/ UploadEntered \/ ScanAndRepair \/ ReloadForScan \/ TriggerRepair
         \/ \E v \in 1..MaxUpload : ImportManifest(v) \/ \E i \in 1..3 : LoseShard(v, i)
  PROVE  RetrievalInv'
<1>0. RetrievalTypes
  BY DEF RetrievalInv
<1>1. CASE UploadSaved
  <2>1. uploads \in Nat /\ uploads + 1 \in 1..MaxUpload
    BY <1>0, <1>1, RetrievalAssumption DEF UploadSaved, RetrievalTypes
  <2>2. /\ shardAt' = Repaired(uploads + 1) /\ uploads' = uploads + 1 /\ diskManifest' = uploads + 1
        /\ UNCHANGED <<layout, memManifest, rdVars, scanPc, scanLoaded, losses, harmed>>
    BY <1>1 DEF UploadSaved, scanVars
  <2>3. RetrievalTypes'
    BY <1>0, <2>1, <2>2, RepairedReads DEF RetrievalTypes, rdVars
  <2>4. \A v \in 1..MaxUpload, i \in 1..3 : Readable(v, i) => Readable(v, i)'
    BY <1>0, <2>1, <2>2, RepairedReads DEF Readable
  <2> QED BY <2>1, <2>2, <2>3, <2>4, StoreKeeps
<1>2. CASE UploadEntered \/ ReloadForScan \/ \E v \in 1..MaxUpload : ImportManifest(v)
  <2>1. /\ UNCHANGED <<layout, uploads, shardAt, rdVars, harmed>>
        /\ memManifest' \in 0..uploads /\ diskManifest' \in 0..uploads /\ (uploads > 0 => diskManifest' > 0)
        /\ scanPc' \in {"idle", "reload"} /\ scanLoaded' \in 0..uploads
    BY <1>0, <1>2, RetrievalAssumption
       DEF UploadEntered, ReloadForScan, ImportManifest, RetrievalTypes, scanVars
  <2>2. RetrievalTypes'
    BY <1>0, <2>1 DEF RetrievalTypes, rdVars
  <2>3. \A v \in 1..MaxUpload, i \in 1..3 : Readable(v, i) => Readable(v, i)'
    BY <2>1 DEF Readable
  <2>4. uploads' >= uploads
    BY <1>0, <2>1 DEF RetrievalTypes
  <2> QED BY <2>1, <2>2, <2>3, <2>4, StoreKeeps
<1>3. CASE ScanAndRepair \/ TriggerRepair
  <2>1. /\ UNCHANGED <<layout, uploads, memManifest, diskManifest, rdVars, harmed>>
        /\ memManifest \in 1..MaxUpload /\ shardAt' = Repaired(memManifest)
        /\ scanPc' \in {"idle", "reload"} /\ scanLoaded' \in 0..uploads
    BY <1>0, <1>3, RetrievalAssumption DEF ScanAndRepair, TriggerRepair, RetrievalTypes, scanVars, manifestVars
  <2>2. RetrievalTypes'
    BY <1>0, <2>1, RepairedReads DEF RetrievalTypes, rdVars
  <2>3. \A v \in 1..MaxUpload, i \in 1..3 : Readable(v, i) => Readable(v, i)'
    BY <1>0, <2>1, RepairedReads DEF Readable
  <2>4. uploads' >= uploads
    BY <1>0, <2>1 DEF RetrievalTypes
  <2> QED BY <2>1, <2>2, <2>3, <2>4, StoreKeeps
<1>4. ASSUME NEW v \in 1..MaxUpload, NEW i \in 1..3, LoseShard(v, i) PROVE RetrievalInv'
  <2>1. PICK state \in {"bad", "gone"} : shardAt' = [shardAt EXCEPT ![v][i] = state]
    BY <1>4 DEF LoseShard
  <2>2. /\ UNCHANGED <<layout, uploads, memManifest, diskManifest, rdVars, scanPc, scanLoaded>>
        /\ harmed' = [c \in Downloader |-> TRUE]
    BY <1>4 DEF LoseShard, manifestVars, scanVars
  <2>3. RetrievalTypes'
    BY <1>0, <2>1, <2>2 DEF RetrievalTypes, rdVars
  <2>4. uploads' >= uploads
    BY <1>0, <2>2 DEF RetrievalTypes
  <2> QED BY <2>2, <2>3, <2>4, StoreKeeps
<1> QED BY <1>1, <1>2, <1>3, <1>4

\* What a step of one download leaves to the others.
OnlyDownload(c) ==
  /\ UNCHANGED <<layout, uploads>>
  /\ \A v \in 1..MaxUpload, i \in 1..3 : Readable(v, i) => Readable(v, i)'
  /\ \A d \in Downloader \ {c} :
       /\ rdPc'[d] = rdPc[d] /\ rdOf'[d] = rdOf[d] /\ rdLeft'[d] = rdLeft[d] /\ rdFound'[d] = rdFound[d]
       /\ rdMissed'[d] = rdMissed[d] /\ rdAgain'[d] = rdAgain[d] /\ rdLoaded'[d] = rdLoaded[d]
       /\ rdGot'[d] = rdGot[d] /\ harmed'[d] = harmed[d]

\* The other downloads keep what they have.
LEMMA OneDownload ==
  ASSUME RetrievalInv, NEW c \in Downloader, OnlyDownload(c), RetrievalTypes', DownloadInv(c)'
  PROVE  RetrievalInv'
<1> SUFFICES ASSUME NEW d \in Downloader \ {c} PROVE DownloadInv(d)'
  BY DEF RetrievalInv
<1>0. /\ layout' = layout /\ uploads' = uploads
      /\ rdPc'[d] = rdPc[d] /\ rdOf'[d] = rdOf[d] /\ rdLeft'[d] = rdLeft[d] /\ rdFound'[d] = rdFound[d]
      /\ rdMissed'[d] = rdMissed[d] /\ rdAgain'[d] = rdAgain[d] /\ rdLoaded'[d] = rdLoaded[d]
      /\ rdGot'[d] = rdGot[d] /\ harmed'[d] = harmed[d]
  BY DEF OnlyDownload
<1>1. DownloadInv(d) /\ uploads \in 0..MaxUpload
  BY DEF RetrievalInv, RetrievalTypes
<1>2. DownloadHasManifest(d)' /\ FoundOfOne(d)'
  BY <1>0, <1>1 DEF DownloadInv, DownloadHasManifest, FoundOfOne, Contents
<1>3. rdPc[d] = "fetch" => rdOf[d] \in 1..MaxUpload
  BY <1>1, RetrievalAssumption DEF DownloadInv, DownloadHasManifest
<1>4. rdPc[d] = "fetch" /\ (\A i \in {1, 2} : Readable(rdOf[d], i)) => \A i \in {1, 2} : Readable(rdOf[d], i)'
  BY <1>0, <1>3 DEF Readable, OnlyDownload
<1>5. UnharmedGoesOn(d)'
  BY <1>0, <1>1, <1>4 DEF DownloadInv, UnharmedGoesOn, Contents
<1> QED BY <1>2, <1>5 DEF DownloadInv

\* Download takes the manifest in memory and what it lists.
LEMMA DownloadKeeps ==
  ASSUME RetrievalInv, NEW c \in Downloader, Download(c)
  PROVE  RetrievalInv'
<1>0. RetrievalTypes /\ DownloadInv(c)
  BY DEF RetrievalInv
<1>1. /\ rdPc[c] = "idle" /\ memManifest \in 1..uploads /\ memManifest \in 1..MaxUpload /\ uploads \in Nat
      /\ rdOf' = [rdOf EXCEPT ![c] = memManifest] /\ rdLeft' = [rdLeft EXCEPT ![c] = ShardNo(memManifest)]
      /\ rdPc' = [rdPc EXCEPT ![c] = "fetch"]
      /\ UNCHANGED <<layout, uploads, memManifest, diskManifest, shardAt, rdFound, rdMissed, rdAgain,
                     rdLoaded, rdGot, scanPc, scanLoaded>>
  BY <1>0, RetrievalAssumption DEF Download, RdGoto, manifestVars, scanVars, RetrievalTypes
<1>2. PICK h \in BOOLEAN : h = \E i \in ShardNo(memManifest) : ~Readable(memManifest, i)
  OBVIOUS
<1>3. harmed' = [harmed EXCEPT ![c] = h]
  BY <1>2 DEF Download
<1>4. ShardNo(memManifest) \subseteq 1..3
  BY <1>0, ShardsListed
<1>5. RetrievalTypes'
  BY <1>0, <1>1, <1>2, <1>3, <1>4 DEF RetrievalTypes, RdPlace
<1>6. OnlyDownload(c)
  BY <1>0, <1>1, <1>3 DEF OnlyDownload, RetrievalTypes, Readable
<1>7. /\ rdPc'[c] = "fetch" /\ rdOf'[c] = memManifest /\ rdLeft'[c] = ShardNo(memManifest)
      /\ rdFound'[c] = {} /\ rdMissed'[c] = FALSE /\ harmed'[c] = h /\ rdAgain'[c] = rdAgain[c] /\ rdGot'[c] = rdGot[c]
  BY <1>0, <1>1, <1>2, <1>3 DEF RetrievalTypes, DownloadInv, DownloadHasManifest
<1>8. DownloadHasManifest(c)'
  BY <1>1, <1>7 DEF DownloadHasManifest
<1>9. FoundOfOne(c)'
  <2>1. layout \in {"plain", "streamed"} => ShardNo(memManifest) = {1, 2}
    BY OneShardEach
  <2>2. layout' = layout /\ uploads' = uploads
    BY <1>1
  <2>3. FoundOfOne(c)
    BY <1>0 DEF DownloadInv
  <2>4. Contents(0)' = Contents(0) /\ \A v : Contents(v)' = Contents(v)
    BY <2>2 DEF Contents
  <2> SUFFICES ASSUME layout \in {"plain", "streamed"}
               PROVE  /\ rdLeft'[c] \subseteq 1..2 /\ rdFound'[c] \subseteq 1..2
                      /\ \E v \in 0..uploads : rdAgain'[c] \subseteq {<<v, 1>>, <<v, 2>>}
                      /\ rdGot'[c] # <<>> => \E v \in 1..uploads : rdGot'[c] = Contents(v)
    BY <2>2, <2>4 DEF FoundOfOne
  <2>5. rdLeft'[c] \subseteq 1..2 /\ rdFound'[c] \subseteq 1..2
    BY <1>7, <2>1
  <2>6. /\ \E v \in 0..uploads : rdAgain'[c] \subseteq {<<v, 1>>, <<v, 2>>}
        /\ rdGot'[c] # <<>> => \E v \in 1..uploads : rdGot'[c] = Contents(v)
    BY <1>7, <2>3, Zenon DEF FoundOfOne
  <2> QED BY <2>5, <2>6
<1>10. UnharmedGoesOn(c)'
  <2> SUFFICES ASSUME layout = "plain", ~h
               PROVE  {} \cup ShardNo(memManifest) = {1, 2} /\ \A i \in {1, 2} : Readable(memManifest, i)'
    BY <1>1, <1>7 DEF UnharmedGoesOn, Readable
  <2>1. ShardNo(memManifest) = {1, 2}
    BY OneShardEach
  <2> QED BY <1>1, <1>2, <2>1 DEF Readable
<1> QED BY <1>5, <1>6, <1>8, <1>9, <1>10, OneDownload DEF DownloadInv

\* A shard is fetched, or the context ends before.
LEMMA FetchKeeps ==
  ASSUME RetrievalInv, NEW c \in Downloader, NEW i \in 1..3, Fetch(c, i) \/ FetchCanceled(c, i)
  PROVE  RetrievalInv'
<1>0. RetrievalTypes /\ DownloadInv(c)
  BY DEF RetrievalInv
<1>1. /\ rdPc[c] \in {"fetch", "retry"} /\ i \in rdLeft[c]
      /\ rdLeft' = [rdLeft EXCEPT ![c] = rdLeft[c] \ {i}]
      /\ UNCHANGED <<layout, uploads, memManifest, diskManifest, shardAt, rdPc, rdOf, rdAgain,
                     rdLoaded, rdGot, scanPc, scanLoaded>>
  BY DEF Fetch, FetchCanceled, manifestVars, scanVars
<1>2. PICK found \in {rdFound[c], rdFound[c] \cup {i}}, missed \in BOOLEAN, h \in BOOLEAN :
        /\ rdFound' = [rdFound EXCEPT ![c] = found] /\ rdMissed' = [rdMissed EXCEPT ![c] = missed]
        /\ harmed' = [harmed EXCEPT ![c] = h]
        /\ ~h => ~harmed[c] /\ (Readable(rdOf[c], i) /\ ~rdMissed[c] => found = rdFound[c] \cup {i} /\ ~missed)
  <2>1. CASE Fetch(c, i)
    <3>1. rdFound' = [rdFound EXCEPT ![c] = IF Readable(rdOf[c], i) THEN rdFound[c] \cup {i} ELSE rdFound[c]]
      BY <2>1 DEF Fetch
    <3>2. rdMissed' = [rdMissed EXCEPT ![c] = rdMissed[c] \/ ~Readable(rdOf[c], i)]
      BY <2>1 DEF Fetch
    <3>3. harmed' = harmed /\ harmed[c] \in BOOLEAN /\ harmed = [harmed EXCEPT ![c] = harmed[c]]
      BY <1>0, <2>1 DEF Fetch, RetrievalTypes
    <3>4. CASE Readable(rdOf[c], i)
      <4>1. rdFound' = [rdFound EXCEPT ![c] = rdFound[c] \cup {i}]
        BY <3>1, <3>4
      <4>2. PICK m \in BOOLEAN : m = (rdMissed[c] \/ ~Readable(rdOf[c], i))
        OBVIOUS
      <4>3. rdMissed' = [rdMissed EXCEPT ![c] = m]
        BY <3>2, <4>2
      <4>4. ~rdMissed[c] => ~m
        BY <3>4, <4>2
      <4> QED BY <3>3, <4>1, <4>3, <4>4
    <3>5. CASE ~Readable(rdOf[c], i)
      <4>1. rdFound' = [rdFound EXCEPT ![c] = rdFound[c]]
        BY <3>1, <3>5
      <4>2. rdMissed' = [rdMissed EXCEPT ![c] = TRUE]
        BY <3>2, <3>5
      <4> QED BY <3>3, <3>5, <4>1, <4>2
    <3> QED BY <3>4, <3>5
  <2>2. CASE FetchCanceled(c, i)
    <3>1. rdFound' = rdFound /\ rdFound = [rdFound EXCEPT ![c] = rdFound[c]]
      BY <1>0, <2>2 DEF FetchCanceled, RetrievalTypes
    <3>2. PICK m \in BOOLEAN : m = (rdMissed[c] \/ rdPc[c] = "retry")
      OBVIOUS
    <3>3. rdMissed' = [rdMissed EXCEPT ![c] = m] /\ harmed' = [harmed EXCEPT ![c] = TRUE]
      BY <2>2, <3>2 DEF FetchCanceled
    <3> QED BY <3>1, <3>3
  <2> QED BY <2>1, <2>2
<1>3. found \subseteq rdFound[c] \cup {i} /\ found \in SUBSET (1..3) /\ rdLeft[c] \ {i} \in SUBSET (1..3)
  BY <1>0 DEF RetrievalTypes
<1>4. RetrievalTypes'
  BY <1>0, <1>1, <1>2, <1>3 DEF RetrievalTypes
<1>5. OnlyDownload(c)
  BY <1>0, <1>1, <1>2 DEF OnlyDownload, RetrievalTypes, Readable
<1>6. /\ rdPc'[c] = rdPc[c] /\ rdOf'[c] = rdOf[c] /\ rdLeft'[c] = rdLeft[c] \ {i} /\ rdFound'[c] = found
      /\ rdMissed'[c] = missed /\ harmed'[c] = h /\ rdAgain'[c] = rdAgain[c] /\ rdGot'[c] = rdGot[c]
      /\ rdLoaded'[c] = rdLoaded[c] /\ layout' = layout /\ uploads' = uploads
  BY <1>0, <1>1, <1>2 DEF RetrievalTypes
<1>7. DownloadHasManifest(c)'
  BY <1>0, <1>1, <1>6 DEF DownloadInv, DownloadHasManifest
<1>8. FoundOfOne(c)'
  BY <1>0, <1>1, <1>3, <1>6 DEF DownloadInv, FoundOfOne, Contents
<1>9. UnharmedGoesOn(c)'
  <2> SUFFICES ASSUME layout = "plain", ~h
               PROVE  /\ rdPc[c] = "fetch" /\ ~missed /\ found \cup (rdLeft[c] \ {i}) = {1, 2}
                      /\ \A j \in {1, 2} : Readable(rdOf[c], j)
    BY <1>1, <1>6 DEF UnharmedGoesOn, Readable
  <2>1. ~harmed[c]
    BY <1>2
  <2>2. /\ rdPc[c] = "fetch" /\ ~rdMissed[c] /\ rdFound[c] \cup rdLeft[c] = {1, 2}
        /\ \A j \in {1, 2} : Readable(rdOf[c], j)
    BY <1>0, <1>1, <2>1 DEF DownloadInv, UnharmedGoesOn
  <2>3. i \in {1, 2} /\ Readable(rdOf[c], i)
    BY <1>1, <2>2
  <2>4. found = rdFound[c] \cup {i} /\ ~missed
    BY <1>2, <2>2, <2>3
  <2> QED BY <1>1, <2>2, <2>4
<1> QED BY <1>4, <1>5, <1>7, <1>8, <1>9, OneDownload DEF DownloadInv

\* What has been found of a part's only shard.
LEMMA FoundHere ==
  ASSUME RetrievalInv, NEW c \in Downloader, layout \in {"plain", "streamed"}
  PROVE  /\ rdOf[c] \in 0..uploads /\ Of(c) \subseteq {<<rdOf[c], 1>>, <<rdOf[c], 2>>}
         /\ rdFound[c] = {1, 2} => Of(c) = {<<rdOf[c], 1>>, <<rdOf[c], 2>>}
<1>1. rdOf[c] \in 0..uploads /\ rdFound[c] \subseteq 1..2
  BY DEF RetrievalInv, RetrievalTypes, DownloadInv, FoundOfOne
<1>2. rdFound[c] \subseteq {1, 2}
  BY <1>1
<1> QED BY <1>1, <1>2 DEF Of

\* The first fetch ends, with or without a repair behind it; so does the second.
LEMMA FetchedKeeps ==
  ASSUME RetrievalInv, NEW c \in Downloader, FetchDone(c) \/ RepairForDownload(c) \/ RetryDone(c)
  PROVE  RetrievalInv'
<1>0. RetrievalTypes /\ DownloadInv(c)
  BY DEF RetrievalInv
<1>1. PICK place \in {"assemble", "reload"}, again \in {Of(c), rdAgain[c]}, loaded \in {rdLoaded[c], diskManifest} :
        /\ rdPc' = [rdPc EXCEPT ![c] = place] /\ rdAgain' = [rdAgain EXCEPT ![c] = again]
        /\ rdLoaded' = [rdLoaded EXCEPT ![c] = loaded]
        /\ rdPc[c] \in {"fetch", "retry"} /\ rdLeft[c] = {}
        /\ rdPc[c] = "fetch" => again = Of(c)
        /\ place = "reload" => rdPc[c] = "fetch" /\ rdMissed[c] /\ loaded = diskManifest
        /\ shardAt' = shardAt \/ shardAt' = Repaired(rdOf[c])
  <2>1. rdLoaded = [rdLoaded EXCEPT ![c] = rdLoaded[c]]
    BY <1>0 DEF RetrievalTypes
  <2>2. CASE FetchDone(c)
    BY <2>1, <2>2 DEF FetchDone, RdGoto
  <2>3. CASE RepairForDownload(c)
    BY <2>3 DEF RepairForDownload, RdGoto
  <2>4. CASE RetryDone(c)
    <3>1. rdAgain' = [rdAgain EXCEPT ![c] = IF rdMissed[c] THEN rdAgain[c] ELSE Of(c)]
      BY <2>4 DEF RetryDone
    <3>2. PICK a \in {Of(c), rdAgain[c]} : a = IF rdMissed[c] THEN rdAgain[c] ELSE Of(c)
      OBVIOUS
    <3>3. rdAgain' = [rdAgain EXCEPT ![c] = a]
      BY <3>1, <3>2
    <3> QED BY <2>1, <2>4, <3>3 DEF RetryDone, RdGoto
  <2> QED BY <2>2, <2>3, <2>4
<1>2. UNCHANGED <<layout, uploads, memManifest, diskManifest, rdOf, rdLeft, rdFound, rdMissed, rdGot,
                  harmed, scanPc, scanLoaded>>
  BY DEF FetchDone, RepairForDownload, RetryDone, manifestVars, scanVars
<1>3. rdOf[c] \in 1..uploads /\ rdOf[c] \in 1..MaxUpload /\ uploads \in Nat
  BY <1>0, <1>1, RetrievalAssumption DEF DownloadInv, DownloadHasManifest, RetrievalTypes
<1>4. diskManifest \in 1..uploads
  BY <1>0, <1>3 DEF RetrievalTypes
<1>5. /\ shardAt' \in [1..MaxUpload -> [1..3 -> {"none", "good", "bad", "gone"}]]
      /\ \A v \in 1..MaxUpload, i \in 1..3 : Readable(v, i) => Readable(v, i)'
  <2>1. CASE shardAt' = shardAt
    BY <1>0, <2>1 DEF RetrievalTypes, Readable
  <2>2. CASE shardAt' = Repaired(rdOf[c])
    BY <1>0, <1>3, <2>2, RepairedReads DEF Readable
  <2> QED BY <1>1, <2>1, <2>2
<1>6. RetrievalTypes'
  <2>1. loaded \in 0..uploads
    BY <1>0, <1>1 DEF RetrievalTypes
  <2>2. rdPc' \in [Downloader -> RdPlace] /\ rdLoaded' \in [Downloader -> 0..uploads]
    BY <1>0, <1>1, <2>1 DEF RetrievalTypes, RdPlace
  <2>3. DOMAIN rdAgain' = Downloader
    BY <1>0, <1>1 DEF RetrievalTypes
  <2> QED BY <1>0, <1>2, <1>5, <2>2, <2>3 DEF RetrievalTypes
<1>7. OnlyDownload(c)
  <2>1. \A d \in Downloader \ {c} : rdPc'[d] = rdPc[d] /\ rdAgain'[d] = rdAgain[d] /\ rdLoaded'[d] = rdLoaded[d]
    BY <1>0, <1>1 DEF RetrievalTypes
  <2> QED BY <1>2, <1>5, <2>1 DEF OnlyDownload
<1>8. /\ rdPc'[c] = place /\ rdAgain'[c] = again /\ rdLoaded'[c] = loaded /\ layout' = layout /\ uploads' = uploads
      /\ rdOf'[c] = rdOf[c] /\ rdLeft'[c] = rdLeft[c] /\ rdFound'[c] = rdFound[c] /\ rdMissed'[c] = rdMissed[c]
      /\ rdGot'[c] = rdGot[c] /\ harmed'[c] = harmed[c]
  BY <1>0, <1>1, <1>2 DEF RetrievalTypes
<1>9. DownloadHasManifest(c)'
  BY <1>1, <1>3, <1>4, <1>8 DEF DownloadHasManifest
<1>10. FoundOfOne(c)'
  <2> SUFFICES ASSUME layout \in {"plain", "streamed"}
               PROVE  /\ rdLeft[c] \subseteq 1..2 /\ rdFound[c] \subseteq 1..2
                      /\ \E v \in 0..uploads : again \subseteq {<<v, 1>>, <<v, 2>>}
                      /\ rdGot[c] # <<>> => \E v \in 1..uploads : rdGot[c] = Contents(v)
    BY <1>8 DEF FoundOfOne, Contents
  <2>1. rdOf[c] \in 0..uploads /\ Of(c) \subseteq {<<rdOf[c], 1>>, <<rdOf[c], 2>>}
    BY FoundHere
  <2> QED BY <1>0, <1>1, <2>1 DEF DownloadInv, FoundOfOne
<1>11. UnharmedGoesOn(c)'
  <2> SUFFICES ASSUME layout = "plain", ~harmed[c]
               PROVE  place = "assemble" /\ again = {<<rdOf[c], 1>>, <<rdOf[c], 2>>}
    BY <1>8 DEF UnharmedGoesOn
  <2>1. rdPc[c] = "fetch" /\ ~rdMissed[c] /\ rdFound[c] = {1, 2}
    BY <1>0, <1>1 DEF DownloadInv, UnharmedGoesOn
  <2> QED BY <1>1, <2>1, FoundHere
<1> QED BY <1>6, <1>7, <1>9, <1>10, <1>11, OneDownload DEF DownloadInv

\* The manifest is loaded anew, or not: a download that was harmed goes on with it.
LEMMA ReloadKeeps ==
  ASSUME RetrievalInv, NEW c \in Downloader, ReloadForDownload(c)
  PROVE  RetrievalInv'
<1>0. RetrievalTypes /\ DownloadInv(c)
  BY DEF RetrievalInv
<1>1. rdPc[c] = "reload" /\ rdOf[c] \in 1..uploads /\ rdLoaded[c] \in 1..uploads /\ uploads \in Nat
  BY <1>0 DEF ReloadForDownload, DownloadInv, DownloadHasManifest, RetrievalTypes
<1>2. PICK of \in 1..uploads : rdOf' = [rdOf EXCEPT ![c] = of]
  <2>1. rdOf = [rdOf EXCEPT ![c] = rdOf[c]]
    BY <1>0 DEF RetrievalTypes
  <2> QED BY <1>1, <2>1 DEF ReloadForDownload
<1>3. rdOf'[c] = of
  BY <1>0, <1>2 DEF RetrievalTypes
<1>4. /\ rdLeft' = [rdLeft EXCEPT ![c] = ShardNo(of)]
      /\ rdFound' = [rdFound EXCEPT ![c] = {}] /\ rdMissed' = [rdMissed EXCEPT ![c] = FALSE]
      /\ rdPc' = [rdPc EXCEPT ![c] = "retry"] /\ memManifest' \in 0..uploads
      /\ UNCHANGED <<layout, uploads, diskManifest, shardAt, rdAgain, rdLoaded, rdGot, harmed, scanPc, scanLoaded>>
  BY <1>0, <1>1, <1>3 DEF ReloadForDownload, RdGoto, scanVars, RetrievalTypes
<1>5. ShardNo(of) \subseteq 1..3 /\ (layout \in {"plain", "streamed"} => ShardNo(of) = {1, 2})
  BY <1>0, ShardsListed, OneShardEach
<1>6. RetrievalTypes'
  <2>1. of \in 0..uploads
    OBVIOUS
  <2> QED BY <1>0, <1>2, <1>4, <1>5, <2>1 DEF RetrievalTypes, RdPlace
<1>7. OnlyDownload(c)
  BY <1>0, <1>2, <1>4 DEF OnlyDownload, RetrievalTypes, Readable
<1>8. /\ rdPc'[c] = "retry" /\ rdLeft'[c] = ShardNo(of) /\ rdFound'[c] = {} /\ rdAgain'[c] = rdAgain[c]
      /\ rdGot'[c] = rdGot[c] /\ harmed'[c] = harmed[c] /\ layout' = layout /\ uploads' = uploads
  BY <1>0, <1>4 DEF RetrievalTypes
<1>9. DownloadHasManifest(c)'
  BY <1>3, <1>8 DEF DownloadHasManifest
<1>10. FoundOfOne(c)'
  BY <1>0, <1>5, <1>8 DEF DownloadInv, FoundOfOne, Contents
<1>11. UnharmedGoesOn(c)'
  BY <1>0, <1>1, <1>8 DEF DownloadInv, UnharmedGoesOn
<1> QED BY <1>6, <1>7, <1>9, <1>10, <1>11, OneDownload DEF DownloadInv

\* What a download returns.
Assembled(c) ==
  LET shards == ByIndex(rdAgain[c]) IN
  [k \in 1..Len(shards) |-> ListedShards(shards[k][1])[shards[k][2]]]

\* What is accepted is the file of the manifest at hand: with one shard for a part
\* there are too few shards for the doubled one, or the second replica, to matter.
LEMMA AcceptedIsContents ==
  ASSUME RetrievalInv, NEW c \in Downloader, layout \in {"plain", "streamed"},
         Accepts(Assembled(c), rdOf[c])
  PROVE  Assembled(c) = Contents(rdOf[c])
<1>1. PICK v \in Nat : rdAgain[c] \subseteq {<<v, 1>>, <<v, 2>>}
  BY DEF RetrievalInv, DownloadInv, FoundOfOne
<1>2. Cardinality(rdAgain[c]) \in 0..2
  BY <1>1, FoundAreFew
<1>3. PICK n \in 0..2 : n = Cardinality(rdAgain[c])
  BY <1>2
<1>4. PICK found : found = ByIndex(rdAgain[c])
  OBVIOUS
<1>5. Len(found) = n
  <2>1. ByIndex(rdAgain[c]) =
          [k \in 1..n |-> CHOOSE s \in rdAgain[c] : Cardinality({t \in rdAgain[c] : t[2] < s[2]}) = k - 1]
    BY <1>3 DEF ByIndex
  <2>2. DOMAIN found = 1..n /\ found = [k \in 1..n |-> found[k]]
    BY <1>4, <2>1
  <2> QED BY <2>2
<1>6. PICK file : file = Assembled(c)
  OBVIOUS
<1>7. file = [k \in 1..n |-> ListedShards(found[k][1])[found[k][2]]]
  BY <1>5, <1>4, <1>6 DEF Assembled
<1>8. Len(file) = n
  BY <1>7
<1>9. computeMerkleRoot(file) = file
  BY <1>8 DEF computeMerkleRoot
<1>10. file = MerkleRoot(rdOf[c])
  BY <1>6, <1>9 DEF Accepts
<1>11. layout # "streamed"
  <2>1. Len(<< <<rdOf[c], 1>>, <<rdOf[c], 1>>, <<rdOf[c], 2>>, <<rdOf[c], 2>> >>) = 4
    OBVIOUS
  <2>2. layout = "streamed" => Len(MerkleRoot(rdOf[c])) = 4
    BY <2>1, OneShardEach
  <2> QED BY <1>8, <1>10, <2>2
<1> QED BY <1>6, <1>10, <1>11, OneShardEach

\* Both shards of an upload are assembled to its file, and accepted as it.
LEMMA BothAreAccepted ==
  ASSUME RetrievalInv, NEW c \in Downloader, layout = "plain",
         rdAgain[c] = {<<rdOf[c], 1>>, <<rdOf[c], 2>>}
  PROVE  Accepts(Assembled(c), rdOf[c])
<1>1. rdOf[c] \in Nat
  BY DEF RetrievalInv, RetrievalTypes
<1>2. PICK v \in Nat : v = rdOf[c]
  BY <1>1
<1>3. PICK found : found = << <<v, 1>>, <<v, 2>> >>
  OBVIOUS
<1>4. ByIndex(rdAgain[c]) = found
  BY <1>2, <1>3, BothInOrder
<1>5. Len(found) = 2 /\ found[1] = <<v, 1>> /\ found[2] = <<v, 2>>
  BY <1>3
<1>6. ListedShards(v) = found
  BY <1>3, OneShardEach
<1>7. PICK file : file = [k \in 1..2 |-> ListedShards(found[k][1])[found[k][2]]]
  OBVIOUS
<1>8. file[1] = <<v, 1>> /\ file[2] = <<v, 2>>
  <2>1. file[1] = ListedShards(found[1][1])[found[1][2]] /\ file[2] = ListedShards(found[2][1])[found[2][2]]
    BY <1>7
  <2> QED BY <1>5, <1>6, <2>1
<1>9. file = << <<v, 1>>, <<v, 2>> >>
  <2>1. file = [k \in 1..2 |-> file[k]]
    BY <1>7
  <2> QED BY <1>8, <2>1
<1>10. Assembled(c) = file
  BY <1>4, <1>5, <1>7 DEF Assembled
<1>11. computeMerkleRoot(file) = file
  <2>1. Len(file) = 2
    BY <1>9
  <2> QED BY <2>1 DEF computeMerkleRoot
<1>12. MerkleRoot(v) = file
  BY <1>9, OneShardEach
<1> QED BY <1>2, <1>10, <1>11, <1>12 DEF Accepts

\* Assemble answers with the file, or with an error; the caller takes it.
LEMMA AssembleKeeps ==
  ASSUME RetrievalInv, NEW c \in Downloader, Assemble(c) \/ DownloadReturns(c)
  PROVE  RetrievalInv'
<1>0. RetrievalTypes /\ DownloadInv(c)
  BY DEF RetrievalInv
<1>1. CASE Assemble(c)
  <2>1. /\ rdPc[c] = "assemble" /\ rdPc' = [rdPc EXCEPT ![c] = "answer"]
        /\ rdGot' = [rdGot EXCEPT ![c] = IF Accepts(Assembled(c), rdOf[c]) THEN Assembled(c) ELSE <<>>]
        /\ UNCHANGED <<layout, uploads, memManifest, diskManifest, shardAt, rdOf, rdLeft, rdFound, rdMissed,
                       rdAgain, rdLoaded, scanPc, scanLoaded, harmed>>
    BY <1>1 DEF Assemble, Assembled, RdGoto, manifestVars, scanVars
  <2>2. PICK answer : answer = IF Accepts(Assembled(c), rdOf[c]) THEN Assembled(c) ELSE <<>>
    OBVIOUS
  <2>3. rdGot' = [rdGot EXCEPT ![c] = answer]
    BY <2>1, <2>2
  <2>4. RetrievalTypes'
    BY <1>0, <2>1, <2>3 DEF RetrievalTypes, RdPlace
  <2>5. OnlyDownload(c)
    BY <1>0, <2>1, <2>3 DEF OnlyDownload, RetrievalTypes, Readable
  <2>6. /\ rdPc'[c] = "answer" /\ rdGot'[c] = answer /\ rdOf'[c] = rdOf[c] /\ rdAgain'[c] = rdAgain[c]
        /\ rdLeft'[c] = rdLeft[c] /\ rdFound'[c] = rdFound[c] /\ layout' = layout /\ uploads' = uploads
        /\ harmed'[c] = harmed[c]
    BY <1>0, <2>1, <2>3 DEF RetrievalTypes
  <2>7. rdOf[c] \in 1..uploads
    BY <1>0, <2>1 DEF DownloadInv, DownloadHasManifest
  <2>8. DownloadHasManifest(c)'
    BY <2>6, <2>7 DEF DownloadHasManifest
  <2>9. layout \in {"plain", "streamed"} /\ answer # <<>> => answer = Contents(rdOf[c])
    BY <2>2, AcceptedIsContents
  <2>10. FoundOfOne(c)'
    BY <1>0, <2>6, <2>7, <2>9 DEF DownloadInv, FoundOfOne, Contents
  <2>11. UnharmedGoesOn(c)'
    <3> SUFFICES ASSUME layout = "plain", ~harmed[c] PROVE answer = Contents(rdOf[c])
      BY <2>6 DEF UnharmedGoesOn, Contents
    <3>1. rdAgain[c] = {<<rdOf[c], 1>>, <<rdOf[c], 2>>}
      BY <1>0, <2>1 DEF DownloadInv, UnharmedGoesOn
    <3> QED BY <2>2, <3>1, BothAreAccepted, AcceptedIsContents
  <2> QED BY <2>4, <2>5, <2>8, <2>10, <2>11, OneDownload DEF DownloadInv
<1>2. CASE DownloadReturns(c)
  <2>1. /\ rdPc' = [rdPc EXCEPT ![c] = "idle"]
        /\ rdAgain' = [rdAgain EXCEPT ![c] = {}] /\ rdGot' = [rdGot EXCEPT ![c] = <<>>]
        /\ rdOf' = [rdOf EXCEPT ![c] = 0] /\ rdLoaded' = [rdLoaded EXCEPT ![c] = 0]
        /\ rdFound' = [rdFound EXCEPT ![c] = {}] /\ rdMissed' = [rdMissed EXCEPT ![c] = FALSE]
        /\ UNCHANGED <<layout, uploads, memManifest, diskManifest, shardAt, rdLeft, scanPc, scanLoaded, harmed>>
    BY <1>2 DEF DownloadReturns, RdGoto, manifestVars, scanVars
  <2>2. 0 \in 0..uploads
    BY <1>0, RetrievalAssumption DEF RetrievalTypes
  <2>3. RetrievalTypes'
    BY <1>0, <2>1, <2>2 DEF RetrievalTypes, RdPlace
  <2>4. OnlyDownload(c)
    BY <1>0, <2>1 DEF OnlyDownload, RetrievalTypes, Readable
  <2>5. /\ rdPc'[c] = "idle" /\ rdAgain'[c] = {} /\ rdGot'[c] = <<>> /\ rdFound'[c] = {} /\ rdMissed'[c] = FALSE
        /\ rdLeft'[c] = rdLeft[c] /\ layout' = layout /\ uploads' = uploads
    BY <1>0, <2>1 DEF RetrievalTypes
  <2>6. DownloadHasManifest(c)' /\ UnharmedGoesOn(c)'
    BY <2>5 DEF DownloadHasManifest, UnharmedGoesOn
  <2>7. FoundOfOne(c)'
    BY <1>0, <2>2, <2>5 DEF DownloadInv, FoundOfOne
  <2> QED BY <2>3, <2>4, <2>6, <2>7, OneDownload DEF DownloadInv
<1> QED BY <1>1, <1>2

\* Every step keeps the invariant.
LEMMA RetrievalStep ==
  ASSUME RetrievalInv, [RetrievalNext]_retrievalVars
  PROVE  RetrievalInv'
<1>1. CASE UNCHANGED retrievalVars
  <2>1. /\ UNCHANGED <<layout, uploads, memManifest, diskManifest, shardAt, scanPc, scanLoaded, harmed>>
        /\ UNCHANGED rdVars
    BY <1>1 DEF retrievalVars, manifestVars, scanVars
  <2>2. RetrievalTypes'
    BY <2>1 DEF RetrievalInv, RetrievalTypes, rdVars
  <2>3. uploads' >= uploads /\ \A v \in 1..MaxUpload, i \in 1..3 : Readable(v, i) => Readable(v, i)'
    BY <2>1 DEF RetrievalInv, RetrievalTypes, Readable
  <2> QED BY <2>1, <2>2, <2>3, StoreKeeps
<1>2. ASSUME NEW c \in Downloader,
             \/ Download(c) \/ FetchDone(c) \/ RepairForDownload(c) \/ ReloadForDownload(c)
             \/ RetryDone(c) \/ Assemble(c) \/ DownloadReturns(c)
             \/ \E i \in 1..3 : Fetch(c, i) \/ FetchCanceled(c, i)
      PROVE  RetrievalInv'
  BY <1>2, DownloadKeeps, FetchKeeps, FetchedKeeps, ReloadKeeps, AssembleKeeps
<1> QED BY <1>1, <1>2, StoreStepsKeep DEF RetrievalNext

\* It says what DownloadsRight asks of retrieval.
LEMMA RetrievalHolds == RetrievalInv => RetrievalTypeOK /\ DownloadExact /\ DownloadServes
<1> SUFFICES ASSUME RetrievalInv PROVE RetrievalTypeOK /\ DownloadExact /\ DownloadServes
  OBVIOUS
<1>1. uploads \in 0..MaxUpload /\ 0..uploads \subseteq 0..MaxUpload
  BY RetrievalAssumption DEF RetrievalInv, RetrievalTypes
<1>2. RetrievalTypeOK
  BY <1>1 DEF RetrievalInv, RetrievalTypes, RetrievalTypeOK, RdPlace
<1>3. DownloadExact
  BY DEF RetrievalInv, DownloadInv, FoundOfOne, DownloadExact
<1>4. DownloadServes
  BY DEF RetrievalInv, DownloadInv, UnharmedGoesOn, DownloadServes
<1> QED BY <1>2, <1>3, <1>4

-----------------------------------------------------------------------------
(* What the parts of MCRecords promise together.                             *)

\* What a download returns is one upload's file, all of it and nothing else, although
\* manifests change and shards are lost, changed and repaired while it runs; and a
\* file with one shard for a part is served while nothing harms the download.  With
\* the types of the storage, for any number of uploads, downloads and losses.
THEOREM DownloadsRightAlways == RecordsSpec => []DownloadsRight
<1> DEFINE Inv == TypeInv /\ RetrievalInv
<1>1. RecordsInit => Inv
  BY TypeInit, RetrievalInitInv DEF RecordsInit
<1>2. Inv /\ [RecordsNext]_recordsVars => Inv'
  BY RecordsStep, TypeStep, RetrievalStep
<1>3. Inv => DownloadsRight
  BY RetrievalHolds DEF DownloadsRight, TypeInv
<1> QED BY <1>1, <1>2, <1>3, PTL DEF RecordsSpec

\* Secrets are current where they are kept, in the files a rewrap has gone through
\* and in the vault client's cache, for any number of keys, readers and storers,
\* with crashes, lost calls and keys changed on the way.
THEOREM SecretsRightAlways == RecordsSpec => []SecretsRight
<1> DEFINE Inv == SecretInv /\ VcInv
<1>1. RecordsInit => Inv
  BY SecretInitInv, VcInitInv DEF RecordsInit
<1>2. Inv /\ [RecordsNext]_recordsVars => Inv'
  BY RecordsStep, SecretStep, VcStep
<1>3. Inv => SecretsRight
  BY SecretHolds, VcHolds DEF SecretsRight
<1> QED BY <1>1, <1>2, <1>3, PTL DEF RecordsSpec

\* What is decided, let in and charged follows the rules that were set, for any
\* number of transfers, rules, policies, callers, records and audit lines.
THEOREM RulesHoldAlways == RecordsSpec => []RulesHold
<1> DEFINE Inv == ResidencyInv /\ QosInv /\ BillInv /\ AuditInv
<1>1. RecordsInit => Inv
  BY ResidencyInitInv, QosInitInv, BillInitInv, AuditInitInv DEF RecordsInit
<1>2. Inv /\ [RecordsNext]_recordsVars => Inv'
  BY RecordsStep, ResidencyStep, QosStep, BillStep, AuditStep
<1>3. Inv => RulesHold
  BY ResidencyHolds, QosHolds, BillHolds DEF RulesHold, AuditInv
<1> QED BY <1>1, <1>2, <1>3, PTL DEF RecordsSpec

\* No step takes back what is on record: a secret that can be read, the last
\* decision in the history, the invoices, the usage file while its writers do not
\* overlap.
THEOREM RecordsKeptAlways == RecordsSpec => RecordsKept
<1> DEFINE Inv == SecretInv /\ ResidencyInv /\ BillInv /\ QosInv
<1>1. RecordsInit => Inv
  BY SecretInitInv, ResidencyInitInv, BillInitInv, QosInitInv DEF RecordsInit
<1>2. Inv /\ [RecordsNext]_recordsVars => Inv'
  BY RecordsStep, SecretStep, ResidencyStep, BillStep, QosStep
<1>3. Inv /\ [RecordsNext]_recordsVars =>
        [ReadableStays /\ LastPushIsLast /\ InvoicesGrow /\ UsageFileForward]_recordsVars
  BY RecordsStep, SecretStep, PushIsLast, BillStep, QosStep
<1> QED BY <1>1, <1>2, <1>3, PTL DEF RecordsSpec, RecordsKept
=============================================================================
