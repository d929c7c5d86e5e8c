----------------------------- MODULE TaskStore -----------------------------
(* internal/microtasking/microtask.go, the part that keeps and shows the      *)
(* tasks: CreateDAG, UpdateProgress, the event log, Snapshot with DumpDAG,    *)
(* EnablePersistence with its loop, SaveState and LoadState.  A DAG is an     *)
(* object with the progress of its task; replacing it leaves the old object   *)
(* to whoever has looked it up.  Handlers and queues are in MicroTask.        *)
EXTENDS Integers, Sequences, FiniteSets, SequencesExt

CONSTANTS StoreRoot,   \* the root ids
          Updater,     \* goroutines in UpdateProgress
          MaxObject,   \* bound on the DAG objects of one process
          MaxProgress, \* bound on the progress of a task
          LogLimit,    \* events before addEvent cuts the log (250000)
          LogKeep,     \* events it then keeps (100000)
          MaxFault     \* bound on the crashes and failed writes

ASSUME TaskStoreAssumption ==
  /\ MaxObject \in Nat \ {0} /\ MaxProgress \in Nat \ {0} /\ MaxFault \in Nat
  /\ LogLimit \in Nat /\ LogKeep \in Nat \ {0} /\ LogKeep <= LogLimit
  /\ IsFiniteSet(StoreRoot) /\ "nobody" \notin Updater

VARIABLES tsHeap,    \* the DAG objects: the progress of their task
          tsDags,    \* m.dags: the object of a root, 0 for none
          tsLog,     \* m.elog
          tsHolder,  \* by object: who has d.mu for writing
          tsUpdate,  \* UpdateProgress calls
          tsWriter,  \* the call that waits for m.mu.Lock, and what a load has read
          tsSaver,   \* SaveState calls
          tsShow,    \* the Snapshot call: the roots it has yet to dump
          tsConfig,  \* persistCfg is set; and its loop runs
          tsDone,    \* ctx is cancelled
          tsFile,    \* microtask_state.json
          tsFaults

tsMemory == <<tsHeap, tsDags, tsLog>>
tsControl == <<tsConfig, tsDone, tsFile, tsFaults>>
tsVars == <<tsMemory, tsHolder, tsUpdate, tsWriter, tsSaver, tsShow, tsControl>>

Saves == {"loop", "caller"}     \* persistenceLoop; EnablePersistence or SaveState
Absent == -1
NoState == [dags |-> [r \in StoreRoot |-> Absent], log |-> <<>>]
NoSave == [step |-> "idle", todo |-> {}, state |-> NoState]
NoUpdate == [step |-> "idle", root |-> "none", object |-> 0]
Nobody == "nobody"
NotShowing == {"not showing"}
NoWriter == [call |-> "none", read |-> NoState]

TaskStoreStart ==
  [heap |-> <<>>, dags |-> [r \in StoreRoot |-> 0], holder |-> [o \in 1..MaxObject |-> Nobody],
   update |-> [g \in Updater |-> NoUpdate], saver |-> [s \in Saves |-> NoSave]]

TaskStoreInit ==
  /\ tsHeap = TaskStoreStart.heap /\ tsDags = TaskStoreStart.dags /\ tsLog = <<>>
  /\ tsHolder = TaskStoreStart.holder /\ tsUpdate = TaskStoreStart.update
  /\ tsWriter = NoWriter /\ tsSaver = TaskStoreStart.saver /\ tsShow = NotShowing
  /\ tsConfig = "off" /\ tsDone = FALSE
  /\ tsFile = NoState /\ tsFaults = 0

-----------------------------------------------------------------------------
(* m.mu: a new reader waits while a writer waits, the writer for all readers  *)
MayReadDags == tsWriter = NoWriter
SavesReading == {s \in Saves : tsSaver[s].step = "copying"}
MayWriteDags == SavesReading = {} /\ tsShow = NotShowing

NewObjects(n) == Len(tsHeap) + n <= MaxObject

(* EnablePersistence is called once; LoadState has read the file before it    *)
(* asks                                                                       *)
AskLock(call) ==
  /\ tsWriter = NoWriter
  /\ call = "enable" => tsConfig = "off"
  /\ call = "create" => NewObjects(1)
  /\ call = "load" => tsFile # NoState /\ NewObjects(Cardinality(StoreRoot))
  /\ tsWriter' = [call |-> call, read |-> IF call = "load" THEN tsFile ELSE NoState]
  /\ UNCHANGED <<tsMemory, tsHolder, tsUpdate, tsSaver, tsShow, tsControl>>

(* CreateDAG: a new object, whatever the root had                             *)
CreateDag(r) ==
  /\ tsWriter.call = "create" /\ MayWriteDags
  /\ tsHeap' = Append(tsHeap, 0)
  /\ tsDags' = [tsDags EXCEPT ![r] = Len(tsHeap')]
  /\ tsWriter' = NoWriter
  /\ UNCHANGED <<tsLog, tsHolder, tsUpdate, tsSaver, tsShow, tsControl>>

(* EnablePersistence: the configuration, then the loop if the interval is not *)
(* zero; its own SaveState is a "caller"                                      *)
Enable(mode) ==
  /\ tsWriter.call = "enable" /\ MayWriteDags
  /\ tsConfig' = mode
  /\ tsWriter' = NoWriter
  /\ UNCHANGED <<tsMemory, tsHolder, tsUpdate, tsSaver, tsShow, tsDone, tsFile, tsFaults>>

(* LoadState: new objects with what the file holds, and the file's log; no    *)
(* task goes to a queue                                                       *)
LoadState ==
  LET state == tsWriter.read
      roots == SetToSeq({r \in StoreRoot : state.dags[r] # Absent})
  IN
  /\ tsWriter.call = "load" /\ MayWriteDags
  /\ tsHeap' = tsHeap \o [k \in DOMAIN roots |-> state.dags[roots[k]]]
  /\ tsDags' = [r \in StoreRoot |-> IF state.dags[r] = Absent THEN 0
                               ELSE Len(tsHeap) + (CHOOSE k \in DOMAIN roots : roots[k] = r)]
  /\ tsLog' = state.log
  /\ tsWriter' = NoWriter
  /\ UNCHANGED <<tsHolder, tsUpdate, tsSaver, tsShow, tsControl>>

WriterGoesOn ==
  \/ \E r \in StoreRoot : CreateDag(r)
  \/ \E mode \in {"once", "loop"} : Enable(mode)
  \/ LoadState

-----------------------------------------------------------------------------
(* UpdateProgress: finds the DAG under m.mu, then takes d.mu, sets, logs and  *)
(* frees it                                                                   *)
FindDag(g, r) ==
  /\ tsUpdate[g].step = "idle" /\ MayReadDags /\ tsDags[r] # 0
  /\ tsUpdate' = [tsUpdate EXCEPT ![g] = [step |-> "found", root |-> r, object |-> tsDags[r]]]
  /\ UNCHANGED <<tsMemory, tsHolder, tsWriter, tsSaver, tsShow, tsControl>>

SetProgress(g) ==
  LET o == tsUpdate[g].object IN
  /\ tsUpdate[g].step = "found" /\ tsHolder[o] = Nobody
  /\ tsHeap[o] < MaxProgress
  /\ tsHeap' = [tsHeap EXCEPT ![o] = @ + 1]
  /\ tsHolder' = [tsHolder EXCEPT ![o] = g]
  /\ tsUpdate' = [tsUpdate EXCEPT ![g].step = "set"]
  /\ UNCHANGED <<tsDags, tsLog, tsWriter, tsSaver, tsShow, tsControl>>

\* Faulty variant: the early return keeps d.mu.
StaysLocked(g, o) == [tsHolder EXCEPT ![o] = g]
(* the early return gives d.mu back                                           *)
AfterUnknown(g, o) == tsHolder

UnknownTask(g) ==
  LET o == tsUpdate[g].object IN
  /\ tsUpdate[g].step = "found" /\ tsHolder[o] = Nobody
  /\ tsHolder' = AfterUnknown(g, o)
  /\ tsUpdate' = [tsUpdate EXCEPT ![g] = NoUpdate]
  /\ UNCHANGED <<tsMemory, tsWriter, tsSaver, tsShow, tsControl>>

(* addEvent: over its limit the log keeps its most recent events              *)
Cut(log) == IF Len(log) > LogLimit THEN SubSeq(log, Len(log) - LogKeep + 1, Len(log)) ELSE log

LogProgress(g) ==
  LET o == tsUpdate[g].object IN
  /\ tsUpdate[g].step = "set"
  /\ tsLog' = Cut(Append(tsLog, [root |-> tsUpdate[g].root, progress |-> tsHeap[o]]))
  /\ tsHolder' = [tsHolder EXCEPT ![o] = Nobody]
  /\ tsUpdate' = [tsUpdate EXCEPT ![g] = NoUpdate]
  /\ UNCHANGED <<tsHeap, tsDags, tsWriter, tsSaver, tsShow, tsControl>>

UpdateStep(g) == SetProgress(g) \/ UnknownTask(g) \/ LogProgress(g)

-----------------------------------------------------------------------------
SaverTo(s, save) == tsSaver' = [tsSaver EXCEPT ![s] = save]

\* Faulty variant: a failed save ends the loop.
AfterFailureEnds(s) == IF s = "loop" THEN "once" ELSE tsConfig
(* the loop goes on after a failed save                                       *)
AfterFailure(s) == tsConfig

(* persistenceLoop: a tick is always due, a signal of forcePersist only comes *)
(* before it                                                                  *)
LoopSaves ==
  /\ tsConfig = "loop" /\ tsSaver["loop"].step = "idle" /\ MayReadDags
  /\ SaverTo("loop", [NoSave EXCEPT !.step = "copying", !.todo = {r \in StoreRoot : tsDags[r] # 0}])
  /\ UNCHANGED <<tsMemory, tsHolder, tsUpdate, tsWriter, tsShow, tsConfig, tsDone, tsFile,
                 tsFaults>>

LoopEnds ==
  /\ tsConfig = "loop" /\ tsSaver["loop"].step = "idle" /\ tsDone
  /\ tsConfig' = "once"
  /\ UNCHANGED <<tsMemory, tsHolder, tsUpdate, tsWriter, tsSaver, tsShow, tsDone, tsFile,
                 tsFaults>>

CallerSaves ==
  /\ tsConfig # "off" /\ tsSaver["caller"].step = "idle" /\ MayReadDags
  /\ SaverTo("caller", [NoSave EXCEPT !.step = "copying", !.todo = {r \in StoreRoot : tsDags[r] # 0}])
  /\ UNCHANGED <<tsMemory, tsHolder, tsUpdate, tsWriter, tsShow, tsControl>>

(* d.mu.RLock                                                                 *)
MayCopy(o) == tsHolder[o] = Nobody

(* SaveState copies the DAGs in map order, with m.mu held all along           *)
CopyDag(s, r) ==
  /\ tsSaver[s].step = "copying" /\ r \in tsSaver[s].todo /\ MayCopy(tsDags[r])
  /\ tsSaver' = [tsSaver EXCEPT ![s].todo = @ \ {r}, ![s].state.dags[r] = tsHeap[tsDags[r]]]
  /\ UNCHANGED <<tsMemory, tsHolder, tsUpdate, tsWriter, tsShow, tsControl>>

(* the log comes after the DAGs                                               *)
CopyLog(s) ==
  /\ tsSaver[s].step = "copying" /\ tsSaver[s].todo = {}
  /\ tsSaver' = [tsSaver EXCEPT ![s].step = "writing", ![s].state.log = tsLog]
  /\ UNCHANGED <<tsMemory, tsHolder, tsUpdate, tsWriter, tsShow, tsControl>>

(* WriteFile to a name of its own, then Rename; a failure leaves the file     *)
SaveFile(s) ==
  /\ tsSaver[s].step = "writing"
  /\ tsFile' = tsSaver[s].state
  /\ SaverTo(s, NoSave)
  /\ UNCHANGED <<tsMemory, tsHolder, tsUpdate, tsWriter, tsShow, tsConfig, tsDone, tsFaults>>

SaveFails(s) ==
  /\ tsSaver[s].step = "writing" /\ SaverTo(s, NoSave)
  /\ tsFaults < MaxFault /\ tsFaults' = tsFaults + 1
  /\ tsConfig' = AfterFailure(s)
  /\ UNCHANGED <<tsMemory, tsHolder, tsUpdate, tsWriter, tsShow, tsDone, tsFile>>

SaverGoesOn(s) == (\E r \in StoreRoot : CopyDag(s, r)) \/ CopyLog(s) \/ SaveFile(s)

(* Stop cancels, so the last forcePersist may find no loop                    *)
StopStore ==
  /\ ~tsDone /\ tsDone' = TRUE
  /\ UNCHANGED <<tsMemory, tsHolder, tsUpdate, tsWriter, tsSaver, tsShow, tsConfig, tsFile,
                 tsFaults>>

-----------------------------------------------------------------------------
(* Snapshot reads m.mu to its end, and DumpDAG reads it again for each root   *)
SnapshotBegins ==
  /\ tsShow = NotShowing /\ MayReadDags
  /\ tsShow' = {r \in StoreRoot : tsDags[r] # 0} /\ tsShow' # {}
  /\ UNCHANGED <<tsMemory, tsHolder, tsUpdate, tsWriter, tsSaver, tsControl>>

SnapshotStep ==
  \E r \in StoreRoot :
    /\ tsShow # NotShowing /\ r \in tsShow
    /\ MayReadDags /\ MayCopy(tsDags[r])
    /\ tsShow' = IF tsShow = {r} THEN NotShowing ELSE tsShow \ {r}
    /\ UNCHANGED <<tsMemory, tsHolder, tsUpdate, tsWriter, tsSaver, tsControl>>

(* the process dies and starts anew; the file stays                           *)
StoreCrash ==
  /\ tsFaults < MaxFault /\ tsFaults' = tsFaults + 1
  /\ tsHeap' = TaskStoreStart.heap /\ tsDags' = TaskStoreStart.dags /\ tsLog' = <<>>
  /\ tsHolder' = TaskStoreStart.holder /\ tsUpdate' = TaskStoreStart.update
  /\ tsWriter' = NoWriter /\ tsSaver' = TaskStoreStart.saver /\ tsShow' = NotShowing
  /\ tsConfig' = "off" /\ tsDone' = FALSE
  /\ UNCHANGED tsFile

TaskStoreNext ==
  \/ \E call \in {"create", "enable", "load"} : AskLock(call)
  \/ WriterGoesOn
  \/ \E g \in Updater : UpdateStep(g) \/ \E r \in StoreRoot : FindDag(g, r)
  \/ LoopSaves \/ LoopEnds \/ CallerSaves
  \/ \E s \in Saves : SaverGoesOn(s) \/ SaveFails(s)
  \/ StopStore \/ SnapshotBegins \/ SnapshotStep \/ StoreCrash

TaskStoreSpec == TaskStoreInit /\ [][TaskStoreNext]_tsVars

-----------------------------------------------------------------------------
TaskStoreTypeOK ==
  /\ tsHeap \in Seq(0..MaxProgress) /\ Len(tsHeap) <= MaxObject
  /\ tsDags \in [StoreRoot -> 0..Len(tsHeap)]
  /\ \A k \in DOMAIN tsLog : tsLog[k] \in [root : StoreRoot, progress : 1..MaxProgress]
  /\ tsHolder \in [1..MaxObject -> Updater \cup {Nobody}]
  /\ tsWriter.call \in {"none", "create", "enable", "load"}
  /\ \A s \in Saves : tsSaver[s].step \in {"idle", "copying", "writing"}
  /\ tsShow = NotShowing \/ tsShow \subseteq StoreRoot
  /\ tsConfig \in {"off", "once", "loop"} /\ tsDone \in BOOLEAN
  /\ tsFile.dags \in [StoreRoot -> Absent..MaxProgress] /\ tsFaults \in 0..MaxFault

(* The log in the file tells of the progress that the file shows, until the   *)
(* log has been cut: UpdateProgress logs before it frees d.mu, and SaveState  *)
(* copies the log after the DAGs; loads and crashes keep it so.               *)
FileLogCoversDags ==
  \A r \in StoreRoot : tsFile.dags[r] > 0 =>
    \/ [root |-> r, progress |-> tsFile.dags[r]] \in Range(tsFile.log)
    \/ Len(tsFile.log) >= LogKeep

(* Snapshot has yet to read m.mu again and a writer waits: neither moves      *)
Stuck == tsWriter # NoWriter /\ tsShow # NotShowing

(* While the loop runs, what memory shows of a DAG comes to the file or       *)
(* changes: a late SaveState of a caller may put an older copy over it, but a *)
(* later tick repairs that.                                                   *)
Shown(r) == IF tsDags[r] = 0 THEN Absent ELSE tsHeap[tsDags[r]]
MemoryReachesFile ==
  \A r \in StoreRoot : \A n \in 0..MaxProgress :
    (tsConfig = "loop" /\ Shown(r) = n)
      ~> (tsFile.dags[r] = n \/ Shown(r) # n \/ tsDone \/ Stuck \/ tsConfig = "off")

(* Snapshot returns, unless a writer asks for m.mu between its two reads.     *)
SnapshotReturns == (tsShow # NotShowing) ~> (tsShow = NotShowing \/ Stuck)
============================================================================
