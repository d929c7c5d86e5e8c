------------------------------ MODULE Training ------------------------------
(***************************************************************************)
(* The job lifecycle of internal/training/distributed_training.go.         *)
(*                                                                         *)
(* Clients create and start jobs; each start has a goroutine of runJob     *)
(* until its context ends.  saveJobMeta is called after dt.mu is released  *)
(* and takes it again for reading, writes meta.json.tmp and renames it.    *)
(* PauseJob, ResumeJob, CancelJob, SetResourceHints and                    *)
(* SetPreemptionPolicy call it with dt.mu locked and stay there.           *)
(* Checkpoints, hooks and task generation keep no state of the trainer.    *)
(***************************************************************************)
EXTENDS Naturals, FiniteSets

CONSTANTS Job,       \* job ids
          TrainCall, \* client goroutines
          Run        \* runJob goroutines: a fresh one for each start

\* A goroutine is a client's or of runJob, and "none" is neither a job nor a run.
ASSUME TrainAssumption == TrainCall \cap Run = {} /\ "none" \notin Job \cup Run

VARIABLES
  jobStatus,   \* dt.jobs: [Job -> status], "absent" when not in the map
  recreated,   \* history: jobs that CreateJob has replaced
  jobCancel,   \* dt.jobCancel: [Job -> run it cancels, "none"]
  run,         \* [Run -> "unused", "on", "cancelled" (its context has ended), "gone"]
  runJob,      \* [Run -> job]
  trainStuck,  \* dt.mu is locked for good
  saver,       \* [client or run -> place in saveJobMeta]
  saveOf,      \* [client or run -> [job, status it has marshalled]]
  starting,    \* [client -> the run it starts after its save, "none"]
  metaTmp, metaFile,  \* [Job -> status in the file, "none"]
  savesOverlap \* history: jobs two of whose saves have overlapped

trainFiles == <<metaTmp, metaFile>>
trainSaves == <<saver, saveOf, savesOverlap>>
trainRuns  == <<run, runJob, jobCancel>>
trainVars  == <<jobStatus, recreated, trainRuns, trainStuck, trainSaves, starting, trainFiles>>

Saver == TrainCall \cup Run
Saving(p) == saver[p] \in {"save", "write", "rename"}

TrainInit ==
  /\ jobStatus = [j \in Job |-> "absent"]
  /\ recreated = {}
  /\ jobCancel = [j \in Job |-> "none"]
  /\ run = [r \in Run |-> "unused"]
  /\ runJob = [r \in Run |-> "none"]
  /\ trainStuck = FALSE
  /\ saver = [p \in Saver |-> "idle"]
  /\ saveOf = [p \in Saver |-> [job |-> "none", status |-> "none"]]
  /\ starting = [c \in TrainCall |-> "none"]
  /\ metaTmp = [j \in Job |-> "none"]
  /\ metaFile = [j \in Job |-> "none"]
  /\ savesOverlap = {}

\* p goes on to saveJobMeta of j.
BeginSave(p, j) ==
  /\ saver' = [saver EXCEPT ![p] = "save"]
  /\ saveOf' = [saveOf EXCEPT ![p] = [job |-> j, status |-> "none"]]
  /\ savesOverlap' = IF \E q \in Saver \ {p} : Saving(q) /\ saveOf[q].job = j
                     THEN savesOverlap \cup {j} ELSE savesOverlap
-----------------------------------------------------------------------------
\* Also replaces a job of the same id, running or not.
CreateJob(c, j) ==
  /\ ~trainStuck
  /\ saver[c] = "idle"
  /\ jobStatus' = [jobStatus EXCEPT ![j] = "created"]
  /\ recreated' = IF jobStatus[j] = "absent" THEN recreated ELSE recreated \cup {j}
  /\ BeginSave(c, j)
  /\ UNCHANGED <<trainRuns, trainStuck, starting, trainFiles>>

\* Faulty variant: a job that runs is started again.
MayStartAny(j) == jobStatus[j] # "absent"

MayStart(j) == jobStatus[j] \notin {"absent", "running"}

\* The goroutine itself starts behind the save.
StartJob(c, j, r) ==
  /\ ~trainStuck
  /\ saver[c] = "idle"
  /\ MayStart(j)
  /\ run[r] = "unused"
  /\ jobStatus' = [jobStatus EXCEPT ![j] = "running"]
  /\ jobCancel' = [jobCancel EXCEPT ![j] = r]
  /\ run' = [run EXCEPT ![r] = "on"]
  /\ runJob' = [runJob EXCEPT ![r] = j]
  /\ starting' = [starting EXCEPT ![c] = r]
  /\ BeginSave(c, j)
  /\ UNCHANGED <<recreated, trainStuck, trainFiles>>

\* The client's own context ends: nothing else cancels a run that can go on.
ContextEnds(r) ==
  /\ run[r] = "on"
  /\ run' = [run EXCEPT ![r] = "cancelled"]
  /\ UNCHANGED <<jobStatus, recreated, runJob, jobCancel, trainStuck, trainSaves, starting,
                 trainFiles>>

EndStatus(j) == IF jobStatus[j] = "absent" THEN "absent" ELSE "preempted"

\* Whatever the job's status is by now, and whichever run jobCancel is for.
RunEnds(r) ==
  LET j == runJob[r] IN
  /\ ~trainStuck
  /\ run[r] = "cancelled"
  /\ \A c \in TrainCall : starting[c] # r
  /\ run' = [run EXCEPT ![r] = "gone"]
  /\ jobStatus' = [jobStatus EXCEPT ![j] = EndStatus(j)]
  /\ jobCancel' = [jobCancel EXCEPT ![j] = "none"]
  /\ BeginSave(r, j)
  /\ UNCHANGED <<recreated, runJob, trainStuck, starting, trainFiles>>

\* PauseJob, ResumeJob, CancelJob: the new status, then the call waits for the
\* lock it holds.  (SetResourceHints and SetPreemptionPolicy keep the status.)
CommandSticks(c, j, status) ==
  /\ ~trainStuck
  /\ saver[c] = "idle"
  /\ jobStatus[j] # "absent"
  /\ jobStatus' = [jobStatus EXCEPT ![j] = status]
  /\ run' = IF status = "failed" /\ jobCancel[j] # "none" /\ run[jobCancel[j]] = "on"
            THEN [run EXCEPT ![jobCancel[j]] = "cancelled"] ELSE run
  /\ jobCancel' = IF status = "failed" THEN [jobCancel EXCEPT ![j] = "none"] ELSE jobCancel
  /\ trainStuck' = TRUE
  /\ saver' = [saver EXCEPT ![c] = "stuck"]
  /\ UNCHANGED <<recreated, runJob, saveOf, savesOverlap, starting, trainFiles>>

\* The job is looked up under the lock and marshalled behind it.
SaveRead(p) ==
  LET j == saveOf[p].job IN
  /\ ~trainStuck
  /\ saver[p] = "save"
  /\ saver' = [saver EXCEPT ![p] = "write"]
  /\ saveOf' = [saveOf EXCEPT ![p].status = jobStatus[j]]
  /\ UNCHANGED <<jobStatus, recreated, trainRuns, trainStuck, savesOverlap, starting,
                 trainFiles>>

\* A save that is over; the client that starts a job starts its goroutine.
EndSave(p) ==
  /\ saver' = [saver EXCEPT ![p] = "idle"]
  /\ starting' = IF p \in TrainCall THEN [starting EXCEPT ![p] = "none"] ELSE starting

SaveWrite(p) ==
  /\ saver[p] = "write"
  /\ metaTmp' = [metaTmp EXCEPT ![saveOf[p].job] = saveOf[p].status]
  /\ saver' = [saver EXCEPT ![p] = "rename"]
  /\ UNCHANGED <<jobStatus, recreated, trainRuns, trainStuck, saveOf, savesOverlap, starting,
                 metaFile>>

\* The temporary file may be another save's, or gone with another's rename.
SaveRename(p) ==
  LET j == saveOf[p].job IN
  /\ saver[p] = "rename"
  /\ metaFile' = IF metaTmp[j] = "none" THEN metaFile ELSE [metaFile EXCEPT ![j] = metaTmp[j]]
  /\ metaTmp' = [metaTmp EXCEPT ![j] = "none"]
  /\ EndSave(p)
  /\ UNCHANGED <<jobStatus, recreated, trainRuns, trainStuck, saveOf, savesOverlap>>
-----------------------------------------------------------------------------
TrainNext ==
  \/ \E c \in TrainCall, j \in Job :
       \/ CreateJob(c, j)
       \/ \E r \in Run : StartJob(c, j, r)
       \/ \E status \in {"staging", "running", "failed", jobStatus[j]} : CommandSticks(c, j, status)
  \/ \E r \in Run : ContextEnds(r) \/ RunEnds(r)
  \/ \E p \in Saver : SaveRead(p) \/ SaveWrite(p) \/ SaveRename(p)

TrainSpec == TrainInit /\ [][TrainNext]_trainVars
-----------------------------------------------------------------------------
TrainTypeOK ==
  /\ jobStatus \in [Job -> {"absent", "created", "staging", "running", "preempted", "failed"}]
  /\ recreated \subseteq Job /\ savesOverlap \subseteq Job
  /\ jobCancel \in [Job -> Run \cup {"none"}]
  /\ run \in [Run -> {"unused", "on", "cancelled", "gone"}]
  /\ runJob \in [Run -> Job \cup {"none"}]
  /\ trainStuck \in BOOLEAN
  /\ saver \in [Saver -> {"idle", "save", "write", "rename", "stuck"}]
  /\ starting \in [TrainCall -> Run \cup {"none"}]

\* A job that CreateJob has not replaced has at most one runJob goroutine, and
\* a running one has exactly one ("already running"), which jobCancel names.
OneRunPerJob ==
  \A j \in Job \ recreated : ~trainStuck =>
    LET on == {r \in Run : runJob[r] = j /\ run[r] \in {"on", "cancelled"}} IN
    IF jobStatus[j] = "running" THEN on = {jobCancel[j]} ELSE on = {}

\* "persists job metadata atomically": while saves of a job do not overlap, its
\* file holds the status it has, or one of them is still to come.
MetaFollowsJob ==
  \A j \in Job \ savesOverlap :
    \/ trainStuck
    \/ \E p \in Saver : Saving(p) /\ saveOf[p].job = j
    \/ metaFile[j] = IF jobStatus[j] = "absent" THEN "none" ELSE jobStatus[j]

\* Every call returns, unless a command has locked dt.mu for good.
TrainCallsReturn ==
  \A c \in TrainCall : Saving(c) ~> saver[c] = "idle" \/ trainStuck
=============================================================================
