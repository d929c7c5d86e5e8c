----------------------------- MODULE AsyncJobs -----------------------------
(***************************************************************************)
(* InMemoryAsyncStore of connectors/connector.go, with CONNECTOR_ASYNC_DIR *)
(* set: jobs in memory and in files, polls, cleanup and a restart.         *)
(*                                                                         *)
(* The goroutine of a job writes Result and then Done under the lock; a    *)
(* poll takes the job under the lock and reads Result and then Done behind *)
(* it.  A job is its id's entry: its content is whether it has a result.   *)
(***************************************************************************)
EXTENDS Naturals, FiniteSets

CONSTANTS AsyncJob,   \* ids: GenerateSecureID never gives one twice
          Poller      \* callers of PollJob

\* The store is locked for no job.
ASSUME AsyncAssumption == "none" \notin AsyncJob

VARIABLES
  asyncStore,  \* a.store: [AsyncJob -> [in, result, done, old]]
  asyncFile,   \* [AsyncJob -> [in, result, done]]
  worker,      \* [AsyncJob -> place of its goroutine]
  asyncLock,   \* the job whose goroutine holds a.mu, or "none"
  asyncPollPc, pollOf,   \* [Poller -> place], [Poller -> job]
  pollSaw,     \* [Poller -> [result, done] of the answer]
  raced,       \* history: [Poller -> the job's goroutine has written during the poll]
  lost         \* history: jobs a restart or a cleanup has taken away unfinished

asyncPolls == <<asyncPollPc, pollOf, pollSaw, raced>>
asyncVars == <<asyncStore, asyncFile, worker, asyncLock, asyncPolls, lost>>

NoJob == [in |-> FALSE, result |-> FALSE, done |-> FALSE, old |-> FALSE]
NewJob == [NoJob EXCEPT !.in = TRUE]

AsyncInit ==
  /\ asyncStore = [j \in AsyncJob |-> NoJob]
  /\ asyncFile = [j \in AsyncJob |-> NoJob]
  /\ worker = [j \in AsyncJob |-> "unused"]
  /\ asyncLock = "none"
  /\ asyncPollPc = [p \in Poller |-> "idle"] /\ pollOf = [p \in Poller |-> "none"]
  /\ pollSaw = [p \in Poller |-> [result |-> FALSE, done |-> FALSE]]
  /\ raced = [p \in Poller |-> FALSE]
  /\ lost = {}

WorkerAt(j, place) == worker' = [worker EXCEPT ![j] = place]
-----------------------------------------------------------------------------
StartAsync(j) ==
  /\ worker[j] = "unused"
  /\ asyncLock = "none"
  /\ asyncStore' = [asyncStore EXCEPT ![j] = NewJob]
  /\ WorkerAt(j, "persist")
  /\ UNCHANGED <<asyncFile, asyncLock, asyncPolls, lost>>

\* Behind the lock; the goroutine starts after it.
PersistNew(j) ==
  /\ worker[j] = "persist"
  /\ asyncFile' = [asyncFile EXCEPT ![j] = [asyncStore[j] EXCEPT !.in = TRUE]]
  /\ WorkerAt(j, "run")
  /\ UNCHANGED <<asyncStore, asyncLock, asyncPolls, lost>>

\* The operation is over; a job that has been cleaned away is entered again.
WriteResult(j) ==
  /\ worker[j] = "run"
  /\ asyncLock = "none"
  /\ asyncLock' = j
  /\ asyncStore' = [asyncStore EXCEPT ![j] = [@ EXCEPT !.in = TRUE, !.result = TRUE]]
  /\ raced' = [p \in Poller |-> raced[p] \/ (pollOf[p] = j /\ asyncPollPc[p] = "done")]
  /\ WorkerAt(j, "done")
  /\ UNCHANGED <<asyncFile, asyncPollPc, pollOf, pollSaw, lost>>

WriteDone(j) ==
  /\ worker[j] = "done"
  /\ asyncStore' = [asyncStore EXCEPT ![j] = [@ EXCEPT !.done = TRUE, !.old = FALSE]]
  /\ WorkerAt(j, "persistDone")
  /\ UNCHANGED <<asyncFile, asyncLock, asyncPolls, lost>>

FileAtEnd(j) == [asyncFile EXCEPT ![j] = asyncStore[j]]

FreeStore == asyncLock' = "none"

PersistDone(j) ==
  /\ worker[j] = "persistDone"
  /\ asyncFile' = FileAtEnd(j)
  /\ FreeStore
  /\ WorkerAt(j, "gone")
  /\ UNCHANGED <<asyncStore, asyncPolls, lost>>

\* The time to live of a job has passed.
GrowOld(j) ==
  /\ asyncStore[j].in /\ ~asyncStore[j].old
  /\ worker[j] \in {"run", "gone"}
  /\ asyncStore' = [asyncStore EXCEPT ![j].old = TRUE]
  /\ UNCHANGED <<asyncFile, worker, asyncLock, asyncPolls, lost>>

\* What a poll that is under way will read of a job that is taken from the map.
Detached(p) == [result |-> IF asyncPollPc[p] = "result" THEN asyncStore[pollOf[p]].result ELSE pollSaw[p].result,
                done |-> asyncStore[pollOf[p]].done]

\* Finished or not.
CleanupJobs ==
  LET old == {j \in AsyncJob : asyncStore[j].old}
      cut == {p \in Poller : asyncPollPc[p] \in {"result", "done"} /\ pollOf[p] \in old} IN
  /\ asyncLock = "none"
  /\ old # {}
  /\ asyncStore' = [j \in AsyncJob |-> IF j \in old THEN NoJob ELSE asyncStore[j]]
  /\ asyncFile' = [j \in AsyncJob |-> IF j \in old THEN NoJob ELSE asyncFile[j]]
  /\ pollSaw' = [p \in Poller |-> IF p \in cut THEN Detached(p) ELSE pollSaw[p]]
  /\ asyncPollPc' = [p \in Poller |-> IF p \in cut THEN "answer" ELSE asyncPollPc[p]]
  /\ lost' = lost \cup old
  /\ UNCHANGED <<worker, asyncLock, pollOf, raced>>

\* The process starts again: memory and goroutines are gone, the files are not.
AsyncRestart ==
  /\ \E j \in AsyncJob : worker[j] # "unused"
  /\ asyncStore' = [j \in AsyncJob |-> NoJob]
  /\ worker' = [j \in AsyncJob |-> IF worker[j] = "unused" THEN "unused" ELSE "gone"]
  /\ asyncLock' = "none"
  /\ asyncPollPc' = [p \in Poller |-> "idle"] /\ pollOf' = [p \in Poller |-> "none"]
  /\ raced' = [p \in Poller |-> FALSE]
  /\ lost' = lost \cup {j \in AsyncJob : worker[j] \notin {"unused", "gone"}}
  /\ UNCHANGED <<asyncFile, pollSaw>>
-----------------------------------------------------------------------------
\* The entry in memory, or else the file.
PollAsync(p, j) ==
  /\ asyncPollPc[p] = "idle"
  /\ worker[j] # "unused"
  /\ asyncLock = "none"
  /\ pollOf' = [pollOf EXCEPT ![p] = j]
  /\ raced' = [raced EXCEPT ![p] = FALSE]
  /\ IF asyncStore[j].in
     THEN asyncPollPc' = [asyncPollPc EXCEPT ![p] = "result"] /\ UNCHANGED pollSaw
     ELSE /\ asyncPollPc' = [asyncPollPc EXCEPT ![p] = "answer"]
          /\ pollSaw' = [pollSaw EXCEPT ![p] = [result |-> asyncFile[j].result, done |-> asyncFile[j].done]]
  /\ UNCHANGED <<asyncStore, asyncFile, worker, asyncLock, lost>>

\* Result, when the poll reads it.
ReadResult(p) == [result |-> asyncStore[pollOf[p]].result, done |-> FALSE]

PollResult(p) ==
  /\ asyncPollPc[p] = "result"
  /\ pollSaw' = [pollSaw EXCEPT ![p] = ReadResult(p)]
  /\ asyncPollPc' = [asyncPollPc EXCEPT ![p] = "done"]
  /\ UNCHANGED <<asyncStore, asyncFile, worker, asyncLock, pollOf, raced, lost>>

\* Done, when the poll reads it.
PollDone(p) ==
  /\ asyncPollPc[p] = "done"
  /\ pollSaw' = [pollSaw EXCEPT ![p].done = @ \/ asyncStore[pollOf[p]].done]
  /\ asyncPollPc' = [asyncPollPc EXCEPT ![p] = "answer"]
  /\ UNCHANGED <<asyncStore, asyncFile, worker, asyncLock, pollOf, raced, lost>>

PollReturns(p) ==
  /\ asyncPollPc[p] = "answer"
  /\ asyncPollPc' = [asyncPollPc EXCEPT ![p] = "idle"]
  /\ pollOf' = [pollOf EXCEPT ![p] = "none"]
  /\ UNCHANGED <<asyncStore, asyncFile, worker, asyncLock, pollSaw, raced, lost>>
-----------------------------------------------------------------------------
WorkerStep(j) == PersistNew(j) \/ WriteResult(j) \/ WriteDone(j) \/ PersistDone(j)

AsyncNext ==
  \/ \E j \in AsyncJob : StartAsync(j) \/ WorkerStep(j) \/ GrowOld(j)
  \/ CleanupJobs \/ AsyncRestart
  \/ \E p \in Poller :
       (\E j \in AsyncJob : PollAsync(p, j)) \/ PollResult(p) \/ PollDone(p) \/ PollReturns(p)

AsyncSpec == AsyncInit /\ [][AsyncNext]_asyncVars
-----------------------------------------------------------------------------
AsyncTypeOK ==
  /\ asyncStore \in [AsyncJob -> [in : BOOLEAN, result : BOOLEAN, done : BOOLEAN, old : BOOLEAN]]
  /\ worker \in [AsyncJob -> {"unused", "persist", "run", "done", "persistDone", "gone"}]
  /\ asyncLock \in AsyncJob \cup {"none"}
  /\ asyncPollPc \in [Poller -> {"idle", "result", "done", "answer"}]

\* A poll that says done has the result, unless it read the two around the
\* moment the job's goroutine wrote them.
DoneHasResult ==
  \A p \in Poller : asyncPollPc[p] = "answer" /\ pollSaw[p].done => pollSaw[p].result \/ raced[p]

\* A finished job is finished for good, in memory as on disk, until its time to
\* live has passed: a restart finds its result.
FinishedSurvives ==
  \A j \in AsyncJob \ lost : worker[j] = "gone" =>
    asyncFile[j].done /\ asyncFile[j].result /\ (asyncStore[j].in => asyncStore[j].done)

\* Every job is done some day, unless a restart took its goroutine.
JobsEnd == \A j \in AsyncJob : worker[j] = "run" ~> worker[j] = "gone"
=============================================================================
