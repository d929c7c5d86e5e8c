------------------------------- MODULE Agent -------------------------------
(* The node agent of cmd/agent/main.go: the handlers of POST /job put jobs in *)
(* a bounded queue, the workers take them from it, a loop registers the agent *)
(* at the control plane, and a signal shuts the server down while Run waits   *)
(* for the jobs the WaitGroup knows of.  The queue is never closed, and what  *)
(* is left of it when Run returns is gone with the process.                   *)
EXTENDS Integers, Sequences, FiniteSets, SequencesExt

CONSTANTS AgentJob,        \* the jobs that are submitted, each once
          AgentWorker,     \* capacity workers
          AgentQueueSize   \* 4 * capacity in NewAgent

ASSUME AgentAssumption ==
  AgentQueueSize \in Nat \ {0} /\ IsFiniteSet(AgentWorker) /\ "none" \notin AgentJob

VARIABLES agQueue,     \* jobQueue
          agReply,     \* what a job's request has got: none, open, accepted, busy
          agWorker,    \* what a worker does: waits, took, runs
          agJobOf,     \* the job of a worker
          agEnded,     \* the jobs whose result was counted
          agGroup,     \* the counter of a.wg
          agServer,    \* serving, closing (Shutdown runs), closed
          agRun,       \* Run: listens, waits, stopped
          agSignal,    \* the state of the signal goroutine
          agLoop,      \* registrationLoop: ticks, posts, ended
          agKnown      \* the control plane has answered a registration with 2xx

agJobs == <<agQueue, agReply, agWorker, agJobOf, agEnded, agGroup>>
agStop == <<agServer, agRun, agSignal>>
agReg == <<agLoop, agKnown>>
agVars == <<agJobs, agStop, agReg>>

NoAgentJob == "none"
Up == agRun # "stopped"

AgentInit ==
  /\ agQueue = <<>> /\ agReply = [j \in AgentJob |-> "none"]
  /\ agWorker = [w \in AgentWorker |-> "waits"]
  /\ agJobOf = [w \in AgentWorker |-> NoAgentJob]
  /\ agEnded = {} /\ agGroup = 0
  /\ agServer = "serving" /\ agRun = "listens" /\ agSignal = "none"
  /\ agLoop = "ticks" /\ agKnown = FALSE

-----------------------------------------------------------------------------
(* handleJob: a request is in hand from here on, and Shutdown waits for it.   *)
(* A wrong method, key or body is refused and leaves nothing behind.          *)
SubmitJobs(j) ==
  /\ Up /\ agServer = "serving" /\ agReply[j] = "none"
  /\ agReply' = [agReply EXCEPT ![j] = "open"]
  /\ UNCHANGED <<agQueue, agWorker, agJobOf, agEnded, agGroup, agStop, agReg>>

(* select with a default: the job goes into the buffer of the channel, or the *)
(* agent is busy                                                              *)
RoomInQueue == Len(agQueue) < AgentQueueSize
Enqueued(j) == IF RoomInQueue THEN Append(agQueue, j) ELSE agQueue
Answered == IF RoomInQueue THEN "accepted" ELSE "busy"

HandleJob(j) ==
  /\ Up /\ agReply[j] = "open"
  /\ agQueue' = Enqueued(j)
  /\ agReply' = [agReply EXCEPT ![j] = Answered]
  /\ UNCHANGED <<agWorker, agJobOf, agEnded, agGroup, agStop, agReg>>

-----------------------------------------------------------------------------
(* workerLoop: the job has left the queue before wg.Add counts it             *)
TakeJob(w) ==
  /\ Up /\ agWorker[w] = "waits" /\ agQueue # <<>>
  /\ agJobOf' = [agJobOf EXCEPT ![w] = Head(agQueue)]
  /\ agQueue' = Tail(agQueue)
  /\ agWorker' = [agWorker EXCEPT ![w] = "took"]
  /\ UNCHANGED <<agReply, agEnded, agGroup, agStop, agReg>>

AddToGroup(w) ==
  /\ Up /\ agWorker[w] = "took"
  /\ agGroup' = agGroup + 1
  /\ agWorker' = [agWorker EXCEPT ![w] = "runs"]
  /\ UNCHANGED <<agQueue, agReply, agJobOf, agEnded, agStop, agReg>>

(* runFirecrackerTask (or the simulated run) ends, well or not; the result is *)
(* counted, and the deferred wg.Done runs                                     *)
RunEnded(w) ==
  /\ Up /\ agWorker[w] = "runs"
  /\ agEnded' = agEnded \cup {agJobOf[w]}
  /\ agGroup' = agGroup - 1
  /\ agJobOf' = [agJobOf EXCEPT ![w] = NoAgentJob]
  /\ agWorker' = [agWorker EXCEPT ![w] = "waits"]
  /\ UNCHANGED <<agQueue, agReply, agStop, agReg>>

-----------------------------------------------------------------------------
(* registrationLoop and registerOnce; a post that is under way when the       *)
(* context is cancelled goes on, and a tick may still win against Done        *)
RegisterTick ==
  /\ Up /\ agLoop = "ticks" /\ agLoop' = "posts"
  /\ UNCHANGED <<agJobs, agStop, agKnown>>

RegisterAnswered ==
  /\ Up /\ agLoop = "posts" /\ agLoop' = "ticks"
  /\ \E ok \in BOOLEAN : agKnown' = (agKnown \/ ok)
  /\ UNCHANGED <<agJobs, agStop>>

RegistrationEnds ==
  /\ Up /\ agLoop = "ticks" /\ agSignal # "none" /\ agLoop' = "ended"
  /\ UNCHANGED <<agJobs, agStop, agKnown>>

-----------------------------------------------------------------------------
(* The goroutine of the signal cancels the registration and shuts the server  *)
(* down; ListenAndServe returns at once, while Shutdown waits for the         *)
(* requests in hand or for the grace period.                                  *)
SignalStop ==
  /\ Up /\ agSignal = "none" /\ agSignal' = "shutting"
  /\ agServer' = "closing"
  /\ UNCHANGED <<agJobs, agRun, agReg>>

ShutdownReturned ==
  /\ Up /\ agSignal = "shutting" /\ agSignal' = "done"
  /\ agServer' = "closed"
  /\ UNCHANGED <<agJobs, agRun, agReg>>

ListenReturns ==
  /\ agRun = "listens" /\ agServer # "serving" /\ agRun' = "waits"
  /\ UNCHANGED <<agJobs, agServer, agSignal, agReg>>

(* a.wg.Wait returns, and with Run the process ends *)
GroupIsEmpty == agGroup = 0
RunReturns ==
  /\ agRun = "waits" /\ GroupIsEmpty /\ agRun' = "stopped"
  /\ UNCHANGED <<agJobs, agServer, agSignal, agReg>>

AgentNext ==
  \/ \E j \in AgentJob : SubmitJobs(j) \/ HandleJob(j)
  \/ \E w \in AgentWorker : TakeJob(w) \/ AddToGroup(w) \/ RunEnded(w)
  \/ RegisterTick \/ RegisterAnswered \/ RegistrationEnds
  \/ SignalStop \/ ShutdownReturned \/ ListenReturns \/ RunReturns

AgentSpec == AgentInit /\ [][AgentNext]_agVars

-----------------------------------------------------------------------------
(* Types; the WaitGroup counts the workers that run a job. *)
AgentTypeOK ==
  /\ agQueue \in UNION {[1..k -> AgentJob] : k \in 0..AgentQueueSize}
  /\ agReply \in [AgentJob -> {"none", "open", "accepted", "busy"}]
  /\ agWorker \in [AgentWorker -> {"waits", "took", "runs"}]
  /\ agJobOf \in [AgentWorker -> AgentJob \cup {NoAgentJob}]
  /\ agEnded \subseteq AgentJob
  /\ agGroup = Cardinality({w \in AgentWorker : agWorker[w] = "runs"})
  /\ agServer \in {"serving", "closing", "closed"}
  /\ agRun \in {"listens", "waits", "stopped"}
  /\ agSignal \in {"none", "shutting", "done"}
  /\ agLoop \in {"ticks", "posts", "ended"} /\ agKnown \in BOOLEAN

(* A job whose submitter was told "accepted" is in exactly one place: in the  *)
(* queue, with one worker, or ended; a job that was refused is nowhere.       *)
AcceptedInOnePlace ==
  \A j \in AgentJob :
    LET places == Cardinality({k \in DOMAIN agQueue : agQueue[k] = j})
                  + Cardinality({w \in AgentWorker : agJobOf[w] = j})
                  + (IF j \in agEnded THEN 1 ELSE 0)
    IN  places = (IF agReply[j] = "accepted" THEN 1 ELSE 0)

(* Run waits for running jobs: when the process ends, no run that the group   *)
(* counts is cut off.  (A job that a worker took and did not count yet, and   *)
(* the rest of the queue, are.)                                               *)
StopWaitsForRuns == ~Up => \A w \in AgentWorker : agWorker[w] # "runs"

(* An accepted job ends, unless the agent is stopped first. *)
AcceptedEnds ==
  \A j \in AgentJob : agReply[j] = "accepted" ~> (j \in agEnded \/ agSignal # "none")
=============================================================================
