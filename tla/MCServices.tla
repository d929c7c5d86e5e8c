--------------------------- MODULE MCServices -------------------------------
(* Components whose calls and goroutines have to come to an end, checked for *)
(* liveness beside the microtask manager.                                    *)
(* They share no state: part tells which of them a behaviour is of, and the  *)
(* others stay where they start.                                             *)
EXTENDS MicroTask, TaskStore, Agent, Training, PolicyEngine, TokenRenewal, BulkSend,
        AsyncJobs

VARIABLE part   \* the component that runs

Parts == {"microtask", "taskstore", "agent", "training", "policy", "token", "bulk", "async"}
servicesVars == <<part, vars, tsVars, agVars, trainVars, peVars, tkVars, bulkVars,
                    asyncVars>>

ServicesInit ==
  /\ part \in Parts
  /\ Init
  /\ TaskStoreInit
  /\ AgentInit
  /\ TrainInit
  /\ PolicyInit /\ (part # "policy" => peDb = [quota |-> 1, sensitive |-> FALSE])
  /\ TokenRenewalInit
  /\ BulkInit
  /\ AsyncInit

Others(p) ==
  /\ p # "microtask" => UNCHANGED vars
  /\ p # "taskstore" => UNCHANGED tsVars
  /\ p # "agent" => UNCHANGED agVars
  /\ p # "training" => UNCHANGED trainVars
  /\ p # "policy" => UNCHANGED peVars
  /\ p # "token" => UNCHANGED tkVars
  /\ p # "bulk" => UNCHANGED bulkVars
  /\ p # "async" => UNCHANGED asyncVars

ServicesNext ==
  /\ part' = part
  /\ \/ part = "microtask" /\ Next /\ Others("microtask")
     \/ part = "taskstore" /\ TaskStoreNext /\ Others("taskstore")
     \/ part = "agent" /\ AgentNext /\ Others("agent")
     \/ part = "training" /\ TrainNext /\ Others("training")
     \/ part = "policy" /\ PolicyNext /\ Others("policy")
     \/ part = "token" /\ TokenRenewalNext /\ Others("token")
     \/ part = "bulk" /\ BulkNext /\ Others("bulk")
     \/ part = "async" /\ AsyncNext /\ Others("async")
ServicesSpec == ServicesInit /\ [][ServicesNext]_servicesVars

(* The fairness of each component, owed while that component runs.           *)
FairServicesSpec ==
  /\ ServicesSpec
  \* the manager's goroutines are scheduled, a handler returns in the end; nobody
  \* has to slice a job, to register a worker or to stop
  /\ WF_vars(part = "microtask" /\ ~panicked /\ Dispatch)
  /\ \A c \in Call : WF_vars(part = "microtask" /\ ~panicked /\ Slicing(c))
  /\ \A c \in Chan : WF_vars(part = "microtask" /\ ~panicked /\ Handle(c))
  /\ \A t \in Task : /\ WF_vars(part = "microtask" /\ ~panicked /\ Submit(t))
                   /\ WF_vars(part = "microtask" /\ ~panicked /\ AggregateRead(t))
                   /\ WF_vars(part = "microtask" /\ ~panicked /\ AggregateWrite(t))
  \* the ticker fires again and again, and whoever has started goes on
  /\ WF_tsVars(part = "taskstore" /\ LoopSaves)
  /\ \A s \in Saves : WF_tsVars(part = "taskstore" /\ SaverGoesOn(s))
  /\ WF_tsVars(part = "taskstore" /\ WriterGoesOn)
  /\ WF_tsVars(part = "taskstore" /\ \E g \in Updater : LogProgress(g))
  /\ WF_tsVars(part = "taskstore" /\ SnapshotStep)
  \* handlers and workers are goroutines, and the runs they wait for end
  /\ WF_agVars(part = "agent" /\ \E j \in AgentJob : HandleJob(j))
  /\ WF_agVars(part = "agent"
              /\ \E w \in AgentWorker : TakeJob(w) \/ AddToGroup(w) \/ RunEnded(w))
  \* saves and runs that have begun go on
  /\ \A p \in Saver :
       WF_trainVars(part = "training" /\ (SaveRead(p) \/ SaveWrite(p) \/ SaveRename(p)))
  /\ \A r \in Run : WF_trainVars(part = "training" /\ RunEnds(r))
  \* the reload ticker fires again and again, calls that have begun end
  /\ WF_peVars(part = "policy" /\ ReloadStep)
  /\ WF_peVars(part = "policy" /\ PutStep)
  /\ WF_peVars(part = "policy" /\ AdminStep)
  \* the renewal loop runs on, and time passes
  /\ WF_tkVars(part = "token" /\ (RenewalStep \/ SecondPasses))
  \* writes have deadlines and sources end
  /\ WF_bulkVars(part = "bulk" /\ BulkStep)
  \* the operations of the jobs end
  /\ \A j \in AsyncJob : WF_asyncVars(part = "async" /\ WorkerStep(j))

\* Work that has been taken on stays known, in one place: tasks (TaskStore), jobs
\* of the agent, of the trainer and of the connectors, whoever saves, stops, polls
\* or starts beside it; with the types of these components.
WorkKept ==
  /\ part = "microtask" => TypeOK
  /\ part = "taskstore" => TaskStoreTypeOK /\ FileLogCoversDags
  /\ part = "agent" => AgentTypeOK /\ AcceptedInOnePlace /\ StopWaitsForRuns
  /\ part = "training" => TrainTypeOK /\ OneRunPerJob /\ MetaFollowsJob
  /\ part = "async" => AsyncTypeOK /\ DoneHasResult /\ FinishedSurvives

\* What a send over RDMA answers is so: "ok" only after all that it stands for.
SendsHold ==
  /\ part = "bulk" => BulkTypeOK /\ OkSentAll /\ HedgeOkEnded

\* What the clock allows: the policy's limiter lets no more pass than time gives,
\* and the vault's token is renewed before it expires.
InTime ==
  /\ part = "policy" => PolicyTypeOK /\ RateHolds
  /\ part = "token" => TokenTypeOK /\ RenewedInTime

\* Calls return and jobs end: Snapshot, the agent's jobs, the trainer's calls,
\* the connectors' jobs, SendLarge and the vault's Close.
WorkEnds ==
  /\ SnapshotReturns /\ AcceptedEnds /\ TrainCallsReturn /\ JobsEnd
  /\ SendLargeReturns /\ CloseReturns

\* Copies catch up with what they copy, through lost races and failures: the
\* state file with the tasks in memory, the policy cache with the database.
CopiesCatchUp ==
  /\ MemoryReachesFile /\ CacheCatchesUp
=============================================================================
