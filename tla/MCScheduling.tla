--------------------------- MODULE MCScheduling -----------------------------
(* The scheduler, and the rotation of the files its journal is written to.   *)
(* They share no state: part tells which of them a behaviour is of, and the  *)
(* others stay where they start.                                             *)
EXTENDS Scheduler, JournalFile

VARIABLE part   \* the component that runs

Parts == {"scheduler", "journal"}
schedulingVars == <<part, vars, jfVars>>

SchedulingInit ==
  /\ part \in Parts
  /\ Init
  /\ JournalInit /\ (part # "journal" => jfToFile)

Others(p) ==
  /\ p # "scheduler" => UNCHANGED vars
  /\ p # "journal" => UNCHANGED jfVars

SchedulingNext ==
  /\ part' = part
  /\ \/ part = "scheduler" /\ Next /\ Others("scheduler")
     \/ part = "journal" /\ JournalNext /\ Others("journal")
SchedulingSpec == SchedulingInit /\ [][SchedulingNext]_schedulingVars

(* The fairness of each component, owed while that component runs.           *)
FairSchedulingSpec ==
  /\ SchedulingSpec
  \* goroutines that can go on do so: a sync.Mutex hands the lock to one that has
  \* waited for a millisecond, and a stopped loop, which selects between a tick
  \* and the closed channel at random, does not choose the tick for ever
  /\ \A s \in Sched : SF_vars(part = "scheduler" /\ ~panicked /\ (Apply(s) \/ Record(s)))
  /\ \A l \in Loop : /\ WF_vars(part = "scheduler" /\ ~panicked /\ ReadKPIs(l))
                   /\ SF_vars(part = "scheduler" /\ ~panicked /\ LoopEnd(l))
  /\ \A j \in Journal : WF_vars(part = "scheduler" /\ ~panicked /\ (WriterEmit(j) \/ WriterEnd(j)))
  /\ WF_vars(part = "scheduler" /\ ~panicked /\ (NoNewJournal \/ \E j \in Journal : OpenJournal(j)))

\* The journal's files have every entry, in the order of the calls; with the types.
JournalsSafe ==
  /\ part = "scheduler" => TypeOK
  /\ part = "journal" => JournalTypeOK /\ EntriesInOrder
=============================================================================
