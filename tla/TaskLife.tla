------------------------------ MODULE TaskLife ------------------------------
(***************************************************************************)
(* What MicroTaskManager promises about one microtask, without queues,     *)
(* goroutines or workers: a task is created once, runs one attempt at a    *)
(* time, is tried at most MaxRetries + 1 times, and the verdict "done" or  *)
(* "failed" is final.  MicroTask.tla is shown to implement this module.    *)
(***************************************************************************)
EXTENDS Naturals

CONSTANTS Task,       \* microtasks that may ever be created
          MaxRetries  \* MicroTask.MaxRetries

VARIABLES status,    \* [Task -> Status]
          attempts   \* [Task -> number of failed attempts]

lifeVars == <<status, attempts>>

Status == {"absent", "pending", "running", "done", "failed"}

Become(t, from, to) == /\ status[t] = from
                       /\ status' = [status EXCEPT ![t] = to]

Create(t)  == Become(t, "absent", "pending") /\ UNCHANGED attempts
Start(t)   == Become(t, "pending", "running") /\ UNCHANGED attempts
Succeed(t) == Become(t, "running", "done") /\ UNCHANGED attempts

\* A failed attempt is retried while the budget lasts, and is final after it.
Fail(t) ==
  /\ attempts' = [attempts EXCEPT ![t] = @ + 1]
  /\ \/ attempts[t] < MaxRetries /\ Become(t, "running", "pending")
     \/ attempts[t] = MaxRetries /\ Become(t, "running", "failed")

LifeInit == /\ status = [t \in Task |-> "absent"]
            /\ attempts = [t \in Task |-> 0]

LifeNext == \E t \in Task : Create(t) \/ Start(t) \/ Succeed(t) \/ Fail(t)

LifeSpec == LifeInit /\ [][LifeNext]_lifeVars
=============================================================================
