-------------------------- MODULE SchedulerProofs ---------------------------
(* Proofs about Scheduler, about JournalFile, and about the two together.    *)
EXTENDS MCScheduling, SequenceTheorems, WellFoundedInduction, TLAPS

\* A plan decides about tasks and names nodes.
LEMMA PlanOf ==
  ASSUME NEW p \in Plan
  PROVE  DOMAIN p \subseteq Task /\ \A t \in DOMAIN p : p[t] \in Node
BY DEF Plan

\* Taking a task out of a plan leaves a plan.
LEMMA RestPlan ==
  ASSUME NEW s \in Sched, NEW t, plan[s] \in Plan
  PROVE  /\ Rest(s, t) \in Plan
         /\ DOMAIN Rest(s, t) = DOMAIN plan[s] \ {t}
<1> DEFINE D == DOMAIN plan[s] \ {t}
<1>1. D \in SUBSET Task /\ \A u \in D : plan[s][u] \in Node
  BY PlanOf
<1>2. Rest(s, t) \in [D -> Node] /\ DOMAIN Rest(s, t) = D
  BY <1>1 DEF Rest
<1> HIDE DEF D
<1>3. Rest(s, t) \in Plan
  BY <1>1, <1>2 DEF Plan
<1> QED BY <1>2, <1>3 DEF D

\* The empty plan is a plan.
LEMMA NoPlanPlan == NoPlan \in Plan /\ DOMAIN NoPlan = {}
<1>1. NoPlan \in [{} -> Node]
  BY DEF NoPlan
<1> QED BY <1>1 DEF Plan, NoPlan

\* The initial state has the types.
LEMMA TypeInit == Init => TypeOK
<1> SUFFICES ASSUME Init PROVE TypeOK
  OBVIOUS
<1>1. \A s \in Sched : CallOK(s)
  BY NoPlanPlan DEF Init, CallOK
<1>2. plan \in [Sched -> Plan]
  BY NoPlanPlan DEF Init
<1>3. /\ closed \in [Journal -> BOOLEAN]
      /\ queued \in [Journal -> 0..JournalCap]
      /\ writer \in [Journal -> {"unused", "on", "gone"}]
  BY SchedulerAssumption DEF Init
<1>4. /\ hasPool \in BOOLEAN /\ poolStuck \in BOOLEAN /\ panicked \in BOOLEAN
      /\ overlapped \in BOOLEAN
  BY DEF Init
<1>5. /\ mu \in Sched \cup {"setter", None} /\ loopStop \in Loop \cup {None}
      /\ journal \in Journal \cup {None}
      /\ status \in [Task -> {"absent", "pending", "running", "failed"}]
      /\ node \in [Task -> Node \cup {None}] /\ decided \in [Task -> Node \cup {None}]
      /\ loop \in [Loop -> {"unused", "on", "stopping", "gone"}]
      /\ pc \in [Sched -> Places] /\ snap \in [Sched -> SUBSET Task]
      /\ cur \in [Sched -> Task \cup {None}]
      /\ outcome \in [Sched -> {"none", "allocated", "rejected", "failed"}]
      /\ jrec \in [Sched -> Journal \cup {None}]
  BY DEF Init, Places
<1> QED BY <1>1, <1>2, <1>3, <1>4, <1>5 DEF TypeOK

\* A step of one call leaves the places of the others alone.
LEMMA OthersOK ==
  ASSUME NEW s \in Sched, \A o \in Sched : CallOK(o), CallOK(s)',
         \A o \in Sched \ {s} :
           /\ pc'[o] = pc[o] /\ snap'[o] = snap[o] /\ plan'[o] = plan[o]
           /\ cur'[o] = cur[o] /\ outcome'[o] = outcome[o] /\ jrec'[o] = jrec[o]
  PROVE  \A o \in Sched : CallOK(o)'
BY DEF CallOK

\* Every step of the environment, of a loop or of a journal keeps the types.
LEMMA TypeOutside ==
  ASSUME TypeOK,
         \/ Environment
         \/ \E l \in Loop : ReadKPIs(l) \/ LoopEnd(l)
         \/ \E j \in Journal : WriterEmit(j) \/ WriterEnd(j) \/ OpenJournal(j)
         \/ NoNewJournal
  PROVE  TypeOK'
<1> USE SchedulerAssumption DEF taskVars, loopVars, callVars, jourVars, poolVars, Goto, MuFree
<1>1. ASSUME NEW t \in Task, AddTask(t) \/ RemoveTask(t) PROVE TypeOK'
  BY <1>1 DEF TypeOK, CallOK, AddTask, RemoveTask
<1>2. ASSUME NEW l \in Loop, StartLoop(l) \/ LoopEnd(l) PROVE TypeOK'
  BY <1>2 DEF TypeOK, CallOK, StartLoop, LoopEnd
<1>3. ASSUME StopLoop PROVE TypeOK'
  BY <1>3 DEF TypeOK, CallOK, StopLoop
<1>4. ASSUME NEW s \in Sched,
             \/ s \in Loop /\ (Tick(s) \/ ReadKPIs(s))
             \/ s \in Caller /\ CallSchedule(s)
      PROVE  TypeOK'
  <2>1. CallOK(s)'
    BY <1>4 DEF TypeOK, CallOK, Tick, ReadKPIs, CallSchedule
  <2>2. \A o \in Sched : CallOK(o)'
    BY <1>4, <2>1, OthersOK DEF TypeOK, Tick, ReadKPIs, CallSchedule
  <2> QED BY <1>4, <2>2 DEF TypeOK, Places, Tick, ReadKPIs, CallSchedule
<1>5. ASSUME CloseJournal \/ NoNewJournal \/ AddNode PROVE TypeOK'
  <2>1. CASE CloseJournal
    BY <2>1 DEF TypeOK, CallOK, CloseJournal
  <2>2. CASE NoNewJournal
    BY <2>2 DEF TypeOK, CallOK, NoNewJournal
  <2>3. CASE AddNode
    BY <2>3 DEF TypeOK, CallOK, AddNode
  <2> QED BY <1>5, <2>1, <2>2, <2>3
<1>6. ASSUME NEW j \in Journal, WriterEmit(j) \/ WriterEnd(j) \/ OpenJournal(j)
      PROVE  TypeOK'
  BY <1>6 DEF TypeOK, CallOK, WriterEmit, WriterEnd, WriterDone, OpenJournal
<1> QED BY <1>1, <1>2, <1>3, <1>4, <1>5, <1>6 DEF Environment, Sched

\* Every step of a call keeps the types.
LEMMA TypeCall ==
  ASSUME TypeOK, NEW s \in Sched, Apply(s) \/ Record(s)
  PROVE  TypeOK'
<1> USE SchedulerAssumption DEF taskVars, loopVars, callVars, jourVars, poolVars, Goto, MuFree
<1>0. /\ \A o \in Sched : CallOK(o)
      /\ plan[s] \in Plan /\ DOMAIN plan[s] \subseteq Task
      /\ \A t \in DOMAIN plan[s] : plan[s][t] \in Node
  BY PlanOf DEF TypeOK
<1>1. CASE Begin(s)
  <2>1. CallOK(s)'
    BY <1>0, <1>1 DEF Begin, TypeOK, CallOK
  <2>2. \A o \in Sched : CallOK(o)'
    BY <1>0, <1>1, <2>1, OthersOK DEF Begin, TypeOK
  <2> QED BY <1>1, <2>2 DEF Begin, TypeOK, Places, Applying
<1>2. CASE Decide(s)
  <2>0. PICK T \in SUBSET snap[s] :
          \E p \in [T -> Node] : plan' = [plan EXCEPT ![s] = p]
    BY <1>2 DEF Decide
  <2>1. PICK p \in [T -> Node] : plan' = [plan EXCEPT ![s] = p]
    BY <2>0
  <2>2. p \in Plan
    BY <2>0, <2>1 DEF TypeOK, Plan
  <2>3. CallOK(s)'
    BY <1>0, <1>2, <2>1 DEF Decide, TypeOK, CallOK
  <2>4. \A o \in Sched : CallOK(o)'
    BY <1>0, <1>2, <2>1, <2>3, OthersOK DEF Decide, TypeOK
  <2> QED BY <1>2, <2>1, <2>2, <2>4 DEF Decide, TypeOK, Places
<1>3. CASE AlgorithmError(s) \/ Finish(s)
  <2>1. CallOK(s)'
    BY <1>0, <1>3 DEF AlgorithmError, Finish, TypeOK, CallOK
  <2>2. \A o \in Sched : CallOK(o)'
    BY <1>0, <1>3, <2>1, OthersOK DEF AlgorithmError, Finish, TypeOK
  <2> QED BY <1>3, <2>2 DEF AlgorithmError, Finish, TypeOK, Places
<1>4. ASSUME NEW t \in Task, Pick(s, t) PROVE TypeOK'
  <2>1. Rest(s, t) \in Plan /\ DOMAIN Rest(s, t) = DOMAIN plan[s] \ {t}
    BY <1>0, RestPlan
  <2>2. CallOK(s)'
    <3>1. CASE status[t] = "absent"
      BY <1>0, <1>4, <2>1, <3>1 DEF Pick, TypeOK, CallOK
    <3>2. CASE status[t] # "absent"
      BY <1>0, <1>4, <3>2 DEF Pick, TypeOK, CallOK
    <3> QED BY <3>1, <3>2
  <2>3. \A o \in Sched : CallOK(o)'
    BY <1>0, <1>4, <2>2, OthersOK DEF Pick, TypeOK
  <2>4. plan' \in [Sched -> Plan]
    BY <1>4, <2>1 DEF Pick, TypeOK
  <2>5. pc' \in [Sched -> Places] /\ cur' \in [Sched -> Task \cup {None}]
        /\ outcome' \in [Sched -> {"none", "allocated", "rejected", "failed"}]
    BY <1>4 DEF Pick, TypeOK, Places
  <2> QED BY <1>4, <2>3, <2>4, <2>5 DEF Pick, TypeOK
<1>5. CASE Start(s)
  <2>0. cur[s] \in Task /\ plan[s][cur[s]] \in Node
    BY <1>0, <1>5 DEF Start, CallOK
  <2>1. CallOK(s)'
    BY <1>0, <1>5 DEF Start, TypeOK, CallOK
  <2>2. \A o \in Sched : CallOK(o)'
    BY <1>0, <1>5, <2>1, OthersOK DEF Start, TypeOK
  <2>3. /\ status' \in [Task -> {"absent", "pending", "running", "failed"}]
        /\ node' \in [Task -> Node \cup {None}]
        /\ decided' \in [Task -> Node \cup {None}]
    BY <1>5, <2>0 DEF Start, MarkRunning, Decision, TypeOK
  <2> QED BY <1>5, <2>2, <2>3 DEF Start, TypeOK, Places
<1>6. CASE CallListeners(s) \/ MarkRejected(s)
  <2>1. Rest(s, cur[s]) \in Plan /\ DOMAIN Rest(s, cur[s]) = DOMAIN plan[s] \ {cur[s]}
    BY <1>0, RestPlan
  <2>2. CallOK(s)'
    BY <1>0, <1>6, <2>1 DEF CallListeners, MarkRejected, NextOf, TypeOK, CallOK
  <2>3. \A o \in Sched : CallOK(o)'
    BY <1>0, <1>6, <2>2, OthersOK DEF CallListeners, MarkRejected, NextOf, TypeOK
  <2>4. status' \in [Task -> {"absent", "pending", "running", "failed"}]
    BY <1>6 DEF CallListeners, MarkRejected, TypeOK
  <2> QED BY <1>6, <2>1, <2>3, <2>4
          DEF CallListeners, MarkRejected, NextOf, TypeOK, Places
<1>7. CASE Refused(s) \/ AllocationTimeout(s) \/ TryFallbacks(s)
  <2>1. CallOK(s)'
    BY <1>0, <1>7 DEF Refused, AllocationTimeout, TryFallbacks, TypeOK, CallOK
  <2>2. \A o \in Sched : CallOK(o)'
    BY <1>0, <1>7, <2>1, OthersOK DEF Refused, AllocationTimeout, TryFallbacks, TypeOK
  <2>3. CASE Refused(s) \/ AllocationTimeout(s)
    BY <2>2, <2>3 DEF Refused, AllocationTimeout, TypeOK, Places
  <2>4. CASE TryFallbacks(s)
    BY <2>2, <2>4 DEF TryFallbacks, TypeOK, Places
  <2> QED BY <1>7, <2>3, <2>4
<1>8. CASE Record(s)
  <2>1. CallOK(s)'
    BY <1>0, <1>8 DEF Record, TestJournal, TraceEntry, LoadJournal, CheckClosed, SendEntry,
                      TypeOK, CallOK
  <2>2. \A o \in Sched : CallOK(o)'
    BY <1>0, <1>8, <2>1, OthersOK
       DEF Record, TestJournal, TraceEntry, LoadJournal, CheckClosed, SendEntry, TypeOK
  <2>3. CASE TestJournal(s) \/ TraceEntry(s) \/ CheckClosed(s)
    BY <2>2, <2>3 DEF TestJournal, TraceEntry, CheckClosed, TypeOK, Places
  <2>4. CASE LoadJournal(s)
    <3>1. panicked' \in BOOLEAN
      BY <2>4 DEF LoadJournal
    <3> QED BY <2>2, <2>4, <3>1 DEF LoadJournal, TypeOK, Places
  <2>5. CASE SendEntry(s)
    <3>1. panicked' \in BOOLEAN
      <4>1. closed[jrec[s]] \in BOOLEAN
        BY <1>0, <2>5 DEF TypeOK, CallOK, SendEntry
      <4> QED BY <2>5, <4>1 DEF SendEntry
    <3>2. queued' \in [Journal -> 0..JournalCap]
      <4>1. /\ queued \in [Journal -> 0..JournalCap] /\ JournalCap \in Nat
            /\ jrec[s] \in Journal
        BY <1>0, <2>5 DEF TypeOK, CallOK, SendEntry
      <4>2. CASE queued' = queued
        BY <4>1, <4>2
      <4>3. CASE HasRoom(jrec[s]) /\ queued' = [queued EXCEPT ![jrec[s]] = @ + 1]
        BY <4>1, <4>3 DEF HasRoom
      <4> QED BY <2>5, <4>2, <4>3 DEF SendEntry
    <3> QED BY <2>2, <2>5, <3>1, <3>2 DEF SendEntry, TypeOK, Places
  <2> QED BY <1>8, <2>3, <2>4, <2>5 DEF Record
<1> QED BY <1>1, <1>2, <1>3, <1>4, <1>5, <1>6, <1>7, <1>8 DEF Apply

\* A step that changes nothing keeps the types.
LEMMA TypeStutter == TypeOK /\ UNCHANGED vars => TypeOK'
BY DEF TypeOK, CallOK, vars, taskVars, loopVars, callVars, jourVars, poolVars

\* Type correctness for any number of tasks, nodes, loops, callers and journals:
\* every call of Schedule works on a task of its own plan until it has recorded
\* the outcome, and a journal never holds more than its channel takes.
THEOREM SchedulerTypeCorrect == Spec => []TypeOK
<1>1. TypeOK /\ [Next]_vars => TypeOK'
  BY TypeOutside, TypeCall, TypeStutter DEF Next
<1> QED BY <1>1, TypeInit, PTL DEF Spec
-----------------------------------------------------------------------------
(* The task map: only four kinds of steps touch it.                        *)

\* Which steps change s.tasks or s.decisions.
LEMMA TaskSteps ==
  ASSUME [Next]_vars
  PROVE  \/ UNCHANGED taskVars
         \/ \E t \in Task : AddTask(t) \/ RemoveTask(t)
         \/ \E s \in Sched : Start(s) \/ MarkRejected(s)
<1>1. CASE UNCHANGED vars
  BY <1>1 DEF vars
<1>2. CASE Environment
  BY <1>2 DEF Environment, StartLoop, Tick, StopLoop, CallSchedule, AddNode, CloseJournal
<1>3. ASSUME NEW s \in Sched, Apply(s) \/ Record(s)
      PROVE  UNCHANGED taskVars \/ Start(s) \/ MarkRejected(s)
  BY <1>3 DEF Apply, Begin, Decide, AlgorithmError, Pick, CallListeners, Finish, Refused,
              AllocationTimeout, TryFallbacks, Record, TestJournal, TraceEntry, LoadJournal,
              CheckClosed, SendEntry
<1>4. ASSUME NEW l \in Loop, ReadKPIs(l) \/ LoopEnd(l) PROVE UNCHANGED taskVars
  BY <1>4 DEF ReadKPIs, LoopEnd
<1>5. ASSUME NEW j \in Journal, WriterEmit(j) \/ WriterEnd(j) \/ OpenJournal(j)
      PROVE  UNCHANGED taskVars
  BY <1>5 DEF WriterEmit, WriterEnd, OpenJournal
<1>6. CASE NoNewJournal
  BY <1>6 DEF NoNewJournal
<1> QED BY <1>1, <1>2, <1>3, <1>4, <1>5, <1>6 DEF Next

\* What a call works on is a task of its plan, with a node.
LEMMA CurrentTask ==
  ASSUME TypeOK, NEW s \in Sched, Start(s) \/ MarkRejected(s)
  PROVE  cur[s] \in Task /\ plan[s][cur[s]] \in Node
<1>1. CallOK(s) /\ plan[s] \in Plan
  BY DEF TypeOK
<1> QED BY <1>1, PlanOf DEF CallOK, Start, MarkRejected

\* A running task is where s.decisions says: the assignment and the decision are
\* written in one critical section, and every other writer of the task map takes
\* the task out of "running".
THEOREM SchedulerRunsWhereDecided == Spec => []RunsWhereDecided
<1>1. Init => RunsWhereDecided
  BY DEF Init, RunsWhereDecided
<1>2. TypeOK /\ RunsWhereDecided /\ [Next]_vars => RunsWhereDecided'
  <2> SUFFICES ASSUME TypeOK, RunsWhereDecided, [Next]_vars PROVE RunsWhereDecided'
    OBVIOUS
  <2>1. CASE UNCHANGED taskVars
    BY <2>1 DEF RunsWhereDecided, taskVars
  <2>2. ASSUME NEW t \in Task, AddTask(t) \/ RemoveTask(t) PROVE RunsWhereDecided'
    BY <2>2 DEF RunsWhereDecided, AddTask, RemoveTask, TypeOK
  <2>3. ASSUME NEW s \in Sched, Start(s) PROVE RunsWhereDecided'
    BY <2>3, CurrentTask DEF RunsWhereDecided, Start, MarkRunning, Decision, TypeOK
  <2>4. ASSUME NEW s \in Sched, MarkRejected(s) PROVE RunsWhereDecided'
    BY <2>4, CurrentTask DEF RunsWhereDecided, MarkRejected, TypeOK
  <2> QED BY <2>1, <2>2, <2>3, <2>4, TaskSteps
<1> QED BY <1>1, <1>2, SchedulerTypeCorrect, PTL DEF Spec

\* A removed task stays removed until AddTask adds it again, whatever plans made
\* before the removal are still being applied.
THEOREM SchedulerRemovedStaysRemoved == Spec => RemovedStaysRemoved
<1> DEFINE Stay == \A t \in Task : status[t] = "absent" => status'[t] \in {"absent", "pending"}
<1>1. TypeOK /\ [Next]_vars => Stay
  <2> SUFFICES ASSUME TypeOK, [Next]_vars PROVE Stay
    OBVIOUS
  <2>1. CASE UNCHANGED taskVars
    BY <2>1 DEF taskVars
  <2>2. ASSUME NEW t \in Task, AddTask(t) \/ RemoveTask(t) PROVE Stay
    BY <2>2 DEF AddTask, RemoveTask, TypeOK
  <2>3. ASSUME NEW s \in Sched, Start(s) \/ MarkRejected(s) PROVE Stay
    BY <2>3, CurrentTask DEF Start, MarkRunning, MarkRejected, TypeOK
  <2> QED BY <2>1, <2>2, <2>3, TaskSteps
<1>2. TypeOK /\ [Next]_vars => [Stay]_vars
  BY <1>1
<1> QED BY <1>2, SchedulerTypeCorrect, PTL DEF Spec, RemovedStaysRemoved

-----------------------------------------------------------------------------
(* Without overlapping calls.                                              *)

\* The one call that is at work has only tasks before it that do not run, apart
\* from the one it has just started.
Sole(s) ==
  /\ \A o \in Sched \ {s} : ~Applying(o)
  /\ \A t \in snap[s] \cup DOMAIN plan[s] :
       status[t] = "running" => outcome[s] = "allocated" /\ t = cur[s]

SoleInv == ~overlapped => \A s \in Sched : Applying(s) => Sole(s)
\* The history of overlaps is only ever added to, and only by Begin.
LEMMA OverlapGrows ==
  ASSUME TypeOK, [Next]_vars
  PROVE  overlapped => overlapped'
<1>1. CASE UNCHANGED vars
  BY <1>1 DEF vars
<1>2. CASE Environment
  BY <1>2 DEF Environment, AddTask, RemoveTask, StartLoop, Tick, StopLoop, CallSchedule,
              AddNode, CloseJournal
<1>3. ASSUME NEW s \in Sched, Apply(s) \/ Record(s) PROVE overlapped => overlapped'
  BY <1>3 DEF Apply, Begin, Decide, AlgorithmError, Pick, Start, CallListeners, MarkRejected,
              Finish, Refused, AllocationTimeout, TryFallbacks, Record, TestJournal,
              TraceEntry, LoadJournal, CheckClosed, SendEntry
<1>4. CASE \/ \E l \in Loop : ReadKPIs(l) \/ LoopEnd(l)
           \/ \E j \in Journal : WriterEmit(j) \/ WriterEnd(j) \/ OpenJournal(j)
           \/ NoNewJournal
  BY <1>4 DEF ReadKPIs, LoopEnd, WriterEmit, WriterEnd, OpenJournal, NoNewJournal
<1> QED BY <1>1, <1>2, <1>3, <1>4 DEF Next

\* Steps outside the calls start no task and let no call begin to apply.
LEMMA SoleOutside ==
  ASSUME TypeOK, SoleInv, ~overlapped', overlapped => overlapped',
         \/ UNCHANGED vars
         \/ Environment
         \/ \E l \in Loop : ReadKPIs(l) \/ LoopEnd(l)
         \/ \E j \in Journal : WriterEmit(j) \/ WriterEnd(j) \/ OpenJournal(j)
         \/ NoNewJournal
  PROVE  SoleInv'
<1>1. UNCHANGED <<snap, plan, cur, outcome>>
  BY DEF vars, callVars, Environment, AddTask, RemoveTask, StartLoop, Tick, StopLoop,
         CallSchedule, AddNode, CloseJournal, ReadKPIs, LoopEnd, WriterEmit, WriterEnd, OpenJournal,
         NoNewJournal
<1>2. \A t \in Task : status'[t] = "running" => status[t] = "running"
  BY DEF TypeOK, vars, taskVars, Environment, AddTask, RemoveTask, StartLoop, Tick, StopLoop,
         CallSchedule, AddNode, CloseJournal, ReadKPIs, LoopEnd, WriterEmit, WriterEnd, OpenJournal,
         NoNewJournal
<1>3. \A o \in Sched : Applying(o)' => Applying(o)
  <2>1. CASE pc' = pc
    BY <2>1 DEF Applying
  <2>2. ASSUME NEW l \in Loop, Tick(l) \/ ReadKPIs(l)
        PROVE  \A o \in Sched : Applying(o)' => Applying(o)
    BY <2>2 DEF Tick, ReadKPIs, Goto, Applying, TypeOK, Sched
  <2>3. ASSUME NEW c \in Caller, CallSchedule(c)
        PROVE  \A o \in Sched : Applying(o)' => Applying(o)
    BY <2>3 DEF CallSchedule, Goto, Applying, TypeOK, Sched
  <2> QED BY <2>1, <2>2, <2>3
          DEF vars, Environment, AddTask, RemoveTask, StartLoop, StopLoop, AddNode, CloseJournal,
              LoopEnd, WriterEmit, WriterEnd, OpenJournal, NoNewJournal
<1>4. \A o \in Sched : snap[o] \cup DOMAIN plan[o] \subseteq Task
  BY PlanOf DEF TypeOK
<1> QED BY <1>1, <1>2, <1>3, <1>4 DEF SoleInv, Sole

\* A call that begins alone finds its tasks pending; a call that goes on alone
\* starts only the task it is at.
LEMMA SoleCall ==
  ASSUME TypeOK, SoleInv, ~overlapped', overlapped => overlapped',
         NEW s \in Sched, Apply(s) \/ Record(s)
  PROVE  SoleInv'
<1> USE DEF Goto, taskVars, callVars
<1>0. /\ CallOK(s) /\ plan[s] \in Plan /\ snap[s] \subseteq Task /\ DOMAIN plan[s] \subseteq Task
      /\ pc \in [Sched -> Places] /\ snap \in [Sched -> SUBSET Task]
      /\ plan \in [Sched -> Plan] /\ cur \in [Sched -> Task \cup {None}]
      /\ outcome \in [Sched -> {"none", "allocated", "rejected", "failed"}]
      /\ status \in [Task -> {"absent", "pending", "running", "failed"}]
  BY PlanOf DEF TypeOK
<1>1. CASE Begin(s)
  <2>1. \A o \in Sched \ {s} : ~Applying(o) /\ ~Applying(o)'
    BY <1>0, <1>1 DEF Begin, Applying
  <2>2. \A t \in snap'[s] \cup DOMAIN plan'[s] : status'[t] # "running"
    BY <1>0, <1>1 DEF Begin, Waiting, CallOK
  <2> QED BY <2>1, <2>2 DEF SoleInv, Sole
<1>2. CASE ~Begin(s)
  <2>0. Applying(s)
    BY <1>2 DEF Apply, Record, Decide, AlgorithmError, Pick, Start, CallListeners, MarkRejected,
           Finish, Refused, AllocationTimeout, TryFallbacks, TestJournal, TraceEntry,
           LoadJournal, CheckClosed, SendEntry, Applying
  <2>1. Sole(s)
    BY <2>0 DEF SoleInv
  <2>2. \A o \in Sched \ {s} : pc'[o] = pc[o]
    BY <1>0, <1>2 DEF Apply, Record, Decide, AlgorithmError, Pick, Start, CallListeners,
           MarkRejected, NextOf, Finish, Refused, AllocationTimeout, TryFallbacks,
           TestJournal, TraceEntry, LoadJournal, CheckClosed, SendEntry
  <2>3. \A o \in Sched \ {s} : ~Applying(o)'
    BY <2>1, <2>2 DEF Sole, Applying
  <2> DEFINE Fine == \A t \in snap'[s] \cup DOMAIN plan'[s] :
                       status'[t] = "running" => outcome'[s] = "allocated" /\ t = cur'[s]
  <2>4. Applying(s)' => Fine
    <3>1. CASE Decide(s)
      <4>1. plan'[s] \in UNION {[T -> Node] : T \in SUBSET snap[s]} /\ snap'[s] = {}
        BY <1>0, <3>1 DEF Decide
      <4>2. DOMAIN plan'[s] \subseteq snap[s]
        BY <4>1
      <4>3. outcome[s] = "none"
        BY <1>0, <3>1 DEF Decide, CallOK
      <4> QED BY <2>1, <3>1, <4>1, <4>2, <4>3 DEF Decide, Sole
    <3>2. CASE AlgorithmError(s) \/ Finish(s)
      BY <1>0, <3>2 DEF AlgorithmError, Finish, Applying
    <3>3. ASSUME NEW t \in Task, Pick(s, t) PROVE Fine
      <4>1. outcome[s] = "none"
        BY <1>0, <3>3 DEF Pick, CallOK
      <4>2. DOMAIN plan'[s] \subseteq DOMAIN plan[s] /\ snap' = snap /\ status' = status
        <5>1. DOMAIN Rest(s, t) = DOMAIN plan[s] \ {t}
          BY <1>0, RestPlan
        <5>2. plan'[s] \in {plan[s], Rest(s, t)}
          BY <1>0, <3>3 DEF Pick
        <5>3. snap' = snap /\ status' = status
          BY <3>3 DEF Pick
        <5> QED BY <5>1, <5>2, <5>3
      <4> QED BY <2>1, <4>1, <4>2 DEF Sole
    <3>4. CASE Start(s)
      <4>1. outcome[s] = "none" /\ cur[s] \in Task
        BY <1>0, <3>4, CurrentTask DEF Start, CallOK
      <4>2. \A t \in Task \ {cur[s]} : status'[t] = status[t]
        BY <1>0, <3>4 DEF Start, MarkRunning
      <4>3. outcome'[s] = "allocated" /\ cur' = cur /\ plan' = plan /\ snap' = snap
        BY <1>0, <3>4 DEF Start
      <4> QED BY <1>0, <2>1, <4>1, <4>2, <4>3 DEF Sole
    <3>5. CASE CallListeners(s) \/ MarkRejected(s)
      <4>1. DOMAIN plan'[s] = DOMAIN plan[s] \ {cur[s]} /\ snap'[s] = {}
        BY <1>0, <3>5, RestPlan DEF CallListeners, MarkRejected, NextOf, CallOK
      <4>2. \A t \in Task : status'[t] = "running" => status[t] = "running"
        BY <1>0, <3>5 DEF CallListeners, MarkRejected
      <4> QED BY <1>0, <2>1, <4>1, <4>2 DEF Sole
    <3>6. CASE Refused(s) \/ AllocationTimeout(s)
      <4>1. outcome[s] = "none"
        BY <1>0, <3>6 DEF Refused, AllocationTimeout, CallOK
      <4>2. UNCHANGED <<status, snap, plan>>
        BY <3>6 DEF Refused, AllocationTimeout
      <4> QED BY <2>1, <4>1, <4>2 DEF Sole
    <3>7. CASE TryFallbacks(s) \/ Record(s)
      <4>1. UNCHANGED <<status, snap, plan, cur, outcome>>
        BY <3>7 DEF TryFallbacks, Record, TestJournal, TraceEntry, LoadJournal, CheckClosed,
               SendEntry
      <4> QED BY <2>1, <4>1 DEF Sole
    <3> QED BY <1>2, <3>1, <3>2, <3>3, <3>4, <3>5, <3>6, <3>7 DEF Apply
  <2> HIDE DEF Fine
  <2>5. \A o \in Sched : Applying(o)' => o = s
    BY <2>3
  <2>6. Applying(s)' => Sole(s)'
    BY <2>3, <2>4 DEF Sole, Fine
  <2> QED BY <2>5, <2>6 DEF SoleInv
<1> QED BY <1>1, <1>2

\* While calls do not overlap, whatever AddTask, RemoveTask, the journal and the
\* loop control do, a running task is not started again.
THEOREM SchedulerStartedOnce == Spec => StartedOnce
<1> DEFINE Once == \A t \in Task : status[t] = "running" /\ ~overlapped' =>
                     ~\E s \in Sched : pc[s] = "start" /\ cur[s] = t /\ pc'[s] = "record"
<1>1. Init => SoleInv
  BY DEF Init, SoleInv, Applying
<1>2. TypeOK /\ SoleInv /\ [Next]_vars => SoleInv'
  <2> SUFFICES ASSUME TypeOK, SoleInv, [Next]_vars PROVE SoleInv'
    OBVIOUS
  <2>1. CASE overlapped'
    BY <2>1 DEF SoleInv
  <2>2. CASE ~overlapped'
    BY <2>2, OverlapGrows, SoleOutside, SoleCall DEF Next
  <2> QED BY <2>1, <2>2
<1>3. TypeOK /\ SoleInv /\ [Next]_vars => Once
  <2> SUFFICES ASSUME TypeOK, SoleInv, [Next]_vars, ~overlapped',
                      NEW s \in Sched, pc[s] = "start", cur[s] \in Task,
                      status[cur[s]] = "running"
               PROVE  FALSE
    OBVIOUS
  <2>1. Sole(s)
    BY OverlapGrows DEF SoleInv, Applying
  <2>2. cur[s] \in DOMAIN plan[s] /\ outcome[s] = "none"
    BY DEF TypeOK, CallOK
  <2> QED BY <2>1, <2>2 DEF Sole
<1>4. TypeOK /\ SoleInv /\ [Next]_vars => [Once]_vars
  BY <1>3
<1> QED BY <1>1, <1>2, <1>4, SchedulerTypeCorrect, PTL DEF Spec, StartedOnce

-----------------------------------------------------------------------------
(* What a call of Schedule waits for, and how far it has to go: with the      *)
(* fairness of goroutines, which is TLC's, this is why it returns.            *)

\* The guards of the steps of a call.
Ready(s) ==
  \/ pc[s] \in {"allocate", "record", "write", "check", "send"}
  \/ pc[s] \in {"kpis", "nodes"} /\ ~poolStuck
  \/ pc[s] \in {"begin", "next", "start", "trace"} /\ MuFree
  \/ pc[s] = "recorded" /\ outcome[s] # "none" /\ MuFree

\* The first places of a call, before it has a plan.
Before == {"kpis", "begin", "nodes"}

\* How many places are ahead of a call before its next task, or before its plan.
Ahead(p) ==
  CASE p = "next" -> 9 [] p \in {"allocate", "start"} -> 8 [] p = "record" -> 7
    [] p \in {"trace", "write"} -> 6 [] p = "check" -> 5 [] p = "send" -> 4
    [] p \in {"recorded", "kpis"} -> 3 [] p \in {"fallbacks", "begin"} -> 2
    [] p = "nodes" -> 1 [] p = "idle" -> 0

\* A step of a call brings it closer to its end: to its plan, to the end of one task,
\* or past one task of the plan.
Closer(s) ==
  \/ pc'[s] = "idle"
  \/ pc[s] \in Before /\ pc'[s] \notin Before
  \/ (pc[s] \in Before <=> pc'[s] \in Before)
     /\ \/ plan'[s] = plan[s] /\ Ahead(pc'[s]) < Ahead(pc[s])
        \/ DOMAIN plan'[s] \subseteq DOMAIN plan[s] /\ DOMAIN plan'[s] # DOMAIN plan[s]

\* Without a pool nothing is ever stuck, and the lock is kept by nobody but the path
\* setter.
NotStuck ==
  /\ ~hasPool => /\ ~poolStuck /\ mu \in {None, "setter"}
                 /\ \A s \in Sched : pc[s] \notin {"allocate", "fallbacks"} /\ outcome[s] # "failed"
  /\ \A s \in Sched : pc[s] \in {"record", "trace", "write", "check", "send", "recorded"} =>
       outcome[s] # "none"

\* A call without a pool can go on, or the path setter can, who is on its way out.
CallsGoOn ==
  ~hasPool => \A s \in Sched : pc[s] # "idle" => Ready(s) \/ mu = "setter"

\* What a call does brings it closer, or panics; what others do leaves it where it is.
CallsComeCloser ==
  [][\A s \in Sched : pc[s] # "idle" =>
        /\ Closer(s) \/ (pc'[s] = pc[s] /\ plan'[s] = plan[s])
        /\ Apply(s) \/ Record(s) => Closer(s) \/ panicked']_vars

\* A journal whose writer has ended was closed and has been written; whoever set the
\* path aside has left a writer.
WriterInv ==
  /\ journal # None => writer[journal] # "unused"
  /\ \A j \in Journal :
       /\ closed[j] => writer[j] # "unused"
       /\ writer[j] = "gone" => closed[j] /\ queued[j] = 0

\* A closed journal has its writer until it is empty, and gets no entry any more.
ClosedDrains ==
  [][\A j \in Journal : closed[j] =>
       /\ closed'[j] /\ queued'[j] <= queued[j]
       /\ writer'[j] = "on" \/ (writer'[j] = "gone" /\ queued'[j] = 0)]_vars

\* Nothing is stuck without a pool.
LEMMA NotStuckStep == TypeOK /\ NotStuck /\ [Next]_vars => NotStuck'
<1> SUFFICES ASSUME TypeOK, NotStuck, [Next]_vars PROVE NotStuck'
  OBVIOUS
<1> USE DEF taskVars, loopVars, callVars, jourVars, poolVars, Goto, MuFree
<1>1. CASE UNCHANGED vars
  BY <1>1 DEF vars, NotStuck
<1>2. CASE Environment
  BY <1>2 DEF Environment, AddTask, RemoveTask, StartLoop, Tick, StopLoop, CallSchedule,
              AddNode, CloseJournal, NotStuck, TypeOK
<1>3. ASSUME NEW s \in Sched, Apply(s) PROVE NotStuck'
  <2> USE DEF NotStuck, TypeOK
  <2>1. CASE Begin(s) \/ Decide(s) \/ AlgorithmError(s) \/ Finish(s)
    BY <2>1 DEF Begin, Decide, AlgorithmError, Finish
  <2>2. CASE (\E t \in Task : Pick(s, t)) \/ Start(s)
    BY <2>2 DEF Pick, Start
  <2>3. CASE CallListeners(s) \/ MarkRejected(s)
    BY <2>3 DEF CallListeners, MarkRejected, NextOf
  <2>4. CASE Refused(s) \/ AllocationTimeout(s) \/ TryFallbacks(s)
    BY <2>4 DEF Refused, AllocationTimeout, TryFallbacks
  <2> QED BY <1>3, <2>1, <2>2, <2>3, <2>4 DEF Apply
<1>4. ASSUME NEW s \in Sched, Record(s) PROVE NotStuck'
  <2> USE DEF NotStuck, TypeOK
  <2>1. CASE TestJournal(s) \/ TraceEntry(s)
    BY <2>1 DEF TestJournal, TraceEntry
  <2>2. CASE LoadJournal(s) \/ CheckClosed(s) \/ SendEntry(s)
    BY <2>2 DEF LoadJournal, CheckClosed, SendEntry
  <2> QED BY <1>4, <2>1, <2>2 DEF Record
<1>5. CASE \/ \E l \in Loop : ReadKPIs(l) \/ LoopEnd(l)
           \/ \E j \in Journal : WriterEmit(j) \/ WriterEnd(j) \/ OpenJournal(j)
           \/ NoNewJournal
  BY <1>5 DEF ReadKPIs, LoopEnd, WriterEmit, WriterEnd, OpenJournal, NoNewJournal, NotStuck, TypeOK, Sched
<1> QED BY <1>1, <1>2, <1>3, <1>4, <1>5 DEF Next

\* The invariant of the lock and the pool holds in every state.
LEMMA NotStuckAlways == Spec => [](TypeOK /\ NotStuck)
<1>1. Init => NotStuck
  BY DEF Init, NotStuck
<1> QED BY <1>1, NotStuckStep, SchedulerTypeCorrect, PTL DEF Spec

\* Without a pool a call of Schedule never waits for good: it can go on, or
\* SetJournalPath keeps s.mu, which it leaves without waiting for anybody.
THEOREM CallsGoOnAlways == Spec => []CallsGoOn
<1>1. TypeOK /\ NotStuck => CallsGoOn
  <2> SUFFICES ASSUME TypeOK, NotStuck, ~hasPool, mu # "setter",
                      NEW s \in Sched, pc[s] # "idle"
               PROVE  Ready(s)
    BY DEF CallsGoOn
  <2>1. mu = None /\ ~poolStuck /\ pc[s] \in Places
    BY DEF NotStuck, TypeOK
  <2> QED BY <2>1 DEF NotStuck, Ready, Places, MuFree
<1> QED BY <1>1, NotStuckAlways, PTL

\* What a call does brings it closer to its end.
LEMMA CallCloser ==
  ASSUME TypeOK, NEW s \in Sched, pc[s] # "idle", Apply(s) \/ Record(s)
  PROVE  Closer(s) \/ (panicked' /\ pc'[s] = pc[s] /\ plan'[s] = plan[s])
<1> USE DEF Goto, callVars, TypeOK, Before, Ahead
<1>0. CallOK(s) /\ plan[s] \in Plan
  OBVIOUS
<1>1. CASE Begin(s)
  BY <1>1 DEF Begin, Closer
<1>2. CASE Decide(s)
  BY <1>2 DEF Decide, Closer
<1>3. CASE AlgorithmError(s) \/ Finish(s)
  BY <1>3 DEF AlgorithmError, Finish, Closer
<1>4. ASSUME NEW t \in Task, Pick(s, t) PROVE Closer(s)
  <2>1. DOMAIN Rest(s, t) = DOMAIN plan[s] \ {t}
    BY <1>0, RestPlan
  <2>2. CASE status[t] = "absent"
    BY <1>4, <2>1, <2>2 DEF Pick, Closer
  <2>3. CASE status[t] # "absent"
    BY <1>4, <2>3 DEF Pick, Closer
  <2> QED BY <2>2, <2>3
<1>5. CASE Start(s) \/ Refused(s) \/ AllocationTimeout(s) \/ TryFallbacks(s)
  BY <1>5 DEF Start, Refused, AllocationTimeout, TryFallbacks, Closer
<1>6. CASE CallListeners(s) \/ MarkRejected(s)
  <2>1. DOMAIN Rest(s, cur[s]) = DOMAIN plan[s] \ {cur[s]} /\ cur[s] \in DOMAIN plan[s]
    BY <1>0, <1>6, RestPlan DEF CallOK, CallListeners, MarkRejected
  <2>2. plan'[s] = Rest(s, cur[s]) /\ pc'[s] = "next" /\ pc[s] = "recorded"
    BY <1>6 DEF CallListeners, MarkRejected, NextOf
  <2> QED BY <2>1, <2>2 DEF Closer
<1>7. CASE TestJournal(s) \/ TraceEntry(s) \/ CheckClosed(s) \/ SendEntry(s)
  <2>1. CASE TestJournal(s) \/ TraceEntry(s)
    BY <2>1 DEF TestJournal, TraceEntry, Closer
  <2>2. CASE CheckClosed(s)
    BY <2>2 DEF CheckClosed, Closer
  <2>3. CASE SendEntry(s)
    <3>1. pc[s] = "send" /\ pc'[s] = "recorded" /\ plan'[s] = plan[s]
      BY <2>3 DEF SendEntry
    <3> QED BY <3>1 DEF Closer
  <2> QED BY <1>7, <2>1, <2>2, <2>3
<1>8. CASE LoadJournal(s)
  <2>1. /\ pc[s] = "write" /\ plan'[s] = plan[s]
        /\ pc'[s] = "check" \/ (pc'[s] = "write" /\ panicked')
    BY <1>8 DEF LoadJournal
  <2> QED BY <2>1 DEF Closer
<1> QED BY <1>1, <1>2, <1>3, <1>4, <1>5, <1>6, <1>7, <1>8 DEF Apply, Record

\* What another goroutine does leaves a call where it is.
LEMMA OthersLeave ==
  ASSUME TypeOK, NEW s \in Sched, pc[s] # "idle", [Next]_vars
  PROVE  Apply(s) \/ Record(s) \/ Closer(s) \/ (pc'[s] = pc[s] /\ plan'[s] = plan[s])
<1> USE DEF Goto, callVars, TypeOK
<1>1. CASE UNCHANGED vars
  BY <1>1 DEF vars
<1>2. CASE Environment
  BY <1>2 DEF Environment, AddTask, RemoveTask, StartLoop, Tick, StopLoop, CallSchedule,
              AddNode, CloseJournal
<1>3. ASSUME NEW o \in Sched, o # s, Apply(o) PROVE pc'[s] = pc[s] /\ plan'[s] = plan[s]
  <2>1. CASE Begin(o) \/ Decide(o) \/ AlgorithmError(o) \/ Finish(o)
    BY <1>3, <2>1 DEF Begin, Decide, AlgorithmError, Finish
  <2>2. CASE (\E t \in Task : Pick(o, t)) \/ Start(o)
    BY <1>3, <2>2 DEF Pick, Start
  <2>3. CASE CallListeners(o) \/ MarkRejected(o)
    BY <1>3, <2>3 DEF CallListeners, MarkRejected, NextOf
  <2>4. CASE Refused(o) \/ AllocationTimeout(o) \/ TryFallbacks(o)
    BY <1>3, <2>4 DEF Refused, AllocationTimeout, TryFallbacks
  <2> QED BY <1>3, <2>1, <2>2, <2>3, <2>4 DEF Apply
<1>4. ASSUME NEW o \in Sched, o # s, Record(o) PROVE pc'[s] = pc[s] /\ plan'[s] = plan[s]
  BY <1>4 DEF Record, TestJournal, TraceEntry, LoadJournal, CheckClosed, SendEntry
<1>5. ASSUME NEW l \in Loop, ReadKPIs(l) PROVE Closer(s) \/ (pc'[s] = pc[s] /\ plan'[s] = plan[s])
  BY <1>5 DEF ReadKPIs, Closer, Before, Ahead
<1>6. CASE \/ \E l \in Loop : LoopEnd(l)
           \/ \E j \in Journal : WriterEmit(j) \/ WriterEnd(j) \/ OpenJournal(j)
           \/ NoNewJournal
  BY <1>6 DEF LoopEnd, WriterEmit, WriterEnd, OpenJournal, NoNewJournal
<1> QED BY <1>1, <1>2, <1>3, <1>4, <1>5, <1>6 DEF Next

\* Every step of a call of Schedule brings it closer to its return: from the snapshot
\* to the plan, through the places of one task, and past one task of the plan after
\* the other, none of which comes back; nothing that others do sends it back.
THEOREM CallsComeCloserAlways == Spec => CallsComeCloser
<1> DEFINE Forward == \A s \in Sched : pc[s] # "idle" =>
                        /\ Closer(s) \/ (pc'[s] = pc[s] /\ plan'[s] = plan[s])
                        /\ Apply(s) \/ Record(s) => Closer(s) \/ panicked'
<1>1. TypeOK /\ [Next]_vars => [Forward]_vars
  BY CallCloser, OthersLeave
<1> QED BY <1>1, SchedulerTypeCorrect, PTL DEF Spec, CallsComeCloser

\* Every step keeps the invariant of the writers, and drains what is closed.
LEMMA WriterStep ==
  TypeOK /\ WriterInv /\ [Next]_vars =>
    /\ WriterInv'
    /\ \A j \in Journal : closed[j] =>
         /\ closed'[j] /\ queued'[j] <= queued[j]
         /\ writer'[j] = "on" \/ (writer'[j] = "gone" /\ queued'[j] = 0)
<1> SUFFICES ASSUME TypeOK, WriterInv, [Next]_vars
             PROVE  /\ WriterInv'
                    /\ \A j \in Journal : closed[j] =>
                         /\ closed'[j] /\ queued'[j] <= queued[j]
                         /\ writer'[j] = "on" \/ (writer'[j] = "gone" /\ queued'[j] = 0)
  OBVIOUS
<1> USE SchedulerAssumption DEF jourVars, WriterInv
<1>0. /\ closed \in [Journal -> BOOLEAN] /\ queued \in [Journal -> 0..JournalCap]
      /\ writer \in [Journal -> {"unused", "on", "gone"}] /\ journal \in Journal \cup {None}
  BY DEF TypeOK
<1>1. CASE UNCHANGED jourVars
  BY <1>0, <1>1
<1>2. CASE CloseJournal
  BY <1>0, <1>2 DEF CloseJournal
<1>3. ASSUME NEW k \in Journal, OpenJournal(k) PROVE WriterInv' /\ UNCHANGED <<closed, queued>>
                                                    /\ \A j \in Journal : closed[j] => writer'[j] = writer[j]
  BY <1>0, <1>3 DEF OpenJournal
<1>4. ASSUME NEW k \in Journal, WriterEmit(k)
      PROVE  /\ WriterInv' /\ UNCHANGED <<closed, writer>>
             /\ \A j \in Journal : queued'[j] <= queued[j]
  BY <1>0, <1>4 DEF WriterEmit
<1>5. ASSUME NEW k \in Journal, WriterEnd(k)
      PROVE  /\ WriterInv' /\ UNCHANGED <<closed, queued>>
             /\ \A j \in Journal : writer'[j] = writer[j] \/ (writer'[j] = "gone" /\ queued'[j] = 0)
  BY <1>0, <1>5 DEF WriterEnd, WriterDone
<1>6. ASSUME NEW s \in Sched, SendEntry(s)
      PROVE  /\ WriterInv' /\ UNCHANGED <<closed, writer>>
             /\ \A j \in Journal : closed[j] => queued'[j] = queued[j]
  <2>1. UNCHANGED <<closed, writer, journal>>
    BY <1>6 DEF SendEntry
  <2>2. \A j \in Journal : closed[j] => queued'[j] = queued[j]
    BY <1>0, <1>6 DEF SendEntry
  <2> QED BY <1>0, <2>1, <2>2
<1>7. UNCHANGED jourVars \/ CloseJournal
      \/ (\E k \in Journal : OpenJournal(k) \/ WriterEmit(k) \/ WriterEnd(k))
      \/ (\E s \in Sched : SendEntry(s))
  <2>1. CASE UNCHANGED vars
    BY <2>1 DEF vars
  <2>2. CASE Environment
    BY <2>2 DEF Environment, AddTask, RemoveTask, StartLoop, Tick, StopLoop, CallSchedule, AddNode
  <2>3. ASSUME NEW s \in Sched, Apply(s) PROVE UNCHANGED jourVars
    BY <2>3 DEF Apply, Begin, Decide, AlgorithmError, Pick, Start, CallListeners, MarkRejected,
                Finish, Refused, AllocationTimeout, TryFallbacks
  <2>4. ASSUME NEW s \in Sched, Record(s) PROVE UNCHANGED jourVars \/ SendEntry(s)
    BY <2>4 DEF Record, TestJournal, TraceEntry, LoadJournal, CheckClosed
  <2>5. CASE (\E l \in Loop : ReadKPIs(l) \/ LoopEnd(l)) \/ NoNewJournal
    BY <2>5 DEF ReadKPIs, LoopEnd, NoNewJournal
  <2> QED BY <2>1, <2>2, <2>3, <2>4, <2>5 DEF Next
<1>8. \A j \in Journal : queued[j] <= queued[j] /\ (closed[j] => writer[j] \in {"on", "gone"})
                         /\ (closed[j] => writer[j] = "on" \/ (writer[j] = "gone" /\ queued[j] = 0))
  BY <1>0
<1>9. ASSUME NEW k \in Journal, OpenJournal(k) \/ WriterEmit(k) \/ WriterEnd(k)
      PROVE  /\ WriterInv'
             /\ \A j \in Journal : closed[j] =>
                  /\ closed'[j] /\ queued'[j] <= queued[j]
                  /\ writer'[j] = "on" \/ (writer'[j] = "gone" /\ queued'[j] = 0)
  <2>1. CASE OpenJournal(k)
    BY <1>3, <1>8, <2>1
  <2>2. CASE WriterEmit(k)
    <3>1. \A j \in Journal : queued[j] = 0 => queued'[j] = 0
      BY <1>0, <1>4, <2>2 DEF WriterEmit
    <3> QED BY <1>4, <1>8, <2>2, <3>1
  <2>3. CASE WriterEnd(k)
    BY <1>5, <1>8, <2>3
  <2> QED BY <1>9, <2>1, <2>2, <2>3
<1> QED BY <1>1, <1>2, <1>6, <1>7, <1>8, <1>9

\* A journal that SetJournalPath has closed keeps its writer until the last entry of
\* its channel is written, and no call puts another one into it.
THEOREM ClosedDrainsAlways == Spec => ClosedDrains
<1> DEFINE Drains == \A j \in Journal : closed[j] =>
                       /\ closed'[j] /\ queued'[j] <= queued[j]
                       /\ writer'[j] = "on" \/ (writer'[j] = "gone" /\ queued'[j] = 0)
<1>1. Init => WriterInv
  BY DEF Init, WriterInv
<1>2. TypeOK /\ WriterInv /\ [Next]_vars => WriterInv' /\ [Drains]_vars
  BY WriterStep
<1> QED BY <1>1, <1>2, SchedulerTypeCorrect, PTL DEF Spec, ClosedDrains

-----------------------------------------------------------------------------
(* The journal's files.  FlattenSeq, which puts the archives together, is a   *)
(* recursive function: that it exists, and what it does when one more slot is *)
(* filled, is shown by a least number for which it would not be so.           *)

\* A set of numbers that is not empty has a least one.
LEMMA LeastNat ==
  ASSUME NEW T, T \subseteq Nat, T # {}
  PROVE  \E x \in T : \A y \in T : x <= y
<1> DEFINE R == {p \in Nat \X Nat : p[1] < p[2]}
<1>1. IsWellFoundedOn(R, Nat)
  BY NatLessThanWellFounded DEF OpToRel
<1>2. \A x, y \in Nat : y < x => <<y, x>> \in R
  OBVIOUS
<1> HIDE DEF R
<1>3. PICK x \in T : \A y \in T : ~ (<<y, x>> \in R)
  BY <1>1, WFMin
<1>4. ASSUME NEW y \in T PROVE x <= y
  <2>1. x \in Nat /\ y \in Nat /\ <<y, x>> \notin R
    BY <1>3
  <2>2. ~(y < x)
    BY <1>2, <2>1
  <2> QED BY <2>1, <2>2
<1> QED BY <1>4


\* The recursion of FlattenSeq over the first n of the sequences.
Flattens(f, s, n) == \A i \in 1..n : f[i] = IF i = 1 THEN s[i] ELSE f[i - 1] \o s[i]
FlatFun(s) == CHOOSE f : f = [i \in 1..Len(s) |-> IF i = 1 THEN s[i] ELSE f[i - 1] \o s[i]]

\* There is a function that flattens the first n of any sequences.
LEMMA FlatExists ==
  ASSUME NEW s, NEW n \in Nat
  PROVE  \E f : f = [i \in 1..n |-> IF i = 1 THEN s[i] ELSE f[i - 1] \o s[i]]
<1> DEFINE Is(f, m) == f = [i \in 1..m |-> IF i = 1 THEN s[i] ELSE f[i - 1] \o s[i]]
           T == {m \in Nat : ~ \E f : Is(f, m)}
<1> SUFFICES ASSUME T # {} PROVE FALSE
  OBVIOUS
<1>1. PICK m \in T : \A k \in T : m <= k
  BY LeastNat
<1>2. CASE m = 0
  <2>1. Is([i \in 1..0 |-> 0], 0)
    OBVIOUS
  <2> QED BY <1>1, <1>2, <2>1
<1>3. CASE m # 0
  <2> HIDE DEF Is
  <2>1. m \in Nat /\ m - 1 \in Nat /\ m >= 1 /\ ~(m <= m - 1)
    BY <1>1, <1>3
  <2>2. PICK f : Is(f, m - 1)
    BY <1>1, <2>1
  <2> USE DEF Is
  <2> DEFINE g == [i \in 1..m |-> IF i = m THEN (IF m = 1 THEN s[m] ELSE f[m - 1] \o s[m]) ELSE f[i]]
  <2>3. ASSUME NEW i \in 1..m PROVE g[i] = IF i = 1 THEN s[i] ELSE g[i - 1] \o s[i]
    <3>1. CASE i = m
      BY <2>1, <3>1
    <3>2. CASE i # m
      <4>1. i \in 1..(m - 1) /\ (i # 1 => i - 1 \in 1..(m - 1) /\ i - 1 # m)
        BY <2>1, <3>2
      <4>2. f[i] = IF i = 1 THEN s[i] ELSE f[i - 1] \o s[i]
        BY <2>2, <4>1
      <4>3. g[i] = f[i] /\ (i # 1 => i - 1 \in 1..m /\ g[i - 1] = f[i - 1])
        BY <2>1, <3>2, <4>1
      <4> QED BY <4>2, <4>3
    <3> QED BY <3>1, <3>2
  <2> HIDE DEF g
  <2>4. g = [i \in 1..m |-> g[i]]
    BY DEF g
  <2>5. Is(g, m)
    BY <2>3, <2>4
  <2> QED BY <1>1, <2>5
<1> QED BY <1>2, <1>3

\* What FlattenSeq returns is the last of what a function that flattens returns.
LEMMA FlatIs ==
  ASSUME NEW s, Len(s) \in Nat, Len(s) # 0
  PROVE  FlattenSeq(s) = FlatFun(s)[Len(s)] /\ Flattens(FlatFun(s), s, Len(s))
<1>1. FlattenSeq(s) = FlatFun(s)[Len(s)]
  BY Zenon DEF FlattenSeq, FlatFun
<1>2. FlatFun(s) = [i \in 1..Len(s) |-> IF i = 1 THEN s[i] ELSE FlatFun(s)[i - 1] \o s[i]]
  BY FlatExists, Zenon DEF FlatFun
<1>3. Flattens(FlatFun(s), s, Len(s))
  BY <1>2, Zenon DEF Flattens
<1> QED BY <1>1, <1>3

\* Every part of the flattening is a sequence.
LEMMA FlatSeq ==
  ASSUME NEW S, NEW s, NEW n \in Nat, NEW f, Flattens(f, s, n),
         \A i \in 1..n : s[i] \in Seq(S)
  PROVE  \A i \in 1..n : f[i] \in Seq(S)
<1> DEFINE T == {m \in Nat : m \in 1..n /\ f[m] \notin Seq(S)}
<1>1. ASSUME T # {} PROVE FALSE
  <2>1. PICK m \in T : \A k \in T : m <= k
    BY <1>1, LeastNat
  <2>2. m \in 1..n /\ m \in Nat /\ f[m] \notin Seq(S) /\ s[m] \in Seq(S)
    BY <2>1
  <2>3. CASE m = 1
    <3>1. f[m] = s[m]
      BY <2>2, <2>3, Zenon DEF Flattens
    <3> QED BY <2>2, <3>1
  <2>4. CASE m # 1
    <3>1. m - 1 \in 1..n /\ m - 1 \in Nat /\ m - 1 \notin T
      BY <2>1, <2>2, <2>4
    <3>2. f[m - 1] \in Seq(S) /\ f[m] = f[m - 1] \o s[m]
      BY <2>2, <2>4, <3>1, Zenon DEF Flattens
    <3>3. f[m - 1] \o s[m] \in Seq(S)
      BY <2>2, <3>2, ConcatProperties
    <3> QED BY <2>2, <3>2, <3>3, Zenon
  <2> QED BY <2>3, <2>4
<1> QED BY <1>1

\* The first of the empty slots of s, k, is filled in t.
Fills(s, t, k, n, S) ==
  /\ n \in Nat /\ k \in 1..n /\ Len(s) = n /\ Len(t) = n
  /\ \A i \in 1..n : /\ s[i] \in Seq(S) /\ t[i] \in Seq(S)
                     /\ i < k => t[i] = s[i]
                     /\ i >= k => s[i] = <<>>
                     /\ i > k => t[i] = <<>>

\* Filling the first of the empty slots appends to the flattening.
LEMMA FlatAppends ==
  ASSUME NEW S, NEW n, NEW s, NEW t, NEW k, Fills(s, t, k, n, S)
  PROVE  FlattenSeq(t) = FlattenSeq(s) \o t[k]
<1>0. PICK f, g : /\ Flattens(f, s, n) /\ Flattens(g, t, n)
                  /\ FlattenSeq(s) = f[n] /\ FlattenSeq(t) = g[n]
  <2>1. Len(s) \in Nat /\ Len(s) # 0 /\ Len(t) \in Nat /\ Len(t) # 0 /\ Len(s) = n /\ Len(t) = n
    BY DEF Fills
  <2> QED BY <2>1, FlatIs, Zenon
<1> DEFINE Holds(i) == g[i] = IF i < k THEN f[i] ELSE f[i] \o t[k]
           T == {m \in Nat : m \in 1..n /\ ~Holds(m)}
<1>1. k \in Nat /\ k >= 1 /\ k <= n /\ k \in 1..n /\ n \in Nat
  BY DEF Fills
<1>2. \A i \in 1..n : f[i] \in Seq(S) /\ g[i] \in Seq(S)
  BY <1>0, <1>1, FlatSeq DEF Fills
<1> HIDE DEF Holds
<1>3. ASSUME T # {} PROVE FALSE
  <2>1. PICK m \in T : \A j \in T : m <= j
    BY <1>3, LeastNat
  <2>2. m \in Nat /\ m \in 1..n /\ ~Holds(m)
    BY <2>1
  <2>3. ASSUME m # 1 PROVE m - 1 \in 1..n /\ Holds(m - 1)
    <3>1. m - 1 \in Nat /\ m - 1 \in 1..n /\ ~(m <= m - 1)
      BY <1>1, <2>2, <2>3
    <3> QED BY <2>1, <3>1
  <2>4. /\ f[m] \in Seq(S)
        /\ m = 1 => f[m] = s[m] /\ g[m] = t[m]
        /\ m # 1 => f[m] = f[m - 1] \o s[m] /\ g[m] = g[m - 1] \o t[m]
    BY <1>2, <2>2, <1>0, Zenon DEF Flattens
  <2>5. m # 1 => f[m - 1] \in Seq(S) /\ g[m - 1] \in Seq(S)
    BY <1>2, <2>3
  <2>6. CASE m < k
    <3>1. t[m] = s[m] /\ (m # 1 => m - 1 < k)
      BY <1>1, <2>2, <2>6 DEF Fills
    <3>2. CASE m = 1
      BY <2>2, <2>4, <2>6, <3>1, <3>2, Zenon DEF Holds
    <3>3. CASE m # 1
      <4>1. g[m - 1] = f[m - 1]
        BY <2>3, <3>1, <3>3, Zenon DEF Holds
      <4> QED BY <2>2, <2>4, <2>6, <3>1, <3>3, <4>1, Zenon DEF Holds
    <3> QED BY <3>2, <3>3
  <2>7. CASE ~(m < k)
    <3>1. ~(m < k) /\ s[m] = <<>>
      BY <1>1, <2>2, <2>7 DEF Fills
    <3>2. g[m] # f[m] \o t[k]
      BY <2>2, <2>7, Zenon DEF Holds
    <3>3. CASE m = 1
      <4>1. m = k /\ f[m] = <<>> /\ g[m] = t[k] /\ t[k] \in Seq(S)
        BY <1>1, <2>2, <2>4, <2>7, <3>1, <3>3 DEF Fills
      <4>2. <<>> \o t[k] = t[k]
        BY <4>1, ConcatEmptySeq
      <4> QED BY <3>2, <4>1, <4>2, Zenon
    <3>4. CASE m # 1
      <4>1. f[m] = f[m - 1]
        <5>1. f[m - 1] \o <<>> = f[m - 1]
          BY <2>5, <3>4, ConcatEmptySeq
        <5> QED BY <2>4, <3>1, <3>4, <5>1, Zenon
      <4>2. CASE m = k
        <5>1. m - 1 < k
          BY <2>2, <4>2
        <5>2. g[m - 1] = f[m - 1]
          BY <2>3, <3>4, <5>1, Zenon DEF Holds
        <5> QED BY <2>4, <3>2, <3>4, <4>1, <4>2, <5>2, Zenon
      <4>3. CASE m # k
        <5>1. t[m] = <<>> /\ ~(m - 1 < k)
          BY <1>1, <2>2, <2>7, <4>3 DEF Fills
        <5>2. g[m - 1] \o <<>> = g[m - 1]
          BY <2>5, <3>4, ConcatEmptySeq
        <5>3. g[m - 1] = f[m - 1] \o t[k]
          BY <2>3, <3>4, <5>1, Zenon DEF Holds
        <5> QED BY <2>4, <3>2, <3>4, <4>1, <5>1, <5>2, <5>3, Zenon
      <4> QED BY <4>2, <4>3
    <3> QED BY <3>3, <3>4
  <2> QED BY <2>6, <2>7
<1>4. Holds(n)
  BY <1>1, <1>3
<1>5. ~(n < k)
  BY <1>1
<1> QED BY <1>0, <1>4, <1>5, Zenon DEF Holds
\* What was taken is where it was put: types, standard output empty while there is
\* a file, and no archive of a second that has not come.
JournalInv ==
  /\ jfTaken \in Nat /\ jfTaken <= MaxEntries
  /\ jfBuffer \in Seq(Nat) /\ jfFile \in Seq(Nat) /\ jfStdout \in Seq(Nat)
  /\ Len(jfBuffer) <= BufferSize
  /\ jfArchives \in [0..MaxSeconds -> Seq(Nat)]
  /\ jfToFile \in BOOLEAN /\ jfSecond \in 0..MaxSeconds
  /\ jfReused \in BOOLEAN /\ jfEnded \in BOOLEAN
  /\ jfToFile => jfStdout = <<>>
  /\ \A s \in 0..MaxSeconds : s > jfSecond => jfArchives[s] = <<>>
  /\ EntriesInOrder

\* The slots of the archives, in the order of their seconds.
Slots == [k \in 1..(MaxSeconds + 1) |-> jfArchives[k - 1]]

\* There are as many slots as seconds, and each is the archive of its second.
LEMMA SlotsAre ==
  ASSUME jfArchives \in [0..MaxSeconds -> Seq(Nat)]
  PROVE  /\ MaxSeconds + 1 \in Nat /\ MaxSeconds + 1 # 0
         /\ Len(Slots) = MaxSeconds + 1
         /\ \A k \in 1..(MaxSeconds + 1) :
              k - 1 \in 0..MaxSeconds /\ Slots[k] = jfArchives[k - 1] /\ Slots[k] \in Seq(Nat)
<1>1. MaxSeconds + 1 \in Nat /\ MaxSeconds + 1 # 0
  BY JournalAssumption
<1>2. \A k \in 1..(MaxSeconds + 1) : k - 1 \in 0..MaxSeconds
  BY JournalAssumption
<1>3. \A k \in 1..(MaxSeconds + 1) : Slots[k] = jfArchives[k - 1] /\ Slots[k] \in Seq(Nat)
  BY <1>2 DEF Slots
<1>4. Slots \in [1..(MaxSeconds + 1) -> Seq(Nat)]
  BY <1>1, <1>2 DEF Slots
<1>5. Slots \in Seq(Seq(Nat)) /\ Len(Slots) = MaxSeconds + 1
  BY <1>1, <1>4
<1> QED BY <1>1, <1>2, <1>3, <1>5

\* The archives put together are one sequence of entries.
LEMMA ArchivedSeq ==
  ASSUME jfArchives \in [0..MaxSeconds -> Seq(Nat)]
  PROVE  Archived \in Seq(Nat)
<1>1. PICK f : Flattens(f, Slots, MaxSeconds + 1) /\ FlattenSeq(Slots) = f[MaxSeconds + 1]
  <2>1. Len(Slots) \in Nat /\ Len(Slots) # 0 /\ Len(Slots) = MaxSeconds + 1
    BY SlotsAre
  <2> QED BY <2>1, FlatIs, Zenon
<1>2. f[MaxSeconds + 1] \in Seq(Nat)
  BY <1>1, SlotsAre, FlatSeq
<1> QED BY <1>1, <1>2 DEF Archived, Slots

\* Sequences of entries are put together in any grouping.
LEMMA NatSeqs ==
  /\ \A s, t \in Seq(Nat) : s \o t \in Seq(Nat)
  /\ \A s, t, u \in Seq(Nat) : (s \o t) \o u = s \o (t \o u)
<1>1. \A s, t \in Seq(Nat) : s \o t \in Seq(Nat)
  BY ConcatProperties
<1>2. \A s, t, u \in Seq(Nat) : (s \o t) \o u = s \o (t \o u)
  BY ConcatAssociative, SMTT(30)
<1> QED BY <1>1, <1>2, Zenon

\* One entry more follows those that were taken.
LEMMA OneMore ==
  ASSUME NEW n \in Nat
  PROVE  Append([k \in 1..n |-> k], n + 1) = [k \in 1..(n + 1) |-> k]
  OBVIOUS

\* The sequence of all that is kept, and an entry after it.
LEMMA EntryAfter ==
  ASSUME NEW x \in Seq(Nat), NEW b \in Seq(Nat), NEW e \in Nat
  PROVE  Append(b, e) \in Seq(Nat) /\ x \o Append(b, e) = Append(x \o b, e)
<1>1. x \o b \in Seq(Nat) /\ Append(b, e) \in Seq(Nat)
  BY ConcatProperties, AppendProperties, Zenon
<1> <<e>> \in Seq(Nat)
  OBVIOUS
<1>2. Append(b, e) = b \o <<e>> /\ Append(x \o b, e) = (x \o b) \o <<e>>
  BY <1>1, AppendIsConcat, Zenon
<1>3. (x \o b) \o <<e>> = x \o (b \o <<e>>)
  BY NatSeqs, SMTT(30)
<1> QED BY <1>1, <1>2, <1>3, Zenon

\* Everything that is kept, before the buffer.
Put == Archived \o jfFile \o jfStdout
Counted(n) == [k \in 1..n |-> k]

\* Nothing was taken and nothing is kept at first.
LEMMA JournalInitInv == JournalInit => JournalInv
<1> SUFFICES ASSUME JournalInit PROVE JournalInv
  OBVIOUS
<1>1. jfArchives \in [0..MaxSeconds -> Seq(Nat)] /\ \A s \in 0..MaxSeconds : jfArchives[s] = <<>>
  BY DEF JournalInit
<1>2. Archived = <<>>
  <2>1. PICK f : Flattens(f, Slots, MaxSeconds + 1) /\ FlattenSeq(Slots) = f[MaxSeconds + 1]
    <3>1. Len(Slots) \in Nat /\ Len(Slots) # 0 /\ Len(Slots) = MaxSeconds + 1
      BY <1>1, SlotsAre
    <3> QED BY <3>1, FlatIs, Zenon
  <2>2. \A k \in 1..(MaxSeconds + 1) : Slots[k] \in Seq({})
    BY <1>1, SlotsAre
  <2>3. f[MaxSeconds + 1] \in Seq({})
    <3>1. MaxSeconds + 1 \in Nat /\ MaxSeconds + 1 \in 1..(MaxSeconds + 1)
      BY JournalAssumption
    <3>2. \A i \in 1..(MaxSeconds + 1) : f[i] \in Seq({})
      BY <2>1, <2>2, <3>1, FlatSeq
    <3> QED BY <3>1, <3>2
  <2>4. \A q \in Seq({}) : q = <<>>
    OBVIOUS
  <2> QED BY <2>1, <2>3, <2>4 DEF Archived, Slots
<1>3. EntriesInOrder
  <2>1. jfFile = <<>> /\ jfStdout = <<>> /\ jfBuffer = <<>> /\ jfTaken = 0
    BY DEF JournalInit
  <2>2. <<>> \o <<>> = <<>> /\ <<>> = [k \in 1..0 |-> k]
    OBVIOUS
  <2> QED BY <1>2, <2>1, <2>2, Zenon DEF EntriesInOrder
<1>4. /\ jfTaken = 0 /\ jfBuffer = <<>> /\ jfFile = <<>> /\ jfStdout = <<>>
      /\ jfToFile \in BOOLEAN /\ jfSecond = 0 /\ jfReused \in BOOLEAN /\ jfEnded \in BOOLEAN
  BY DEF JournalInit
<1> QED BY <1>1, <1>3, <1>4, JournalAssumption DEF JournalInv

\* The buffer is written, and nothing else.
LEMMA BufferWritten ==
  ASSUME JournalInv, NEW seq \in Seq(Nat),
         jfFile' = PutLine(Outputs, seq)[1], jfStdout' = PutLine(Outputs, seq)[2],
         jfArchives' = jfArchives
  PROVE  /\ jfFile' \in Seq(Nat) /\ jfStdout' \in Seq(Nat)
         /\ jfToFile => jfStdout' = <<>>
         /\ Put \in Seq(Nat) /\ Put' \in Seq(Nat) /\ Put' = Put \o seq
<1>1. /\ jfFile \in Seq(Nat) /\ jfStdout \in Seq(Nat) /\ (jfToFile => jfStdout = <<>>)
      /\ Archived \in Seq(Nat) /\ Archived' = Archived
  BY ArchivedSeq DEF JournalInv, Archived
<1>2. /\ jfFile' \in Seq(Nat) /\ jfStdout' \in Seq(Nat)
      /\ jfToFile => jfStdout' = <<>>
      /\ Archived \o jfFile' \o jfStdout' = Archived \o jfFile \o jfStdout \o seq
  <2>0. Outputs.file = jfFile /\ Outputs.stdout = jfStdout /\ \A p, q : <<p, q>>[1] = p /\ <<p, q>>[2] = q
    BY DEF Outputs
  <2>1. CASE jfToFile
    <3>1. jfFile' = jfFile \o seq /\ jfStdout' = <<>> /\ jfStdout = <<>>
      BY <1>1, <2>0, <2>1, Zenon DEF PutLine
    <3>2. /\ Archived \o jfFile \in Seq(Nat) /\ jfFile \o seq \in Seq(Nat)
          /\ Archived \o (jfFile \o seq) \in Seq(Nat) /\ <<>> \in Seq(Nat)
      <4>1. Archived \o jfFile \in Seq(Nat) /\ jfFile \o seq \in Seq(Nat)
        BY <1>1, ConcatProperties
      <4>2. Archived \o (jfFile \o seq) \in Seq(Nat)
        BY <1>1, <4>1, ConcatProperties
      <4> QED BY <4>1, <4>2, EmptySeq
    <3>3. Archived \o (jfFile \o seq) = (Archived \o jfFile) \o seq
      BY <1>1, NatSeqs, Zenon
    <3>4. /\ (Archived \o jfFile) \o <<>> = Archived \o jfFile
          /\ (Archived \o (jfFile \o seq)) \o <<>> = Archived \o (jfFile \o seq)
      BY <3>2, ConcatEmptySeq, Zenon
    <3> QED BY <1>1, <2>1, <3>1, <3>2, <3>3, <3>4, Zenon
  <2>2. CASE ~jfToFile
    <3>1. jfFile' = jfFile /\ jfStdout' = jfStdout \o seq
      BY <2>0, <2>2, Zenon DEF PutLine
    <3>2. Archived \o jfFile \in Seq(Nat) /\ jfStdout \o seq \in Seq(Nat)
      BY <1>1, ConcatProperties
    <3>3. (Archived \o jfFile) \o (jfStdout \o seq) = ((Archived \o jfFile) \o jfStdout) \o seq
      <4>1. PICK p \in Seq(Nat) : p = Archived \o jfFile
        BY <3>2
      <4>2. jfStdout \in Seq(Nat) /\ seq \in Seq(Nat)
        BY <1>1
      <4>3. (p \o jfStdout) \o seq = p \o (jfStdout \o seq)
        BY <4>1, <4>2, NatSeqs, Zenon
      <4> QED BY <4>1, <4>3, Zenon
    <3> QED BY <1>1, <2>2, <3>1, <3>2, <3>3, Zenon
  <2> QED BY <2>1, <2>2
<1>3. Put \in Seq(Nat) /\ Put' \in Seq(Nat)
  BY <1>1, <1>2, NatSeqs, Zenon DEF Put
<1> QED BY <1>1, <1>2, <1>3, Zenon DEF Put

\* Entries are taken, written, moved and kept in their order.
LEMMA JournalStep == JournalInv /\ [JournalNext]_jfVars => JournalInv'
<1> SUFFICES ASSUME JournalInv, [JournalNext]_jfVars PROVE JournalInv'
  OBVIOUS
<1>0. /\ jfTaken \in Nat /\ jfTaken <= MaxEntries
      /\ jfBuffer \in Seq(Nat) /\ jfFile \in Seq(Nat) /\ jfStdout \in Seq(Nat)
      /\ Len(jfBuffer) <= BufferSize
      /\ jfArchives \in [0..MaxSeconds -> Seq(Nat)]
      /\ jfToFile \in BOOLEAN /\ jfSecond \in 0..MaxSeconds
      /\ jfReused \in BOOLEAN /\ jfEnded \in BOOLEAN
      /\ jfToFile => jfStdout = <<>>
      /\ \A s \in 0..MaxSeconds : s > jfSecond => jfArchives[s] = <<>>
      /\ ~jfReused => Put \o jfBuffer = Counted(jfTaken)
  BY Zenon DEF JournalInv, EntriesInOrder, Put, Counted
<1>e. <<>> \in Seq(Nat) /\ Len(<<>>) = 0 /\ \A s \in Seq(Nat) : s \o <<>> = s
  BY EmptySeq, ConcatEmptySeq
<1>1. CASE EmitEntry
  <2> DEFINE full == Len(jfBuffer) >= BufferSize
             seq == IF full THEN jfBuffer ELSE <<>>
             kept == IF full THEN <<>> ELSE jfBuffer
  <2>1. seq \in Seq(Nat) /\ kept \in Seq(Nat)
    BY <1>0, <1>e, Zenon
  <2>2. /\ jfTaken < MaxEntries /\ jfTaken' = jfTaken + 1
        /\ jfBuffer' = Append(kept, jfTaken')
        /\ jfFile' = PutLine(Outputs, seq)[1] /\ jfStdout' = PutLine(Outputs, seq)[2]
        /\ UNCHANGED <<jfArchives, jfToFile, jfSecond, jfReused, jfEnded>>
    BY <1>1 DEF EmitEntry
  <2>3. Len(kept) + 1 <= BufferSize
    BY <1>0, <1>e, JournalAssumption
  <2> HIDE DEF full
  <2>4. Put \o seq \o kept = Put \o jfBuffer
    BY <1>e, <1>0, BufferWritten, <2>1, <2>2, Zenon
  <2> HIDE DEF seq, kept
  <2>5. /\ jfFile' \in Seq(Nat) /\ jfStdout' \in Seq(Nat)
        /\ jfToFile' => jfStdout' = <<>>
        /\ Put \in Seq(Nat) /\ Put' \in Seq(Nat) /\ Put' = Put \o seq
    BY <2>1, <2>2, BufferWritten
  <2>6. jfTaken' \in Nat /\ jfTaken' <= MaxEntries
    BY <1>0, <2>2, JournalAssumption
  <2>7. /\ jfBuffer' \in Seq(Nat) /\ Put' \o jfBuffer' = Append(Put' \o kept, jfTaken')
        /\ Len(jfBuffer') = Len(kept) + 1
    <3>1. Len(jfBuffer') = Len(kept) + 1
      BY <2>1, <2>2, <2>6, AppendProperties
    <3>2. kept \in Seq(Nat) /\ jfTaken' \in Nat /\ Put' \in Seq(Nat)
      BY <2>1, <2>5, <2>6
    <3>3. Append(kept, jfTaken') \in Seq(Nat) /\ Put' \o Append(kept, jfTaken') = Append(Put' \o kept, jfTaken')
      BY <3>2, EntryAfter
    <3>4. jfBuffer' = Append(kept, jfTaken')
      BY <2>2
    <3> QED BY <3>1, <3>3, <3>4, Zenon
  <2>8. ~jfReused' => Put' \o jfBuffer' = Counted(jfTaken')
    <3> SUFFICES ASSUME ~jfReused' PROVE Put' \o jfBuffer' = Counted(jfTaken')
      OBVIOUS
    <3>1. Put' \o kept = Counted(jfTaken)
      BY <1>0, <2>2, <2>4, <2>5, Zenon
    <3>2. Append(Counted(jfTaken), jfTaken') = Counted(jfTaken')
      BY <1>0, <2>2, OneMore DEF Counted
    <3> QED BY <2>7, <3>1, <3>2, Zenon
  <2>9. EntriesInOrder'
    BY <2>8, Zenon DEF EntriesInOrder, Put, Counted
  <2>10. Len(jfBuffer') <= BufferSize
    BY <2>3, <2>7
  <2> QED BY <1>0, <2>2, <2>5, <2>6, <2>7, <2>9, <2>10 DEF JournalInv
<1>2. ASSUME /\ jfFile' = PutLine(Outputs, jfBuffer)[1]
             /\ jfStdout' = PutLine(Outputs, jfBuffer)[2] /\ jfBuffer' = <<>>
             /\ jfEnded' \in BOOLEAN
             /\ UNCHANGED <<jfTaken, jfArchives, jfToFile, jfSecond, jfReused>>
      PROVE  JournalInv'
  <2>1. /\ jfFile' \in Seq(Nat) /\ jfStdout' \in Seq(Nat)
        /\ jfToFile' => jfStdout' = <<>>
        /\ Put \in Seq(Nat) /\ Put' \in Seq(Nat) /\ Put' = Put \o jfBuffer
    BY <1>0, <1>2, BufferWritten
  <2>2. Put' \o jfBuffer' = Put \o jfBuffer
    BY <1>e, <1>2, <2>1, Zenon
  <2>3. EntriesInOrder'
    BY <1>0, <1>2, <2>2, Zenon DEF EntriesInOrder, Put, Counted
  <2>4. Len(jfBuffer') <= BufferSize
    BY <1>e, <1>2, JournalAssumption
  <2> QED BY <1>0, <1>e, <1>2, <2>1, <2>3, <2>4 DEF JournalInv
<1>3. CASE FlushJournal
  BY <1>0, <1>2, <1>3 DEF FlushJournal
<1>4. CASE EndJournal
  BY <1>0, <1>2, <1>4 DEF EndJournal
<1>5. ASSUME NEW opened \in BOOLEAN, RotateFile(opened) PROVE JournalInv'
  <2>1. /\ jfBuffer = <<>> /\ jfStdout = <<>> /\ jfToFile' = opened
        /\ jfArchives' = [jfArchives EXCEPT ![jfSecond] = jfFile]
        /\ jfFile' = <<>> /\ jfStdout' = <<>> /\ jfBuffer' = <<>>
        /\ UNCHANGED <<jfTaken, jfSecond, jfEnded>>
    BY <1>0, <1>5 DEF RotateFile, Moved
  <2>2. jfArchives' \in [0..MaxSeconds -> Seq(Nat)]
    BY <1>0, <2>1
  <2>3. \A s \in 0..MaxSeconds : s > jfSecond' => jfArchives'[s] = <<>>
    BY <1>0, <2>1
  <2>4. jfReused' \in BOOLEAN /\ (~jfReused' => ~jfReused /\ jfArchives[jfSecond] = <<>>)
    BY <1>0, <1>5, Zenon DEF RotateFile
  <2>5. EntriesInOrder'
    <3> SUFFICES ASSUME ~jfReused'
                 PROVE Archived' \o jfFile' \o jfStdout' \o jfBuffer' = Counted(jfTaken')
      BY Zenon DEF EntriesInOrder, Counted
    <3>1. /\ jfSecond + 1 \in 1..(MaxSeconds + 1) /\ MaxSeconds + 1 \in Nat
          /\ Slots'[jfSecond + 1] = jfFile
      <4>1. jfSecond + 1 \in 1..(MaxSeconds + 1) /\ (jfSecond + 1) - 1 = jfSecond /\ MaxSeconds + 1 \in Nat
        BY <1>0, JournalAssumption
      <4>2. Slots'[jfSecond + 1] = jfArchives'[jfSecond]
        BY <4>1 DEF Slots
      <4> QED BY <1>0, <2>1, <4>1, <4>2
    <3>2. Len(Slots) = MaxSeconds + 1 /\ Len(Slots') = MaxSeconds + 1
      <4>1. Len(Slots) = MaxSeconds + 1
        BY <1>0, SlotsAre
      <4>2. Len(Slots') = MaxSeconds + 1
        BY <3>1 DEF Slots
      <4> QED BY <4>1, <4>2
    <3>3. Fills(Slots, Slots', jfSecond + 1, MaxSeconds + 1, Nat)
      <4> SUFFICES ASSUME NEW i \in 1..(MaxSeconds + 1)
                   PROVE  /\ Slots[i] \in Seq(Nat) /\ Slots'[i] \in Seq(Nat)
                          /\ i < jfSecond + 1 => Slots'[i] = Slots[i]
                          /\ i >= jfSecond + 1 => Slots[i] = <<>>
                          /\ i > jfSecond + 1 => Slots'[i] = <<>>
        BY <3>1, <3>2 DEF Fills
      <4>1. /\ Slots[i] \in Seq(Nat) /\ Slots[i] = jfArchives[i - 1] /\ i - 1 \in 0..MaxSeconds
        BY <1>0, SlotsAre
      <4>2. Slots'[i] = jfArchives'[i - 1]
        BY DEF Slots
      <4>3. Slots'[i] \in Seq(Nat)
        BY <2>2, <4>1, <4>2
      <4>4. /\ i < jfSecond + 1 => i - 1 # jfSecond
            /\ i > jfSecond + 1 => i - 1 > jfSecond
            /\ i >= jfSecond + 1 => i - 1 = jfSecond \/ i - 1 > jfSecond
        BY <1>0, JournalAssumption
      <4>5. i - 1 # jfSecond => jfArchives'[i - 1] = jfArchives[i - 1]
        BY <1>0, <2>1, <4>1
      <4> QED BY <1>0, <2>1, <2>3, <2>4, <4>1, <4>2, <4>3, <4>4, <4>5
    <3>4. FlattenSeq(Slots') = FlattenSeq(Slots) \o Slots'[jfSecond + 1]
      <4>1. PICK t : t = Slots'
        OBVIOUS
      <4>2. Fills(Slots, t, jfSecond + 1, MaxSeconds + 1, Nat)
        BY <3>3, <4>1
      <4>3. FlattenSeq(t) = FlattenSeq(Slots) \o t[jfSecond + 1]
        BY <4>2, FlatAppends
      <4> QED BY <4>1, <4>3, Zenon
    <3>5. Archived' = Archived \o jfFile
      BY <3>1, <3>4, Zenon DEF Archived, Slots
    <3>6. Archived \in Seq(Nat) /\ Archived \o jfFile \in Seq(Nat)
      BY <1>0, ArchivedSeq, NatSeqs
    <3>7. Archived \o jfFile = Counted(jfTaken)
      BY <1>0, <1>e, <2>1, <2>4, <3>6, Zenon DEF Put
    <3>8. Archived' \o jfFile' \o jfStdout' \o jfBuffer' = Archived \o jfFile
      BY <1>e, <2>1, <3>5, <3>6, Zenon
    <3> QED BY <2>1, <3>7, <3>8, Zenon
  <2>6. Len(jfBuffer') <= BufferSize /\ jfToFile' \in BOOLEAN
    BY <1>5, <1>e, <2>1, JournalAssumption
  <2> QED BY <1>0, <1>e, <2>1, <2>2, <2>3, <2>4, <2>5, <2>6 DEF JournalInv
<1>6. CASE JournalSecond
  <2>1. /\ jfSecond' = jfSecond + 1 /\ jfSecond < MaxSeconds
        /\ UNCHANGED <<jfTaken, jfBuffer, jfFile, jfArchives, jfStdout, jfToFile, jfReused, jfEnded>>
    BY <1>6 DEF JournalSecond
  <2>2. jfSecond' \in 0..MaxSeconds /\ \A s \in 0..MaxSeconds : s > jfSecond' => s > jfSecond
    BY <1>0, <2>1, JournalAssumption
  <2>3. EntriesInOrder'
    BY <1>0, <2>1, Zenon DEF EntriesInOrder, Put, Counted, Archived
  <2> QED BY <1>0, <2>1, <2>2, <2>3 DEF JournalInv
<1>7. CASE UNCHANGED jfVars
  <2>1. EntriesInOrder'
    BY <1>0, <1>7, Zenon DEF EntriesInOrder, Put, Counted, Archived, jfVars
  <2> QED BY <1>0, <1>7, <2>1 DEF JournalInv, jfVars
<1> QED BY <1>1, <1>3, <1>4, <1>5, <1>6, <1>7 DEF JournalNext

-----------------------------------------------------------------------------
(* The two components beside each other.                                    *)

\* The files of a journal have every entry in the order of the calls, over
\* rotations, flushes and a failed open, for any limits of files and buffers.
THEOREM EntriesInOrderAlways == JournalSpec => []EntriesInOrder
<1>1. JournalInv => EntriesInOrder
  BY DEF JournalInv
<1> QED BY <1>1, JournalInitInv, JournalStep, PTL DEF JournalSpec

\* A state of the scheduler is a state of its types, and a journal's files have
\* every entry in the order of the calls, whichever component runs.
THEOREM JournalsSafeAlways == SchedulingSpec => []JournalsSafe
<1>1. SchedulingInit => TypeOK /\ JournalInv
  BY TypeInit, JournalInitInv DEF SchedulingInit
<1>2. [SchedulingNext]_schedulingVars => [Next]_vars /\ [JournalNext]_jfVars
  BY DEF SchedulingNext, schedulingVars, Others
<1>3. TypeOK /\ [Next]_vars => TypeOK'
  BY TypeOutside, TypeCall, TypeStutter DEF Next
<1>4. TypeOK /\ JournalInv => JournalsSafe
  BY DEF JournalsSafe, JournalInv, JournalTypeOK
<1> QED BY <1>1, <1>2, <1>3, <1>4, JournalStep, PTL DEF SchedulingSpec
=============================================================================
