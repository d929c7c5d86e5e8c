----------------------------- MODULE Scheduler ------------------------------
(***************************************************************************)
(* The task scheduler of internal/scheduler/advanced.go.                   *)
(*                                                                         *)
(* Any number of goroutines run Schedule: the loop goroutines of StartLoop *)
(* and direct callers.  A call snapshots the pending tasks under s.mu, has *)
(* an algorithm make a plan with no lock held, and applies the plan task   *)
(* by task, with AddTask, RemoveTask, SetJournalPath and other calls in    *)
(* between.  Decisions go to the journal, a bounded channel with a writer  *)
(* goroutine that SetJournalPath may replace at any time.                  *)
(*                                                                         *)
(* mu is only a variable where s.mu is held across steps; every other      *)
(* critical section is one step that needs it free.  Requirements, scores, *)
(* KPIs, traces and explanations are left out.  At least one algorithm is  *)
(* registered; its plan is any partial map from the tasks it gets to nodes *)
(* (RegisterAlgorithm takes any implementation).                           *)
(***************************************************************************)
EXTENDS Naturals

CONSTANTS Task,        \* task ids
          Node,        \* node ids
          Loop,        \* goroutines of StartLoop: a fresh one for each start
          Caller,      \* goroutines that call Schedule directly
          Journal,     \* journal writers: a fresh one for each new path
          JournalCap,  \* capacity of a journal's channel
          None         \* no task, node, loop, journal or lock holder

Sched == Loop \cup Caller

ASSUME SchedulerAssumption ==
  /\ JournalCap \in Nat \ {0}
  /\ Loop \cap Caller = {}
  /\ None \notin Task \cup Node \cup Sched \cup Journal
  /\ "setter" \notin Sched

VARIABLES
  hasPool,    \* s.rp is not nil
  poolStuck,  \* rp.Mu is locked for good
  mu,         \* who keeps s.mu from one step to the next
  status, node,   \* s.tasks: [Task -> Status], "absent" when not in the map; AssignedTo
  decided,    \* s.decisions
  loop,       \* [Loop -> state of the loop goroutine]
  loopStop,   \* the goroutine whose channel is s.loopStop
  pc, snap, plan, cur,  \* a call: place, snapshot, rest of the plan, its task
  outcome,    \* what the call records in the journal
  jrec,       \* the journal the call is writing to
  journal,    \* s.journal
  closed, queued, writer,  \* [Journal -> closed], entries in its channel, its goroutine
  panicked,   \* a goroutine has panicked: the process is gone
  overlapped  \* history: a Schedule call has begun while another was applying

taskVars == <<status, node, decided>>
loopVars == <<loop, loopStop>>
callVars == <<snap, plan, cur, outcome>>
jourVars == <<journal, closed, queued, writer>>
poolVars == <<hasPool, poolStuck>>
vars == <<poolVars, mu, taskVars, loopVars, pc, callVars, jrec, jourVars, panicked,
          overlapped>>

NoPlan == [t \in {} |-> None]

Goto(s, place) == pc' = [pc EXCEPT ![s] = place]

MuFree == mu = None

Init ==
  /\ hasPool \in BOOLEAN
  /\ poolStuck = FALSE
  /\ mu = None
  /\ status = [t \in Task |-> "absent"]
  /\ node = [t \in Task |-> None]
  /\ decided = [t \in Task |-> None]
  /\ loop = [l \in Loop |-> "unused"]
  /\ loopStop = None
  /\ pc = [s \in Sched |-> "idle"]
  /\ snap = [s \in Sched |-> {}]
  /\ plan = [s \in Sched |-> NoPlan]
  /\ cur = [s \in Sched |-> None]
  /\ outcome = [s \in Sched |-> "none"]
  /\ jrec = [s \in Sched |-> None]
  /\ journal = None
  /\ closed = [j \in Journal |-> FALSE]
  /\ queued = [j \in Journal |-> 0]
  /\ writer = [j \in Journal |-> "unused"]
  /\ panicked = FALSE
  /\ overlapped = FALSE
-----------------------------------------------------------------------------
(* The task map.                                                           *)

\* Also replaces a task of the same id, whatever its status.  New tasks are
\* pending: a caller that sets another status itself is left out.
AddTask(t) ==
  /\ MuFree
  /\ status' = [status EXCEPT ![t] = "pending"]
  /\ node' = [node EXCEPT ![t] = None]
  /\ UNCHANGED <<poolVars, mu, decided, loopVars, pc, callVars, jrec, jourVars, panicked,
                 overlapped>>

RemoveTask(t) ==
  /\ MuFree
  /\ status[t] # "absent"
  /\ status' = [status EXCEPT ![t] = "absent"]
  /\ node' = [node EXCEPT ![t] = None]
  /\ UNCHANGED <<poolVars, mu, decided, loopVars, pc, callVars, jrec, jourVars, panicked,
                 overlapped>>
-----------------------------------------------------------------------------
(* StartLoop and StopLoop.                                                 *)

StartLoop(l) ==
  /\ MuFree
  /\ loopStop = None
  /\ loop[l] = "unused"
  /\ loopStop' = l
  /\ loop' = [loop EXCEPT ![l] = "on"]
  /\ UNCHANGED <<poolVars, mu, taskVars, pc, callVars, jrec, jourVars, panicked, overlapped>>

\* Closes the channel and does not wait: the goroutine may be in Schedule.
StopLoop ==
  /\ MuFree
  /\ loopStop # None
  /\ loop' = [loop EXCEPT ![loopStop] = "stopping"]
  /\ loopStop' = None
  /\ UNCHANGED <<poolVars, mu, taskVars, pc, callVars, jrec, jourVars, panicked, overlapped>>

LoopEnd(l) ==
  /\ loop[l] = "stopping"
  /\ pc[l] = "idle"
  /\ loop' = [loop EXCEPT ![l] = "gone"]
  /\ UNCHANGED <<poolVars, mu, taskVars, loopStop, pc, callVars, jrec, jourVars, panicked,
                 overlapped>>

\* The select of a stopped loop may still take a tick.
Tick(l) ==
  /\ loop[l] \in {"on", "stopping"}
  /\ pc[l] = "idle"
  /\ Goto(l, "kpis")
  /\ UNCHANGED <<poolVars, mu, taskVars, loopVars, callVars, jrec, jourVars, panicked,
                 overlapped>>

\* rp.GetKPIs takes the pool's lock.
ReadKPIs(l) ==
  /\ pc[l] = "kpis"
  /\ ~poolStuck
  /\ Goto(l, "begin")
  /\ UNCHANGED <<poolVars, mu, taskVars, loopVars, callVars, jrec, jourVars, panicked,
                 overlapped>>

CallSchedule(c) ==
  /\ pc[c] = "idle"
  /\ Goto(c, "begin")
  /\ UNCHANGED <<poolVars, mu, taskVars, loopVars, callVars, jrec, jourVars, panicked,
                 overlapped>>
-----------------------------------------------------------------------------
(* Schedule: snapshot, plan, apply.                                        *)

Applying(s) == pc[s] \notin {"idle", "kpis", "begin"}

\* Faulty variant: the snapshot takes running tasks too.
WaitingOrRunning(t) == status[t] \in {"pending", "running"}

Waiting(t) == status[t] = "pending"

Begin(s) ==
  /\ pc[s] = "begin"
  /\ MuFree
  /\ snap' = [snap EXCEPT ![s] = {t \in Task : Waiting(t)}]
  /\ Goto(s, "nodes")
  /\ overlapped' = (overlapped \/ \E o \in Sched \ {s} : Applying(o))
  /\ UNCHANGED <<poolVars, mu, taskVars, loopVars, plan, cur, outcome, jrec, jourVars,
                 panicked>>

\* The node snapshot needs rp.Mu; the plan covers any part of the snapshot.
Decide(s) ==
  /\ pc[s] = "nodes"
  /\ ~poolStuck
  /\ \E T \in SUBSET snap[s] : \E p \in [T -> Node] : plan' = [plan EXCEPT ![s] = p]
  /\ snap' = [snap EXCEPT ![s] = {}]
  /\ Goto(s, "next")
  /\ UNCHANGED <<poolVars, mu, taskVars, loopVars, cur, outcome, jrec, jourVars, panicked,
                 overlapped>>

AlgorithmError(s) ==
  /\ pc[s] = "nodes"
  /\ ~poolStuck
  /\ MuFree
  /\ snap' = [snap EXCEPT ![s] = {}]
  /\ Goto(s, "idle")
  /\ UNCHANGED <<poolVars, mu, taskVars, loopVars, plan, cur, outcome, jrec, jourVars,
                 panicked, overlapped>>

\* The plan of s behind task t.
Rest(s, t) == [u \in DOMAIN plan[s] \ {t} |-> plan[s][u]]

\* GetTask: the task may be gone, replaced, or started by another call; only
\* the first is noticed.  The policy checker then allows or refuses it.
Pick(s, t) ==
  /\ pc[s] = "next"
  /\ t \in DOMAIN plan[s]
  /\ MuFree
  /\ IF status[t] = "absent"
     THEN /\ plan' = [plan EXCEPT ![s] = Rest(s, t)]
          /\ UNCHANGED <<pc, cur, outcome, overlapped>>
     ELSE /\ cur' = [cur EXCEPT ![s] = t]
          /\ \/ Goto(s, "record") /\ outcome' = [outcome EXCEPT ![s] = "rejected"]
             \/ Goto(s, IF hasPool THEN "allocate" ELSE "start") /\ UNCHANGED outcome
          /\ UNCHANGED plan
  /\ UNCHANGED <<poolVars, mu, taskVars, loopVars, snap, jrec, jourVars, panicked, overlapped>>

\* Faulty variant: a removed task comes back.
MarkRunningAlways(t, n) ==
  /\ status' = [status EXCEPT ![t] = "running"]
  /\ node' = [node EXCEPT ![t] = n]

\* A task removed since it was picked is left out, its decision is kept.
MarkRunning(t, n) ==
  IF status[t] = "absent" THEN UNCHANGED <<status, node>>
  ELSE /\ status' = [status EXCEPT ![t] = "running"]
       /\ node' = [node EXCEPT ![t] = n]

\* Faulty variant: the allocation is not entered into s.decisions.
DecisionForgotten(t, n) == decided

Decision(t, n) == [decided EXCEPT ![t] = n]

\* Without a pool the plan's node is the allocation.
Start(s) ==
  LET t == cur[s] n == plan[s][t] IN
  /\ pc[s] = "start"
  /\ MuFree
  /\ MarkRunning(t, n)
  /\ decided' = Decision(t, n)
  /\ outcome' = [outcome EXCEPT ![s] = "allocated"]
  /\ Goto(s, "record")
  /\ UNCHANGED <<poolVars, mu, loopVars, snap, plan, cur, jrec, jourVars, panicked, overlapped>>

\* The rest of the handler for one task of the plan is over.
NextOf(s) ==
  /\ plan' = [plan EXCEPT ![s] = Rest(s, cur[s])]
  /\ cur' = [cur EXCEPT ![s] = None]
  /\ outcome' = [outcome EXCEPT ![s] = "none"]
  /\ Goto(s, "next")

\* After an allocation the listeners are called, on goroutines of their own.
CallListeners(s) ==
  /\ pc[s] = "recorded" /\ outcome[s] = "allocated"
  /\ MuFree
  /\ NextOf(s)
  /\ UNCHANGED <<poolVars, mu, taskVars, loopVars, snap, jrec, jourVars, panicked, overlapped>>

MarkRejected(s) ==
  /\ pc[s] = "recorded" /\ outcome[s] = "rejected"
  /\ MuFree
  /\ status' = [status EXCEPT ![cur[s]] = IF @ = "absent" THEN @ ELSE "failed"]
  /\ NextOf(s)
  /\ UNCHANGED <<poolVars, mu, node, decided, loopVars, snap, jrec, jourVars, panicked,
                 overlapped>>

Finish(s) ==
  /\ pc[s] = "next"
  /\ DOMAIN plan[s] = {}
  /\ MuFree
  /\ Goto(s, "idle")
  /\ UNCHANGED <<poolVars, mu, taskVars, loopVars, callVars, jrec, jourVars, panicked,
                 overlapped>>
-----------------------------------------------------------------------------
(* The allocation in the pool and the path of a failed one.                *)

\* The pool answers with an error.  It never has a node to offer: AddNode is the
\* only way to give it one.
Refused(s) ==
  /\ pc[s] = "allocate"
  /\ ~poolStuck
  /\ outcome' = [outcome EXCEPT ![s] = "failed"]
  /\ Goto(s, "record")
  /\ UNCHANGED <<poolVars, mu, taskVars, loopVars, snap, plan, cur, jrec, jourVars,
                 panicked, overlapped>>

\* AddNode locks rp.Mu and describes the new node for the trace, for which
\* snapshotForExplain takes rp.Mu again: the goroutine stays there.
AddNode ==
  /\ hasPool
  /\ ~poolStuck
  /\ poolStuck' = TRUE
  /\ UNCHANGED <<hasPool, mu, taskVars, loopVars, pc, callVars, jrec, jourVars, panicked,
                 overlapped>>

\* Five seconds without an answer.
AllocationTimeout(s) ==
  /\ pc[s] = "allocate"
  /\ outcome' = [outcome EXCEPT ![s] = "failed"]
  /\ Goto(s, "record")
  /\ UNCHANGED <<poolVars, mu, taskVars, loopVars, snap, plan, cur, jrec, jourVars,
                 panicked, overlapped>>

\* s.mu is locked, and tryFallbacks locks it again: the call stays here, with
\* the lock, and the requeue behind it is never reached.
TryFallbacks(s) ==
  /\ pc[s] = "recorded" /\ outcome[s] = "failed"
  /\ MuFree
  /\ mu' = s
  /\ Goto(s, "fallbacks")
  /\ UNCHANGED <<poolVars, taskVars, loopVars, callVars, jrec, jourVars, panicked, overlapped>>
-----------------------------------------------------------------------------
(* recordJournal reads s.journal twice, without s.mu.                      *)

TestJournal(s) ==
  /\ pc[s] = "record"
  /\ Goto(s, IF journal = None THEN "trace" ELSE "write")
  /\ UNCHANGED <<poolVars, mu, taskVars, loopVars, callVars, jrec, jourVars, panicked,
                 overlapped>>

\* No journal: the entry goes to the traces, under s.mu.
TraceEntry(s) ==
  /\ pc[s] = "trace"
  /\ MuFree
  /\ Goto(s, "recorded")
  /\ UNCHANGED <<poolVars, mu, taskVars, loopVars, callVars, jrec, jourVars, panicked,
                 overlapped>>

\* The method is called on whatever s.journal is now.
LoadJournal(s) ==
  /\ pc[s] = "write"
  /\ jrec' = [jrec EXCEPT ![s] = journal]
  /\ panicked' = (journal = None)
  /\ Goto(s, IF journal = None THEN "write" ELSE "check")
  /\ UNCHANGED <<poolVars, mu, taskVars, loopVars, callVars, jourVars, overlapped>>

CheckClosed(s) ==
  /\ pc[s] = "check"
  /\ IF closed[jrec[s]]
     THEN Goto(s, "recorded") /\ jrec' = [jrec EXCEPT ![s] = None]
     ELSE Goto(s, "send") /\ UNCHANGED jrec
  /\ UNCHANGED <<poolVars, mu, taskVars, loopVars, callVars, jourVars, panicked, overlapped>>

HasRoom(j) == queued[j] < JournalCap

\* A send on a closed channel panics; a full one drops the entry after 50 ms.
SendEntry(s) ==
  LET j == jrec[s] IN
  /\ pc[s] = "send"
  /\ panicked' = closed[j]
  /\ queued' = IF ~closed[j] /\ HasRoom(j) THEN [queued EXCEPT ![j] = @ + 1] ELSE queued
  /\ jrec' = [jrec EXCEPT ![s] = None]
  /\ Goto(s, "recorded")
  /\ UNCHANGED <<poolVars, mu, taskVars, loopVars, callVars, journal, closed, writer,
                 overlapped>>

WriterEmit(j) ==
  /\ writer[j] = "on"
  /\ queued[j] > 0
  /\ queued' = [queued EXCEPT ![j] = @ - 1]
  /\ UNCHANGED <<poolVars, mu, taskVars, loopVars, pc, callVars, jrec, journal, closed,
                 writer, panicked, overlapped>>

\* Faulty variant: the writer ends as soon as the journal is closed.
WriterDoneEarly(j) == closed[j]

\* A closed channel is received from until it is empty.
WriterDone(j) == closed[j] /\ queued[j] = 0

WriterEnd(j) ==
  /\ writer[j] = "on"
  /\ WriterDone(j)
  /\ writer' = [writer EXCEPT ![j] = "gone"]
  /\ UNCHANGED <<poolVars, mu, taskVars, loopVars, pc, callVars, jrec, journal, closed,
                 queued, panicked, overlapped>>

\* SetJournalPath closes the old journal first and opens the file after that.
CloseJournal ==
  /\ MuFree
  /\ mu' = "setter"
  /\ closed' = IF journal = None THEN closed ELSE [closed EXCEPT ![journal] = TRUE]
  /\ journal' = None
  /\ UNCHANGED <<poolVars, taskVars, loopVars, pc, callVars, jrec, queued, writer, panicked,
                 overlapped>>

OpenJournal(j) ==
  /\ mu = "setter"
  /\ writer[j] = "unused"
  /\ mu' = None
  /\ journal' = j
  /\ writer' = [writer EXCEPT ![j] = "on"]
  /\ UNCHANGED <<poolVars, taskVars, loopVars, pc, callVars, jrec, closed, queued, panicked,
                 overlapped>>

\* Faulty variant: the early return does not unlock s.mu.
NoNewJournalLocked ==
  /\ mu = "setter"
  /\ UNCHANGED vars

\* An empty path, or a file that cannot be opened.
NoNewJournal ==
  /\ mu = "setter"
  /\ mu' = None
  /\ UNCHANGED <<poolVars, taskVars, loopVars, pc, callVars, jrec, jourVars, panicked,
                 overlapped>>
-----------------------------------------------------------------------------
Apply(s) ==
  \/ Begin(s) \/ Decide(s) \/ AlgorithmError(s) \/ (\E t \in Task : Pick(s, t))
  \/ Start(s) \/ CallListeners(s) \/ MarkRejected(s) \/ Finish(s)
  \/ Refused(s) \/ AllocationTimeout(s) \/ TryFallbacks(s)

Record(s) ==
  TestJournal(s) \/ TraceEntry(s) \/ LoadJournal(s) \/ CheckClosed(s) \/ SendEntry(s)

Environment ==
  \/ \E t \in Task : AddTask(t) \/ RemoveTask(t)
  \/ \E l \in Loop : StartLoop(l) \/ Tick(l)
  \/ StopLoop
  \/ \E c \in Caller : CallSchedule(c)
  \/ CloseJournal
  \/ AddNode

Next ==
  /\ ~panicked
  /\ \/ Environment
     \/ \E s \in Sched : Apply(s) \/ Record(s)
     \/ \E l \in Loop : ReadKPIs(l) \/ LoopEnd(l)
     \/ \E j \in Journal : WriterEmit(j) \/ WriterEnd(j) \/ OpenJournal(j)
     \/ NoNewJournal

Spec == Init /\ [][Next]_vars
-----------------------------------------------------------------------------
Places == {"idle", "kpis", "begin", "nodes", "next", "start", "allocate",
           "record", "trace", "write", "check", "send", "recorded", "fallbacks"}

Plan == UNION {[T -> Node] : T \in SUBSET Task}

\* What the place of a call says of its other fields: between Pick and the next
\* task it is at work on a task of its plan.
CallOK(s) ==
  /\ IF pc[s] \in {"idle", "kpis", "begin", "nodes", "next"}
     THEN cur[s] = None ELSE cur[s] \in DOMAIN plan[s]
  /\ pc[s] \in {"idle", "kpis", "begin", "nodes"} => DOMAIN plan[s] = {}
  /\ pc[s] \in {"idle", "kpis", "begin", "nodes", "next", "start", "allocate"}
       => outcome[s] = "none"
  /\ pc[s] # "nodes" => snap[s] = {}
  /\ pc[s] \in {"check", "send"} => jrec[s] \in Journal

\* What every variable holds.
TypeOK ==
  /\ hasPool \in BOOLEAN /\ poolStuck \in BOOLEAN /\ panicked \in BOOLEAN
  /\ overlapped \in BOOLEAN
  /\ mu \in Sched \cup {"setter", None}
  /\ status \in [Task -> {"absent", "pending", "running", "failed"}]
  /\ node \in [Task -> Node \cup {None}] /\ decided \in [Task -> Node \cup {None}]
  /\ loop \in [Loop -> {"unused", "on", "stopping", "gone"}]
  /\ loopStop \in Loop \cup {None}
  /\ pc \in [Sched -> Places]
  /\ snap \in [Sched -> SUBSET Task]
  /\ plan \in [Sched -> Plan]
  /\ cur \in [Sched -> Task \cup {None}]
  /\ outcome \in [Sched -> {"none", "allocated", "rejected", "failed"}]
  /\ jrec \in [Sched -> Journal \cup {None}]
  /\ journal \in Journal \cup {None}
  /\ closed \in [Journal -> BOOLEAN]
  /\ queued \in [Journal -> 0..JournalCap]
  /\ writer \in [Journal -> {"unused", "on", "gone"}]
  /\ \A s \in Sched : CallOK(s)

\* A running task is where s.decisions says, whatever calls, removals and
\* replacements came between the plan and its application.
RunsWhereDecided == \A t \in Task : status[t] = "running" => node[t] = decided[t]

\* A call that applies an old plan does not bring back a task that RemoveTask
\* has taken out meanwhile: only AddTask adds one, as pending.
RemovedStaysRemoved ==
  [][\A t \in Task : status[t] = "absent" => status'[t] \in {"absent", "pending"}]_vars

\* As long as Schedule calls do not overlap, a task that runs is not started
\* again: its node would be taken twice.
StartedOnce ==
  [][\A t \in Task : status[t] = "running" /\ ~overlapped' =>
        ~\E s \in Sched : pc[s] = "start" /\ cur[s] = t /\ pc'[s] = "record"]_vars

\* "Returns applied assignments": without a pool every call of Schedule returns,
\* whatever other goroutines do to the tasks, the loop and the journal.
CallReturns ==
  \A s \in Sched : pc[s] # "idle" /\ ~hasPool ~> pc[s] = "idle" \/ panicked

\* "Scheduler loop stopped": a loop that StopLoop has stopped ends.
StoppedLoopEnds ==
  \A l \in Loop : loop[l] = "stopping" /\ ~hasPool ~> loop[l] = "gone" \/ panicked

\* A journal that SetJournalPath replaces is written to the end: what its
\* channel has accepted is not lost with the switch.
ClosedJournalWritten ==
  \A j \in Journal : closed[j] ~> (writer[j] = "gone" /\ queued[j] = 0) \/ panicked

-----------------------------------------------------------------------------
\* "tryFallbacks attempts to schedule the task using a fallback sequence of
\* algorithms (non-blocking)": a call does not wait there for a lock it holds.
FallbacksDoNotBlock == \A s \in Sched : pc[s] = "fallbacks" => mu # s
=============================================================================
