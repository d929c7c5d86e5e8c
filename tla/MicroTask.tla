----------------------------- MODULE MicroTask ------------------------------
(***************************************************************************)
(* The microtask manager of internal/microtasking/microtask.go.            *)
(*                                                                         *)
(* SliceTask cuts a job into microtasks, each pushed into the bounded      *)
(* queue m.events by a goroutine of its own.  One dispatcher moves tasks   *)
(* from the queue to the buffered channel of a worker; one goroutine per   *)
(* registered channel runs the handler and calls ReportResult, which       *)
(* retries, fails or finishes the task and, once all children of the job   *)
(* are done, aggregates their results into the root node in the            *)
(* background.                                                             *)
(*                                                                         *)
(* A TaskDAG object is named by the SliceTask call whose CreateDAG made    *)
(* it.  The children of a DAG are a set: their order only decides the      *)
(* order of the concatenated results.  A task's result is the task itself. *)
(***************************************************************************)
EXTENDS Naturals, SequencesExt

CONSTANTS Task,        \* microtasks that may ever be created (fresh ids)
          Root,        \* job ids
          Call,        \* SliceTask calls, each made at most once
          MaxSlices,   \* bound on numSlices of a call
          Worker,      \* worker ids
          Chan,        \* channels: one per RegisterWorkerHandler call
          Removable,   \* worker ids DeregisterWorker may be called with
          MayStop,     \* whether Stop may be called
          QueueSize,   \* capacity of m.events
          BufSize,     \* capacity of a worker channel
          MaxRetries,  \* MaxRetries of every task
          None         \* no task, no DAG, no channel

ASSUME MicroTaskAssumption ==
  /\ MaxSlices \in Nat \ {0}
  /\ QueueSize \in Nat \ {0}
  /\ BufSize \in Nat \ {0}
  /\ MaxRetries \in Nat
  /\ MayStop \in BOOLEAN
  /\ Removable \subseteq Worker
  /\ None \notin Task \cup Call \cup Chan

VARIABLES
  call,       \* [Call -> progress of that SliceTask call]
  dags,       \* m.dags: [Root -> DAG object or None]
  home,       \* [Task -> DAG object it is a node of, or None]
  status,     \* [Task -> t.Status], "absent" until created
  attempts,   \* [Task -> t.Attempts]
  rootRes,    \* [DAG -> children in the root's Result, {} until it is written]
  agg,        \* [Task -> aggregateResults goroutine its report has started]
  submit,     \* tasks with a goroutine in SubmitTaskCtx (or on its way there)
  events,     \* m.events
  dpc, held, tries, target,  \* the dispatcher: place, task, try, channel
  workers,    \* m.workers: [Worker -> channel or None]
  buf, open,  \* [Chan -> contents], [Chan -> not closed]
  hpc, hand, kids,  \* the goroutine of a channel: place, task, children read
  stop,       \* progress of Stop
  panicked,   \* a goroutine has panicked: the process is gone
  grown       \* history: DAGs that got a child after one of theirs was done

callVars == <<call, dags, grown>>
taskVars == <<home, status, attempts>>
aggVars  == <<rootRes, agg>>
dispVars == <<dpc, held, tries, target>>
chanVars == <<workers, open>>
hdlVars  == <<hpc, hand, kids>>
vars == <<callVars, taskVars, aggVars, submit, events, dispVars, chanVars, buf,
          hdlVars, stop, panicked>>
-----------------------------------------------------------------------------
Status == {"absent", "pending", "running", "done", "failed"}

CtxDone == stop # "no"

Children(d) == {t \in Task : home[t] = d}

\* What m.dags holds for the parent job of t.
Current(t) == dags[call[home[t]].root]

Registered == {w \in Worker : workers[w] # None}

Init ==
  /\ call = [c \in Call |-> [pc |-> "idle", root |-> None, dag |-> None, left |-> 0]]
  /\ dags = [r \in Root |-> None]
  /\ grown = {}
  /\ home = [t \in Task |-> None]
  /\ status = [t \in Task |-> "absent"]
  /\ attempts = [t \in Task |-> 0]
  /\ rootRes = [c \in Call |-> {}]
  /\ agg = [t \in Task |-> [pc |-> "none", out |-> {}]]
  /\ submit = {}
  /\ events = <<>>
  /\ dpc = "recv" /\ held = None /\ tries = 0 /\ target = None
  /\ workers = [w \in Worker |-> None]
  /\ buf = [c \in Chan |-> <<>>]
  /\ open = [c \in Chan |-> FALSE]
  /\ hpc = [c \in Chan |-> "unused"]
  /\ hand = [c \in Chan |-> None]
  /\ kids = [c \in Chan |-> {}]
  /\ stop = "no"
  /\ panicked = FALSE
-----------------------------------------------------------------------------
(* SliceTask: look the DAG up, create it if there was none, add the slices. *)

SliceLookup(c, r, n) ==
  /\ call[c].pc = "idle"
  /\ call' = [call EXCEPT ![c] = [pc |-> IF dags[r] = None THEN "create" ELSE "slice",
                                  root |-> r, dag |-> dags[r], left |-> n]]
  /\ UNCHANGED <<dags, grown, taskVars, aggVars, submit, events, dispVars, chanVars,
                 buf, hdlVars, stop, panicked>>

\* CreateDAG replaces whatever another call has put there since the lookup.
CreateDAG(c) ==
  /\ call[c].pc = "create"
  /\ dags' = [dags EXCEPT ![call[c].root] = c]
  /\ call' = [call EXCEPT ![c].pc = "slice", ![c].dag = c]
  /\ UNCHANGED <<grown, taskVars, aggVars, submit, events, dispVars, chanVars, buf,
                 hdlVars, stop, panicked>>

SliceOne(c, t) ==
  LET d == call[c].dag IN
  /\ call[c].pc = "slice"
  /\ call[c].left > 0
  /\ status[t] = "absent"
  /\ call' = [call EXCEPT ![c].left = @ - 1]
  /\ home' = [home EXCEPT ![t] = d]
  /\ status' = [status EXCEPT ![t] = "pending"]
  /\ submit' = submit \cup {t}
  /\ grown' = IF \E k \in Children(d) : status[k] = "done" THEN grown \cup {d} ELSE grown
  /\ UNCHANGED <<dags, attempts, aggVars, events, dispVars, chanVars, buf, hdlVars,
                 stop, panicked>>
-----------------------------------------------------------------------------
(* The goroutines blocked in SubmitTaskCtx.                                *)

Submit(t) ==
  /\ t \in submit
  /\ Len(events) < QueueSize
  /\ events' = Append(events, t)
  /\ submit' = submit \ {t}
  /\ UNCHANGED <<callVars, taskVars, aggVars, dispVars, chanVars, buf, hdlVars, stop,
                 panicked>>

\* The task leaves memory with the goroutine: the manager is stopping.
SubmitCancelled(t) ==
  /\ t \in submit
  /\ CtxDone
  /\ submit' = submit \ {t}
  /\ UNCHANGED <<callVars, taskVars, aggVars, events, dispVars, chanVars, buf, hdlVars,
                 stop, panicked>>
-----------------------------------------------------------------------------
(* The dispatcher goroutine.                                               *)

Receive ==
  /\ dpc = "recv"
  /\ events # <<>>
  /\ held' = Head(events)
  /\ events' = Tail(events)
  /\ dpc' = "choose"
  /\ tries' = 0
  /\ UNCHANGED <<target, callVars, taskVars, aggVars, submit, chanVars, buf, hdlVars,
                 stop, panicked>>

\* The last of three tries is followed by the forced dispatch.
AnotherTry ==
  /\ tries' = tries + 1
  /\ dpc' = IF tries + 1 < 3 THEN "choose" ELSE "force"
  /\ target' = None
  /\ UNCHANGED <<held, callVars, taskVars, aggVars, submit, events, chanVars, buf,
                 hdlVars, stop, panicked>>

\* Least loaded, unless even that one is (nearly) full: then round-robin over a
\* Go map, whose order is arbitrary.
Chosen ==
  LET load(w) == Len(buf[workers[w]])
      least   == {w \in Registered : \A v \in Registered : load(w) <= load(v)}
      light   == {w \in least : 100 * load(w) < 95 * BufSize}
  IN  IF light # {} THEN light ELSE Registered

ChooseWorker ==
  /\ dpc = "choose"
  /\ \E w \in Chosen : target' = workers[w]
  /\ dpc' = "send"
  /\ UNCHANGED <<held, tries, callVars, taskVars, aggVars, submit, events, chanVars,
                 buf, hdlVars, stop, panicked>>

ChooseNone == dpc = "choose" /\ Registered = {} /\ AnotherTry

\* The channel was read under m.mu, which is not held any more.
Send ==
  /\ dpc = "send"
  /\ open[target]
  /\ Len(buf[target]) < BufSize
  /\ buf' = [buf EXCEPT ![target] = Append(@, held)]
  /\ dpc' = "recv" /\ held' = None /\ target' = None
  /\ UNCHANGED <<tries, callVars, taskVars, aggVars, submit, events, chanVars, hdlVars,
                 stop, panicked>>

SendTimeout ==
  /\ dpc = "send"
  /\ open[target]
  /\ Len(buf[target]) = BufSize
  /\ AnotherTry

SendOnClosed ==
  /\ dpc = "send"
  /\ ~open[target]
  /\ panicked' = TRUE
  /\ UNCHANGED <<callVars, taskVars, aggVars, submit, events, dispVars, chanVars, buf,
                 hdlVars, stop>>

HasRoom(w) == w \in Registered /\ Len(buf[workers[w]]) < BufSize

\* Under m.mu: only the dispatcher sends, so a channel found full stays the answer.
ForceDispatch ==
  /\ dpc = "force"
  /\ \E w \in Worker : /\ HasRoom(w)
                       /\ buf' = [buf EXCEPT ![workers[w]] = Append(@, held)]
  /\ dpc' = "recv" /\ held' = None
  /\ UNCHANGED <<tries, target, callVars, taskVars, aggVars, submit, events, chanVars,
                 hdlVars, stop, panicked>>

\* Faulty variant: the task is requeued and the dispatcher goes on trying it.
RequeueAndRetry ==
  /\ dpc = "force"
  /\ \A w \in Worker : ~HasRoom(w)
  /\ submit' = submit \cup {held}
  /\ dpc' = "choose" /\ tries' = 0
  /\ UNCHANGED <<held, target, callVars, taskVars, aggVars, events, chanVars, buf,
                 hdlVars, stop, panicked>>

\* Faulty variant: no requeue after the last try.
RequeueForgotten ==
  /\ dpc = "force"
  /\ \A w \in Worker : ~HasRoom(w)
  /\ dpc' = "recv" /\ held' = None
  /\ UNCHANGED <<tries, target, callVars, taskVars, aggVars, submit, events, chanVars,
                 buf, hdlVars, stop, panicked>>

Requeue ==
  /\ dpc = "force"
  /\ \A w \in Worker : ~HasRoom(w)
  /\ submit' = submit \cup {held}
  /\ dpc' = "recv" /\ held' = None
  /\ UNCHANGED <<tries, target, callVars, taskVars, aggVars, events, chanVars, buf,
                 hdlVars, stop, panicked>>

DispatcherExit ==
  /\ CtxDone
  /\ dpc \in {"recv", "send"} \/ (dpc = "choose" /\ Registered = {})
  /\ dpc' = "exit" /\ held' = None /\ target' = None
  /\ UNCHANGED <<tries, callVars, taskVars, aggVars, submit, events, chanVars, buf,
                 hdlVars, stop, panicked>>
-----------------------------------------------------------------------------
(* The goroutine RegisterWorkerHandler starts on channel c.                *)

Take(c) ==
  /\ hpc[c] = "recv"
  /\ buf[c] # <<>>
  /\ hand' = [hand EXCEPT ![c] = Head(buf[c])]
  /\ buf' = [buf EXCEPT ![c] = Tail(@)]
  /\ hpc' = [hpc EXCEPT ![c] = "exec"]
  /\ status' = [status EXCEPT ![Head(buf[c])] = "running"]
  /\ UNCHANGED <<kids, callVars, home, attempts, aggVars, submit, events, dispVars,
                 chanVars, stop, panicked>>

\* A closed channel is drained first, unless the context is done too.
HandlerExit(c) ==
  /\ hpc[c] = "recv"
  /\ CtxDone \/ (~open[c] /\ buf[c] = <<>>)
  /\ hpc' = [hpc EXCEPT ![c] = "exit"]
  /\ UNCHANGED <<hand, kids, callVars, taskVars, aggVars, submit, events, dispVars,
                 chanVars, buf, stop, panicked>>

(* The handler returns and ReportResult runs up to the end of its critical *)
(* section on the DAG.  The DAG is looked up by job id, the task in it.    *)

Reporting(c) == hpc[c] = "exec" /\ Current(hand[c]) = home[hand[c]]

\* A verdict is followed by the look at the children (CheckChildren).
Verdict(c, v) ==
  /\ status' = [status EXCEPT ![hand[c]] = v]
  /\ kids' = [kids EXCEPT ![c] = Children(home[hand[c]])]
  /\ hpc' = [hpc EXCEPT ![c] = "check"]

\* Faulty variant: the budget is compared before it is spent.
RetriesLeftOffByOne(t) == attempts[t] <= MaxRetries

RetriesLeft(t) == attempts[t] < MaxRetries

ReportDone(c) ==
  /\ Reporting(c)
  /\ Verdict(c, "done")
  /\ UNCHANGED <<hand, callVars, home, attempts, aggVars, submit, events, dispVars,
                 chanVars, buf, stop, panicked>>

ReportRetry(c) ==
  /\ Reporting(c)
  /\ RetriesLeft(hand[c])
  /\ attempts' = [attempts EXCEPT ![hand[c]] = @ + 1]
  /\ status' = [status EXCEPT ![hand[c]] = "pending"]
  /\ submit' = submit \cup {hand[c]}
  /\ hpc' = [hpc EXCEPT ![c] = "recv"]
  /\ hand' = [hand EXCEPT ![c] = None]
  /\ UNCHANGED <<kids, callVars, home, aggVars, events, dispVars, chanVars, buf, stop,
                 panicked>>

ReportFailed(c) ==
  /\ Reporting(c)
  /\ ~RetriesLeft(hand[c])
  /\ attempts' = [attempts EXCEPT ![hand[c]] = @ + 1]
  /\ Verdict(c, "failed")
  /\ UNCHANGED <<hand, callVars, home, aggVars, submit, events, dispVars, chanVars, buf,
                 stop, panicked>>

\* "task not found": another CreateDAG has replaced the DAG the task is in.
ReportUnknown(c) ==
  /\ hpc[c] = "exec"
  /\ Current(hand[c]) # home[hand[c]]
  /\ hpc' = [hpc EXCEPT ![c] = "recv"]
  /\ hand' = [hand EXCEPT ![c] = None]
  /\ UNCHANGED <<kids, callVars, taskVars, aggVars, submit, events, dispVars, chanVars,
                 buf, stop, panicked>>

\* Faulty variant: a failed child does not hold the aggregation up.
AllEnded(S) == \A t \in S : status[t] \in {"done", "failed"}

AllDone(S) == \A t \in S : status[t] = "done"

\* The children are those read at the verdict, their statuses those of now.
CheckChildren(c) ==
  /\ hpc[c] = "check"
  /\ agg' = IF AllDone(kids[c]) THEN [agg EXCEPT ![hand[c]].pc = "read"] ELSE agg
  /\ hpc' = [hpc EXCEPT ![c] = "recv"]
  /\ hand' = [hand EXCEPT ![c] = None]
  /\ kids' = [kids EXCEPT ![c] = {}]
  /\ UNCHANGED <<callVars, taskVars, rootRes, submit, events, dispVars, chanVars, buf,
                 stop, panicked>>
-----------------------------------------------------------------------------
(* aggregateResults: read the results, then write them to the root node.   *)

AggregateRead(t) ==
  /\ agg[t].pc = "read"
  /\ agg' = [agg EXCEPT ![t] = [pc |-> "write",
               out |-> {k \in Children(home[t]) : status[k] = "done"}]]
  /\ UNCHANGED <<callVars, taskVars, rootRes, submit, events, dispVars, chanVars, buf,
                 hdlVars, stop, panicked>>

\* Faulty variant: the root node is updated but never created.
AggregateUpdate(t) ==
  /\ agg[t].pc = "write"
  /\ rootRes' = [rootRes EXCEPT ![home[t]] = IF @ = {} THEN {} ELSE agg[t].out]
  /\ agg' = [agg EXCEPT ![t] = [pc |-> "none", out |-> {}]]
  /\ UNCHANGED <<callVars, taskVars, submit, events, dispVars, chanVars, buf, hdlVars,
                 stop, panicked>>

AggregateWrite(t) ==
  /\ agg[t].pc = "write"
  /\ rootRes' = [rootRes EXCEPT ![home[t]] = agg[t].out]
  /\ agg' = [agg EXCEPT ![t] = [pc |-> "none", out |-> {}]]
  /\ UNCHANGED <<callVars, taskVars, submit, events, dispVars, chanVars, buf, hdlVars,
                 stop, panicked>>
-----------------------------------------------------------------------------
(* Registration and Stop.                                                  *)

\* An id registered before keeps its old channel open, and its goroutine.
Register(c, w) ==
  /\ hpc[c] = "unused"
  /\ workers' = [workers EXCEPT ![w] = c]
  /\ open' = [open EXCEPT ![c] = TRUE]
  /\ hpc' = [hpc EXCEPT ![c] = "recv"]
  /\ UNCHANGED <<hand, kids, callVars, taskVars, aggVars, submit, events, dispVars, buf,
                 stop, panicked>>

\* close() of the channels registered under the ids W, which are forgotten.
Close(W) ==
  /\ open' = [c \in Chan |-> open[c] /\ \A w \in W : workers[w] # c]
  /\ workers' = [w \in Worker |-> IF w \in W THEN None ELSE workers[w]]
  /\ UNCHANGED <<callVars, taskVars, aggVars, submit, events, dispVars, buf, hdlVars,
                 panicked>>

DeregisterWorker(w) ==
  /\ w \in Removable \cap Registered
  /\ Close({w})
  /\ UNCHANGED stop

StopCancel ==
  /\ MayStop
  /\ stop = "no"
  /\ stop' = "cancelled"
  /\ UNCHANGED <<callVars, taskVars, aggVars, submit, events, dispVars, chanVars, buf,
                 hdlVars, panicked>>

StopClose ==
  /\ stop = "cancelled"
  /\ stop' = "closed"
  /\ Close(Worker)
-----------------------------------------------------------------------------
Report(c) == ReportDone(c) \/ ReportRetry(c) \/ ReportFailed(c) \/ ReportUnknown(c)

Slicing(c) == CreateDAG(c) \/ \E t \in Task : SliceOne(c, t)

Dispatch == Receive \/ ChooseWorker \/ ChooseNone \/ Send \/ SendTimeout \/ SendOnClosed
              \/ ForceDispatch \/ Requeue \/ DispatcherExit

Handle(c) == Take(c) \/ HandlerExit(c) \/ Report(c) \/ CheckChildren(c)

Step ==
  \/ \E c \in Call, r \in Root, n \in 1..MaxSlices : SliceLookup(c, r, n)
  \/ \E c \in Call : Slicing(c)
  \/ \E t \in Task : \/ Submit(t) \/ SubmitCancelled(t)
                     \/ AggregateRead(t) \/ AggregateWrite(t)
  \/ Dispatch
  \/ \E c \in Chan : Handle(c)
  \/ \E c \in Chan, w \in Worker : Register(c, w)
  \/ \E w \in Worker : DeregisterWorker(w)
  \/ StopCancel
  \/ StopClose

Next == ~panicked /\ Step

Spec == Init /\ [][Next]_vars
-----------------------------------------------------------------------------
InBuf(c)  == ToSet(buf[c])
InExec(c) == IF hpc[c] = "exec" THEN {hand[c]} ELSE {}
InHeld    == {held} \ {None}
Waiting   == submit \cup ToSet(events) \cup InHeld \cup UNION {InBuf(c) : c \in Chan}

CallState == [pc : {"idle", "create", "slice"}, root : Root \cup {None},
              dag : Call \cup {None}, left : 0..MaxSlices]
AggState  == [pc : {"none", "read", "write"}, out : SUBSET Task]

TypeOK ==
  /\ call \in [Call -> CallState]
  /\ dags \in [Root -> Call \cup {None}]
  /\ grown \subseteq Call
  /\ home \in [Task -> Call \cup {None}]
  /\ status \in [Task -> Status]
  /\ attempts \in [Task -> Nat]
  /\ rootRes \in [Call -> SUBSET Task]
  /\ agg \in [Task -> AggState]
  /\ submit \subseteq Task
  /\ events \in Seq(Task) /\ Len(events) <= QueueSize
  /\ dpc \in {"recv", "choose", "send", "force", "exit"}
  /\ held \in Task \cup {None} /\ tries \in 0..3 /\ target \in Chan \cup {None}
  /\ workers \in [Worker -> Chan \cup {None}]
  /\ buf \in [Chan -> Seq(Task)] /\ \A c \in Chan : Len(buf[c]) <= BufSize
  /\ open \in [Chan -> BOOLEAN]
  /\ hpc \in [Chan -> {"unused", "recv", "exec", "check", "exit"}]
  /\ hand \in [Chan -> Task \cup {None}]
  /\ kids \in [Chan -> SUBSET Task]
  /\ stop \in {"no", "cancelled", "closed"}
  /\ panicked \in BOOLEAN

\* A task is never in two places of the pipeline at once - submitter, queue,
\* dispatcher, a worker's buffer - nor twice in one, nor run by two handlers,
\* whatever retries, requeues, deregistrations and Stop do.
NeverTwice ==
  /\ IsInjective(events)
  /\ submit \cap ToSet(events) = {}
  /\ InHeld \cap (submit \cup ToSet(events)) = {}
  /\ \A c \in Chan :
       /\ IsInjective(buf[c])
       /\ InBuf(c) \cap (submit \cup ToSet(events) \cup InHeld) = {}
       /\ \A e \in Chan \ {c} : InBuf(c) \cap InBuf(e) = {} /\ InExec(c) \cap InExec(e) = {}
  /\ \A c \in Chan : InExec(c) \cap Waiting = {}

\* Until Stop, a pending task is somewhere in the pipeline and a running one is
\* with a handler, unless its DAG has been replaced ("requeue with delay (to
\* avoid task loss)", "task not found").
NoTaskLost ==
  stop = "no" =>
    \A t \in Task :
      /\ status[t] = "pending" => t \in Waiting
      /\ status[t] = "running" =>
           (\E c \in Chan : t \in InExec(c)) \/ Current(t) # home[t]

\* A handler only ever holds a running task, and the pipeline only pending ones:
\* a result is not reported for a task that is queued again or finished.
PlaceMatchesStatus ==
  /\ \A t \in Waiting : status[t] = "pending"
  /\ \A c \in Chan : \A t \in InExec(c) : status[t] = "running"

\* MaxRetries bounds the failed attempts, and only a task that used them all
\* is "failed".
AttemptsBounded ==
  \A t \in Task : IF status[t] = "failed" THEN attempts[t] = MaxRetries + 1
                                          ELSE attempts[t] <= MaxRetries

\* A job whose slices all existed before the first one was done never gets a
\* root result that misses a child, in whatever order reports and aggregations
\* of different workers overlap.
FullAggregate ==
  \A d \in Call \ grown : rootRes[d] \in {{}, Children(d)}

\* Each task lives as TaskLife promises: one attempt at a time, at most
\* MaxRetries + 1 of them, and a verdict that is never taken back.
Life == INSTANCE TaskLife
LifeSpec == Life!LifeSpec

\* With a worker registered for good, every pending task ends, by a result or
\* by its last failure.
EveryTaskEnds ==
  <>[](Registered # {}) =>
    \A t \in Task : status[t] = "pending" ~> status[t] \in {"done", "failed"}

\* Once all children of a job are done, its root gets a result: the last report
\* cannot miss the others.
RootGetsResult ==
  \A d \in Call : Children(d) # {} /\ AllDone(Children(d)) ~> rootRes[d] # {}

-----------------------------------------------------------------------------
\* "close worker channels safely": nobody sends on a channel that is closed.
NoSendOnClosed == ~panicked

\* "check if all children done to aggregate": when every slice exists and is
\* done and nothing is left to run, the root holds the results of all of them.
AggregateComplete ==
  \A d \in Call :
    /\ call[d].pc = "slice" /\ call[d].left = 0 /\ call[d].dag = d
    /\ \A c \in Call \ {d} : call[c].pc = "idle"
    /\ AllDone(Children(d))
    /\ \A c \in Chan : hpc[c] # "check"
    /\ \A t \in Task : agg[t].pc = "none"
    => rootRes[d] = Children(d)
-----------------------------------------------------------------------------
\* For TLC: tasks are alike, and so are channels and workers; no definition above
\* names one of them.
TaskSymmetry == Permutations(Task)
Symmetry == TaskSymmetry \cup Permutations(Chan) \cup Permutations(Worker)
=============================================================================
