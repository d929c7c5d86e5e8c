--------------------------- MODULE MicroTaskProofs ---------------------------
EXTENDS MCServices, FiniteSetTheorems, TLAPS

(***************************************************************************)
(* Theorems of the microtask manager (Spec of MicroTask) and, behind them,  *)
(* of the components that MCServices runs beside it (ServicesSpec): the     *)
(* vault's token, the policy engine, the bulk sends, the connectors' jobs,  *)
(* the trainer, the agent and the saved DAGs.  An invariant of each is kept *)
(* by its own steps; the group's steps are its steps or leave it alone      *)
(* (ServicesStep), so the last theorems put them together.                  *)
(***************************************************************************)

\* Append keeps a sequence of S over S, adds the element to its set, and
\* keeps an injective sequence injective when the element is new.
LEMMA AppendSet ==
  ASSUME NEW S, NEW s \in Seq(S), NEW x \in S
  PROVE  /\ Append(s, x) \in Seq(S)
         /\ Len(Append(s, x)) = Len(s) + 1
         /\ ToSet(Append(s, x)) = ToSet(s) \cup {x}
         /\ IsInjective(s) /\ x \notin ToSet(s) => IsInjective(Append(s, x))
<1> DEFINE a == Append(s, x)
<1>1. a \in Seq(S) /\ Len(a) = Len(s) + 1 /\ DOMAIN a = 1..(Len(s) + 1)
  OBVIOUS
<1>2. a[Len(s) + 1] = x /\ \A i \in 1..Len(s) : a[i] = s[i]
  OBVIOUS
<1>3. DOMAIN s = 1..Len(s) /\ Len(s) \in Nat
  OBVIOUS
<1> HIDE DEF a
<1>4. ToSet(a) = ToSet(s) \cup {x}
  BY <1>1, <1>2, <1>3 DEF ToSet
<1>5. ASSUME IsInjective(s), x \notin ToSet(s) PROVE IsInjective(a)
  BY <1>1, <1>2, <1>3, <1>5 DEF ToSet, IsInjective
<1> QED BY <1>1, <1>4, <1>5 DEF a

\* Tail drops exactly the head from the set of an injective sequence.
LEMMA TailSet ==
  ASSUME NEW S, NEW s \in Seq(S), s # <<>>
  PROVE  /\ Head(s) \in S
         /\ Head(s) \in ToSet(s)
         /\ Tail(s) \in Seq(S)
         /\ Len(Tail(s)) = Len(s) - 1
         /\ IsInjective(s) => /\ ToSet(Tail(s)) = ToSet(s) \ {Head(s)}
                              /\ IsInjective(Tail(s))
<1> DEFINE a == Tail(s)
<1>1. Len(s) \in Nat \ {0} /\ DOMAIN s = 1..Len(s) /\ Head(s) = s[1]
  OBVIOUS
<1>2. /\ a \in Seq(S)
      /\ Len(a) = Len(s) - 1
      /\ DOMAIN a = 1..(Len(s) - 1)
      /\ \A i \in 1..(Len(s) - 1) : a[i] = s[i + 1]
  OBVIOUS
<1> HIDE DEF a
<1>3. Head(s) \in S /\ Head(s) \in ToSet(s)
  BY <1>1 DEF ToSet
<1>4. ASSUME IsInjective(s) PROVE ToSet(a) = ToSet(s) \ {Head(s)}
  <2>1. ASSUME NEW y \in ToSet(a) PROVE y \in ToSet(s) \ {Head(s)}
    BY <1>1, <1>2, <1>4 DEF ToSet, IsInjective
  <2>2. ASSUME NEW y \in ToSet(s) \ {Head(s)} PROVE y \in ToSet(a)
    <3>1. PICK i \in 1..Len(s) : y = s[i] /\ i # 1
      BY <1>1 DEF ToSet
    <3>2. i - 1 \in 1..(Len(s) - 1) /\ a[i - 1] = s[i]
      BY <1>1, <1>2, <3>1
    <3> QED BY <1>2, <3>1, <3>2 DEF ToSet
  <2> QED BY <2>1, <2>2
<1>5. ASSUME IsInjective(s) PROVE IsInjective(a)
  <2> SUFFICES ASSUME NEW i \in 1..(Len(s) - 1), NEW j \in 1..(Len(s) - 1), a[i] = a[j]
               PROVE  i = j
    BY <1>2 DEF IsInjective
  <2>1. s[i + 1] = s[j + 1] /\ i + 1 \in 1..Len(s) /\ j + 1 \in 1..Len(s)
    BY <1>1, <1>2
  <2> QED BY <1>1, <1>5, <2>1 DEF IsInjective
<1> QED BY <1>2, <1>3, <1>4, <1>5 DEF a
-----------------------------------------------------------------------------
(* Types, with what each place of a goroutine says of its variables.       *)

DispatcherOK ==
  /\ dpc \in {"choose", "send", "force"} => held \in Task
  /\ dpc \in {"recv", "exit"} => held = None
  /\ dpc \in {"choose", "send"} => tries \in 0..2
  /\ dpc = "send" => target \in Chan

HandlerOK == \A c \in Chan : hpc[c] \in {"exec", "check"} => hand[c] \in Task

CallOK == \A c \in Call : /\ call[c].pc = "slice" => call[c].dag \in Call
                          /\ call[c].pc # "idle" => call[c].root \in Root

TypeInv == TypeOK /\ DispatcherOK /\ HandlerOK /\ CallOK

\* A new manager satisfies the type invariant and what it rests on.
LEMMA TypeInit == Init => TypeInv
<1> SUFFICES ASSUME Init PROVE TypeInv
  OBVIOUS
<1> USE MicroTaskAssumption DEF Init
<1>1. call \in [Call -> CallState] /\ \A c \in Call : call[c].pc = "idle"
  BY DEF CallState
<1>2. events \in Seq(Task) /\ Len(events) <= QueueSize
  OBVIOUS
<1>3. buf \in [Chan -> Seq(Task)] /\ \A c \in Chan : Len(buf[c]) <= BufSize
  OBVIOUS
<1>4. agg \in [Task -> AggState]
  BY DEF AggState
<1>5. /\ dags \in [Root -> Call \cup {None}] /\ grown \subseteq Call
      /\ home \in [Task -> Call \cup {None}] /\ status \in [Task -> Status]
      /\ attempts \in [Task -> Nat] /\ rootRes \in [Call -> SUBSET Task]
  BY DEF Status
<1>6. /\ submit \subseteq Task
      /\ dpc = "recv" /\ held = None /\ tries \in 0..3 /\ target = None
      /\ workers \in [Worker -> Chan \cup {None}]
  OBVIOUS
<1>7. /\ open \in [Chan -> BOOLEAN] /\ kids \in [Chan -> SUBSET Task]
      /\ hpc \in [Chan -> {"unused", "recv", "exec", "check", "exit"}]
      /\ \A c \in Chan : hpc[c] = "unused"
      /\ hand \in [Chan -> Task \cup {None}]
      /\ stop = "no" /\ panicked = FALSE
  OBVIOUS
<1> HIDE DEF Init
<1> QED BY <1>1, <1>2, <1>3, <1>4, <1>5, <1>6, <1>7
        DEF TypeInv, TypeOK, DispatcherOK, HandlerOK, CallOK

\* Updating one field of a call's progress keeps its type.
LEMMA CallStateUpdate ==
  ASSUME NEW cs \in CallState
  PROVE  /\ \A d \in Call : [cs EXCEPT !.pc = "slice", !.dag = d] \in CallState
         /\ cs.left > 0 => [cs EXCEPT !.left = @ - 1] \in CallState
<1>1. ASSUME NEW d \in Call PROVE [cs EXCEPT !.pc = "slice", !.dag = d] \in CallState
  BY DEF CallState
<1>2. ASSUME cs.left > 0 PROVE [cs EXCEPT !.left = @ - 1] \in CallState
  <2>1. cs.left - 1 \in 0..MaxSlices
    BY <1>2, MicroTaskAssumption DEF CallState
  <2> QED BY <2>1 DEF CallState
<1> QED BY <1>1, <1>2

\* Updating the place of an aggregation keeps its type.
LEMMA AggStateUpdate ==
  ASSUME NEW a \in AggState
  PROVE  [a EXCEPT !.pc = "read"] \in AggState
BY DEF AggState

\* Every step of the manager keeps the types and the links between a
\* goroutine's place and the task, channel or DAG it holds.
LEMMA TypeStep == TypeInv /\ [Next]_vars => TypeInv'
<1> SUFFICES ASSUME TypeInv, [Next]_vars PROVE TypeInv'
  OBVIOUS
<1> USE MicroTaskAssumption DEF TypeInv, TypeOK, DispatcherOK, HandlerOK, CallOK, Status,
        callVars, taskVars, aggVars, dispVars, chanVars, hdlVars
<1>1. ASSUME NEW c \in Call, NEW r \in Root, NEW n \in 1..MaxSlices, SliceLookup(c, r, n)
      PROVE  TypeInv'
  <2>1. [pc |-> IF dags[r] = None THEN "create" ELSE "slice", root |-> r,
         dag |-> dags[r], left |-> n] \in CallState
    BY DEF CallState
  <2> QED BY <1>1, <2>1 DEF SliceLookup
<1>2. ASSUME NEW c \in Call, CreateDAG(c) PROVE TypeInv'
  <2>1. call' \in [Call -> CallState]
    BY <1>2, CallStateUpdate DEF CreateDAG
  <2>2. /\ call'[c].dag = c /\ call'[c].root = call[c].root
        /\ \A e \in Call \ {c} : call'[e] = call[e]
    BY <1>2 DEF CreateDAG, CallState
  <2>3. CallOK'
    BY <1>2, <2>2 DEF CreateDAG
  <2> QED BY <1>2, <2>1, <2>3 DEF CreateDAG
<1>3. ASSUME NEW c \in Call, NEW t \in Task, SliceOne(c, t) PROVE TypeInv'
  <2>1. call' \in [Call -> CallState]
    BY <1>3, CallStateUpdate DEF SliceOne
  <2>2. call[c].dag \in Call \cup {None}
    BY DEF CallState
  <2> QED BY <1>3, <2>1, <2>2 DEF SliceOne
<1>4. ASSUME NEW t \in Task, Submit(t) PROVE TypeInv'
  BY <1>4, AppendSet DEF Submit
<1>5. ASSUME NEW t \in Task, SubmitCancelled(t) PROVE TypeInv'
  BY <1>5 DEF SubmitCancelled
<1>6. CASE Receive
  BY <1>6, TailSet DEF Receive
<1>7. CASE ChooseWorker
  BY <1>7 DEF ChooseWorker, Chosen, Registered
<1>8. CASE ChooseNone
  BY <1>8 DEF ChooseNone, AnotherTry
<1>9. CASE Send
  BY <1>9, AppendSet DEF Send
<1>10. CASE SendTimeout
  BY <1>10 DEF SendTimeout, AnotherTry
<1>11. CASE SendOnClosed
  BY <1>11 DEF SendOnClosed
<1>12. CASE ForceDispatch
  <2>1. PICK w \in Worker : HasRoom(w) /\ buf' = [buf EXCEPT ![workers[w]] = Append(@, held)]
    BY <1>12 DEF ForceDispatch
  <2>2. held \in Task /\ workers[w] \in Chan /\ Len(buf[workers[w]]) < BufSize
    BY <1>12, <2>1 DEF ForceDispatch, HasRoom, Registered
  <2>3. /\ Append(buf[workers[w]], held) \in Seq(Task)
        /\ Len(Append(buf[workers[w]], held)) = Len(buf[workers[w]]) + 1
    BY <2>2, AppendSet
  <2>4. buf' \in [Chan -> Seq(Task)] /\ \A c \in Chan : Len(buf'[c]) <= BufSize
    BY <2>1, <2>2, <2>3
  <2> QED BY <1>12, <2>4 DEF ForceDispatch
<1>13. CASE Requeue
  BY <1>13 DEF Requeue
<1>14. CASE DispatcherExit
  BY <1>14 DEF DispatcherExit
<1>15. ASSUME NEW c \in Chan, Take(c) PROVE TypeInv'
  <2>1. /\ buf[c] \in Seq(Task) /\ buf[c] # <<>>
        /\ hand' = [hand EXCEPT ![c] = Head(buf[c])]
        /\ buf' = [buf EXCEPT ![c] = Tail(buf[c])]
        /\ hpc' = [hpc EXCEPT ![c] = "exec"]
        /\ status' = [status EXCEPT ![Head(buf[c])] = "running"]
    BY <1>15 DEF Take
  <2>2. /\ Head(buf[c]) \in Task /\ Tail(buf[c]) \in Seq(Task)
        /\ Len(Tail(buf[c])) = Len(buf[c]) - 1
    BY <2>1, TailSet
  <2>3. Len(buf[c]) \in Nat /\ Len(Tail(buf[c])) <= BufSize
    BY <2>1, <2>2
  <2> QED BY <1>15, <2>1, <2>2, <2>3 DEF Take
<1>16. ASSUME NEW c \in Chan, HandlerExit(c) PROVE TypeInv'
  BY <1>16 DEF HandlerExit
<1>17. ASSUME NEW c \in Chan, ReportDone(c) PROVE TypeInv'
  BY <1>17 DEF ReportDone, Reporting, Verdict, Children
<1>18. ASSUME NEW c \in Chan, ReportRetry(c) PROVE TypeInv'
  BY <1>18 DEF ReportRetry, Reporting
<1>19. ASSUME NEW c \in Chan, ReportFailed(c) PROVE TypeInv'
  BY <1>19 DEF ReportFailed, Reporting, Verdict, Children
<1>20. ASSUME NEW c \in Chan, ReportUnknown(c) PROVE TypeInv'
  BY <1>20 DEF ReportUnknown
<1>21. ASSUME NEW c \in Chan, CheckChildren(c) PROVE TypeInv'
  BY <1>21, AggStateUpdate DEF CheckChildren
<1>22. ASSUME NEW t \in Task, AggregateRead(t) PROVE TypeInv'
  BY <1>22 DEF AggregateRead, Children, AggState
<1>23. ASSUME NEW t \in Task, AggregateWrite(t) PROVE TypeInv'
  BY <1>23 DEF AggregateWrite, AggState
<1>24. ASSUME NEW c \in Chan, NEW w \in Worker, Register(c, w) PROVE TypeInv'
  BY <1>24 DEF Register
<1>25. ASSUME NEW w \in Worker, DeregisterWorker(w) PROVE TypeInv'
  BY <1>25 DEF DeregisterWorker, Close
<1>26. CASE StopCancel
  BY <1>26 DEF StopCancel
<1>27. CASE StopClose
  BY <1>27 DEF StopClose, Close
<1>28. CASE UNCHANGED vars
  BY <1>28 DEF vars
<1> QED
  BY <1>1, <1>2, <1>3, <1>4, <1>5, <1>6, <1>7, <1>8, <1>9, <1>10, <1>11, <1>12, <1>13,
     <1>14, <1>15, <1>16, <1>17, <1>18, <1>19, <1>20, <1>21, <1>22, <1>23, <1>24, <1>25,
     <1>26, <1>27, <1>28
  DEF Next, Step, Slicing, Dispatch, Handle, Report
-----------------------------------------------------------------------------
(* Where the tasks are.                                                    *)

PipeInv == PlaceMatchesStatus /\ NeverTwice /\ AttemptsBounded

\* In a new manager nothing is in the pipeline.
LEMMA PipeInit == Init => PipeInv
BY MicroTaskAssumption
DEF Init, PipeInv, PlaceMatchesStatus, NeverTwice, AttemptsBounded, Waiting, InBuf, InExec,
    InHeld, ToSet, IsInjective

\* The variables PipeInv reads, apart from those InExec hides.
pipeVars == <<status, attempts, submit, events, held, buf>>

\* A step that moves no task keeps every place of the pipeline.
LEMMA PipeUntouched ==
  ASSUME PipeInv, UNCHANGED pipeVars, \A c \in Chan : InExec(c)' = InExec(c)
  PROVE  PipeInv'
<1>1. \A c \in Chan : InBuf(c)' = InBuf(c)
  BY DEF InBuf, pipeVars
<1>2. InHeld' = InHeld
  BY DEF InHeld, pipeVars
<1>3. Waiting' = Waiting
  BY <1>1, <1>2 DEF Waiting, pipeVars
<1> QED
  BY <1>1, <1>2, <1>3 DEF PipeInv, PlaceMatchesStatus, NeverTwice, AttemptsBounded, pipeVars

\* Every step moves a task from one place of the pipeline to one other.
LEMMA PipeStep == TypeInv /\ PipeInv /\ [Next]_vars => PipeInv'
<1> SUFFICES ASSUME TypeInv, PipeInv, [Next]_vars PROVE PipeInv'
  OBVIOUS
<1> USE MicroTaskAssumption
<1>0. TypeOK /\ DispatcherOK /\ HandlerOK
  BY DEF TypeInv
<1>t. Waiting \subseteq Task /\ \A c \in Chan : InExec(c) \subseteq Task
  BY <1>0 DEF TypeOK, HandlerOK, Waiting, InBuf, InHeld, InExec, ToSet
<1> DEFINE execKept == \A c \in Chan : InExec(c)' = InExec(c)
<1>1. ASSUME NEW c \in Call, NEW t \in Task, SliceOne(c, t) PROVE PipeInv'
  <2>1. execKept
    BY <1>1 DEF SliceOne, InExec, hdlVars
  <2>2. /\ Waiting' = Waiting \cup {t}
        /\ InHeld' = InHeld
        /\ \A e \in Chan : InBuf(e)' = InBuf(e)
    BY <1>1 DEF SliceOne, Waiting, InBuf, InHeld, dispVars
  <2>3. t \notin Waiting /\ \A e \in Chan : t \notin InExec(e)
    BY <1>1 DEF SliceOne, PipeInv, PlaceMatchesStatus
  <2>4. AttemptsBounded'
    BY <1>0, <1>1 DEF SliceOne, PipeInv, AttemptsBounded, TypeOK
  <2>5. PlaceMatchesStatus'
    BY <1>0, <1>1, <2>1, <2>2, <2>3 DEF SliceOne, PipeInv, PlaceMatchesStatus, TypeOK
  <2>6. NeverTwice'
    BY <1>1, <2>1, <2>2, <2>3 DEF SliceOne, PipeInv, NeverTwice, Waiting
  <2> QED BY <2>4, <2>5, <2>6 DEF PipeInv
<1>2. ASSUME NEW t \in Task, Submit(t) PROVE PipeInv'
  <2>1. execKept
    BY <1>2 DEF Submit, InExec, hdlVars
  <2>2. /\ ToSet(events') = ToSet(events) \cup {t}
        /\ IsInjective(events')
    BY <1>0, <1>2, AppendSet DEF Submit, TypeOK, PipeInv, NeverTwice
  <2>3. /\ InHeld' = InHeld
        /\ \A e \in Chan : InBuf(e)' = InBuf(e)
        /\ Waiting' = Waiting
    BY <1>2, <2>2 DEF Submit, Waiting, InBuf, InHeld, dispVars
  <2>4. NeverTwice'
    BY <1>2, <2>1, <2>2, <2>3 DEF Submit, PipeInv, NeverTwice
  <2> QED BY <1>2, <2>1, <2>3, <2>4
          DEF Submit, PipeInv, PlaceMatchesStatus, AttemptsBounded, taskVars
<1>3. ASSUME NEW t \in Task, SubmitCancelled(t) PROVE PipeInv'
  <2>1. execKept
    BY <1>3 DEF SubmitCancelled, InExec, hdlVars
  <2>2. /\ InHeld' = InHeld
        /\ \A e \in Chan : InBuf(e)' = InBuf(e)
        /\ Waiting' \subseteq Waiting
    BY <1>3 DEF SubmitCancelled, Waiting, InBuf, InHeld, dispVars
  <2>3. NeverTwice'
    BY <1>3, <2>1, <2>2 DEF SubmitCancelled, PipeInv, NeverTwice
  <2> QED BY <1>3, <2>1, <2>2, <2>3
          DEF SubmitCancelled, PipeInv, PlaceMatchesStatus, AttemptsBounded, taskVars
<1>4. CASE Receive
  <2>1. execKept
    BY <1>4 DEF Receive, InExec, hdlVars
  <2>2. /\ held' \in ToSet(events)
        /\ ToSet(events') = ToSet(events) \ {held'}
        /\ IsInjective(events')
    BY <1>0, <1>4, TailSet DEF Receive, TypeOK, PipeInv, NeverTwice
  <2>3. held = None
    BY <1>0, <1>4 DEF Receive, DispatcherOK
  <2>4. held' # None
    BY <1>0, <1>4, TailSet DEF Receive, TypeOK
  <2>5. /\ InHeld = {} /\ InHeld' = {held'}
        /\ \A e \in Chan : InBuf(e)' = InBuf(e)
        /\ Waiting' = Waiting
    BY <1>4, <2>2, <2>3, <2>4 DEF Receive, Waiting, InBuf, InHeld
  <2>6. NeverTwice'
    BY <1>4, <2>1, <2>2, <2>5 DEF Receive, PipeInv, NeverTwice
  <2> QED BY <1>4, <2>1, <2>5, <2>6
          DEF Receive, PipeInv, PlaceMatchesStatus, AttemptsBounded, taskVars
<1>5. ASSUME NEW e \in Chan, held \in Task, held' = None,
             buf' = [buf EXCEPT ![e] = Append(@, held)],
             UNCHANGED <<status, attempts, submit, events>>, execKept
      PROVE  PipeInv'
  <2>1. /\ InBuf(e)' = InBuf(e) \cup {held}
        /\ IsInjective(buf'[e])
        /\ \A f \in Chan \ {e} : buf'[f] = buf[f]
    BY <1>0, <1>5, AppendSet DEF TypeOK, InBuf, InHeld, PipeInv, NeverTwice
  <2>2. /\ InHeld = {held} /\ InHeld' = {}
        /\ \A f \in Chan \ {e} : InBuf(f)' = InBuf(f)
    BY <1>5, <2>1 DEF InBuf, InHeld
  <2>3. Waiting' = Waiting
    BY <1>5, <2>1, <2>2 DEF Waiting
  <2>4. NeverTwice'
    BY <1>5, <2>1, <2>2, <2>3 DEF PipeInv, NeverTwice
  <2> QED BY <1>5, <2>3, <2>4 DEF PipeInv, PlaceMatchesStatus, AttemptsBounded
<1>6. CASE Send
  <2>1. execKept
    BY <1>6 DEF Send, InExec, hdlVars
  <2> QED BY <1>0, <1>5, <1>6, <2>1 DEF Send, DispatcherOK, taskVars
<1>7. CASE ForceDispatch
  <2>1. execKept
    BY <1>7 DEF ForceDispatch, InExec, hdlVars
  <2>2. PICK w \in Worker : /\ workers[w] \in Chan
                            /\ buf' = [buf EXCEPT ![workers[w]] = Append(@, held)]
    BY <1>0, <1>7 DEF ForceDispatch, HasRoom, Registered, TypeOK
  <2> QED BY <1>0, <1>5, <1>7, <2>1, <2>2 DEF ForceDispatch, DispatcherOK, taskVars
<1>8. CASE Requeue
  <2>1. execKept
    BY <1>8 DEF Requeue, InExec, hdlVars
  <2>2. /\ InHeld = {held} /\ InHeld' = {}
        /\ \A e \in Chan : InBuf(e)' = InBuf(e)
    BY <1>0, <1>8 DEF Requeue, DispatcherOK, InBuf, InHeld
  <2>3. Waiting' = Waiting
    BY <1>8, <2>2 DEF Requeue, Waiting
  <2>4. NeverTwice'
    BY <1>8, <2>1, <2>2, <2>3 DEF Requeue, PipeInv, NeverTwice
  <2> QED BY <1>8, <2>1, <2>3, <2>4
          DEF Requeue, PipeInv, PlaceMatchesStatus, AttemptsBounded, taskVars
<1>9. CASE DispatcherExit
  <2>1. execKept
    BY <1>9 DEF DispatcherExit, InExec, hdlVars
  <2>2. /\ InHeld' = {}
        /\ \A e \in Chan : InBuf(e)' = InBuf(e)
    BY <1>9 DEF DispatcherExit, InBuf, InHeld
  <2>3. Waiting' \subseteq Waiting
    BY <1>9, <2>2 DEF DispatcherExit, Waiting
  <2>4. NeverTwice'
    BY <1>9, <2>1, <2>2, <2>3 DEF DispatcherExit, PipeInv, NeverTwice
  <2> QED BY <1>9, <2>1, <2>3, <2>4
          DEF DispatcherExit, PipeInv, PlaceMatchesStatus, AttemptsBounded, taskVars
<1>10. ASSUME NEW c \in Chan, Take(c) PROVE PipeInv'
  <2> DEFINE t == Head(buf[c])
  <2>1. /\ t \in InBuf(c) /\ t \in Task
        /\ InBuf(c)' = InBuf(c) \ {t}
        /\ IsInjective(buf'[c])
        /\ \A e \in Chan \ {c} : buf'[e] = buf[e]
    BY <1>0, <1>10, TailSet DEF Take, TypeOK, InBuf, PipeInv, NeverTwice
  <2>2. /\ InExec(c) = {} /\ InExec(c)' = {t}
        /\ \A e \in Chan \ {c} : InExec(e)' = InExec(e)
    BY <1>0, <1>10 DEF Take, InExec, TypeOK
  <2>3. /\ InHeld' = InHeld
        /\ \A e \in Chan \ {c} : InBuf(e)' = InBuf(e)
    BY <1>10, <2>1 DEF Take, InBuf, InHeld, dispVars
  <2>4. status[t] = "pending"
    BY <2>1 DEF PipeInv, PlaceMatchesStatus, Waiting
  <2>5. Waiting' = Waiting \ {t}
    BY <1>10, <2>1, <2>3 DEF Take, Waiting, PipeInv, NeverTwice
  <2>6. \A e \in Chan : t \notin InExec(e)
    BY <2>4 DEF PipeInv, PlaceMatchesStatus
  <2> HIDE DEF t
  <2>7. NeverTwice'
    <3>1. \A e \in Chan : IsInjective(buf'[e])
      BY <2>1 DEF PipeInv, NeverTwice
    <3>2. \A e \in Chan : InBuf(e)' \subseteq InBuf(e)
      BY <2>1, <2>3
    <3>3. \A e \in Chan : \A f \in Chan \ {e} : InExec(e)' \cap InExec(f)' = {}
      BY <2>2, <2>6 DEF PipeInv, NeverTwice
    <3>4. \A e \in Chan : InExec(e)' \cap Waiting' = {}
      BY <2>2, <2>5 DEF PipeInv, NeverTwice
    <3> QED BY <1>10, <2>3, <3>1, <3>2, <3>3, <3>4 DEF Take, PipeInv, NeverTwice
  <2>8. status' = [status EXCEPT ![t] = "running"] /\ attempts' = attempts
    BY <1>10 DEF Take, t
  <2>9. PlaceMatchesStatus'
    <3>1. status'[t] = "running" /\ \A u \in Task \ {t} : status'[u] = status[u]
      BY <1>0, <2>1, <2>8 DEF TypeOK
    <3>2. \A u \in Waiting' : status'[u] = "pending"
      BY <1>t, <2>5, <3>1 DEF PipeInv, PlaceMatchesStatus
    <3>3. \A e \in Chan : \A u \in InExec(e)' : status'[u] = "running"
      BY <1>t, <2>2, <2>6, <3>1 DEF PipeInv, PlaceMatchesStatus
    <3> QED BY <3>2, <3>3 DEF PlaceMatchesStatus
  <2>10. AttemptsBounded'
    BY <1>0, <2>1, <2>4, <2>8 DEF PipeInv, AttemptsBounded, TypeOK
  <2> QED BY <2>7, <2>9, <2>10 DEF PipeInv
<1>11. ASSUME NEW c \in Chan, UNCHANGED <<submit, events, held, buf>>,
              hpc[c] = "exec",
              InExec(c)' = {}, \A e \in Chan \ {c} : InExec(e)' = InExec(e),
              \A t \in Task \ {hand[c]} : status'[t] = status[t],
              AttemptsBounded'
       PROVE  PipeInv'
  <2>1. /\ InHeld' = InHeld /\ Waiting' = Waiting
        /\ \A e \in Chan : InBuf(e)' = InBuf(e)
    BY <1>11 DEF Waiting, InBuf, InHeld
  <2>2. InExec(c) = {hand[c]} /\ Waiting \subseteq Task
    BY <1>t, <1>11 DEF InExec
  <2>3. NeverTwice'
    BY <1>11, <2>1 DEF PipeInv, NeverTwice
  <2>4. \A e \in Chan \ {c} : InExec(e) \subseteq Task \ {hand[c]}
    BY <1>t, <2>2 DEF PipeInv, NeverTwice
  <2>5. PlaceMatchesStatus'
    BY <1>11, <2>1, <2>2, <2>4 DEF PipeInv, PlaceMatchesStatus, NeverTwice
  <2> QED BY <1>11, <2>3, <2>5 DEF PipeInv
<1>12. ASSUME NEW c \in Chan, hpc[c] = "exec"
       PROVE  hand[c] \in Task /\ status[hand[c]] = "running"
  BY <1>0, <1>12 DEF HandlerOK, PipeInv, PlaceMatchesStatus, InExec
<1>13. ASSUME NEW c \in Chan, ReportDone(c) PROVE PipeInv'
  <2>1. InExec(c)' = {} /\ \A e \in Chan \ {c} : InExec(e)' = InExec(e)
    BY <1>0, <1>13 DEF ReportDone, Verdict, InExec, TypeOK
  <2>2. AttemptsBounded'
    BY <1>0, <1>12, <1>13
    DEF ReportDone, Reporting, Verdict, TypeOK, PipeInv, AttemptsBounded
  <2> QED BY <1>0, <1>11, <1>13, <2>1, <2>2
          DEF ReportDone, Reporting, Verdict, TypeOK, dispVars
<1>14. ASSUME NEW c \in Chan, ReportFailed(c) PROVE PipeInv'
  <2>1. InExec(c)' = {} /\ \A e \in Chan \ {c} : InExec(e)' = InExec(e)
    BY <1>0, <1>14 DEF ReportFailed, Verdict, InExec, TypeOK
  <2>2. AttemptsBounded'
    BY <1>0, <1>12, <1>14
    DEF ReportFailed, Reporting, Verdict, RetriesLeft, TypeOK, PipeInv, AttemptsBounded
  <2> QED BY <1>0, <1>11, <1>14, <2>1, <2>2
          DEF ReportFailed, Reporting, Verdict, TypeOK, dispVars
<1>15. ASSUME NEW c \in Chan, ReportUnknown(c) PROVE PipeInv'
  <2>1. InExec(c)' = {} /\ \A e \in Chan \ {c} : InExec(e)' = InExec(e)
    BY <1>0, <1>15 DEF ReportUnknown, InExec, TypeOK
  <2>2. AttemptsBounded'
    BY <1>15 DEF ReportUnknown, PipeInv, AttemptsBounded, taskVars
  <2> QED BY <1>11, <1>15, <2>1, <2>2 DEF ReportUnknown, taskVars, dispVars
<1>16. ASSUME NEW c \in Chan, ReportRetry(c) PROVE PipeInv'
  <2> DEFINE t == hand[c]
  <2>1. /\ InExec(c) = {t} /\ InExec(c)' = {}
        /\ \A e \in Chan \ {c} : InExec(e)' = InExec(e)
        /\ t \in Task /\ status[t] = "running"
    BY <1>0, <1>12, <1>16 DEF ReportRetry, Reporting, InExec, TypeOK
  <2>2. /\ InHeld' = InHeld /\ submit' = submit \cup {t} /\ Waiting' = Waiting \cup {t}
        /\ \A e \in Chan : InBuf(e)' = InBuf(e)
    BY <1>16 DEF ReportRetry, Waiting, InBuf, InHeld, dispVars
  <2>3. t \notin Waiting
    BY <2>1 DEF PipeInv, PlaceMatchesStatus
  <2>4. /\ status' = [status EXCEPT ![t] = "pending"]
        /\ attempts' = [attempts EXCEPT ![t] = @ + 1]
        /\ attempts[t] < MaxRetries
        /\ events' = events /\ buf' = buf
    BY <1>16 DEF ReportRetry, RetriesLeft
  <2> HIDE DEF t
  <2>5. \A e \in Chan \ {c} : t \notin InExec(e)
    BY <2>1 DEF PipeInv, NeverTwice
  <2>6. NeverTwice'
    <3>1. t \notin InHeld /\ t \notin ToSet(events) /\ \A e \in Chan : t \notin InBuf(e)
      BY <2>3 DEF Waiting
    <3>2. \A e \in Chan : InExec(e)' \cap Waiting' = {}
      BY <2>1, <2>2, <2>5 DEF PipeInv, NeverTwice
    <3> QED BY <2>1, <2>2, <2>4, <3>1, <3>2 DEF PipeInv, NeverTwice
  <2>7. PlaceMatchesStatus'
    <3>1. status'[t] = "pending" /\ \A u \in Task \ {t} : status'[u] = status[u]
      BY <1>0, <2>1, <2>4 DEF TypeOK
    <3>2. \A u \in Waiting' : status'[u] = "pending"
      BY <1>t, <2>2, <3>1 DEF PipeInv, PlaceMatchesStatus
    <3>3. \A e \in Chan : \A u \in InExec(e)' : status'[u] = "running"
      BY <1>t, <2>1, <2>5, <3>1 DEF PipeInv, PlaceMatchesStatus
    <3> QED BY <3>2, <3>3 DEF PlaceMatchesStatus
  <2>8. AttemptsBounded'
    BY <1>0, <2>1, <2>4 DEF PipeInv, AttemptsBounded, TypeOK
  <2> QED BY <2>6, <2>7, <2>8 DEF PipeInv
<1>17. ASSUME NEW c \in Chan, hpc[c] # "exec", hpc'[c] # "exec",
              \A e \in Chan \ {c} : hpc'[e] = hpc[e] /\ hand'[e] = hand[e],
              UNCHANGED pipeVars
       PROVE  PipeInv'
  <2>1. execKept
    BY <1>17 DEF InExec
  <2> QED BY <1>17, <2>1, PipeUntouched
<1>18. ASSUME NEW c \in Chan, HandlerExit(c) \/ CheckChildren(c) PROVE PipeInv'
  BY <1>0, <1>17, <1>18
  DEF HandlerExit, CheckChildren, TypeOK, pipeVars, taskVars, dispVars
<1>19. ASSUME NEW c \in Chan, NEW w \in Worker, Register(c, w) PROVE PipeInv'
  BY <1>0, <1>17, <1>19 DEF Register, TypeOK, pipeVars, taskVars, dispVars
<1>20. ASSUME UNCHANGED pipeVars, UNCHANGED hdlVars PROVE PipeInv'
  BY <1>20, PipeUntouched DEF InExec, hdlVars
<1>21. ASSUME NEW c \in Call,
              CreateDAG(c) \/ \E r \in Root, n \in 1..MaxSlices : SliceLookup(c, r, n)
       PROVE  PipeInv'
  BY <1>20, <1>21 DEF CreateDAG, SliceLookup, pipeVars, taskVars, dispVars
<1>22. CASE ChooseWorker \/ ChooseNone \/ SendTimeout \/ SendOnClosed
  BY <1>20, <1>22
  DEF ChooseWorker, ChooseNone, SendTimeout, SendOnClosed, AnotherTry, pipeVars, taskVars,
      dispVars
<1>23. ASSUME NEW t \in Task, AggregateRead(t) \/ AggregateWrite(t) PROVE PipeInv'
  BY <1>20, <1>23 DEF AggregateRead, AggregateWrite, pipeVars, taskVars, dispVars
<1>24. CASE \/ \E w \in Worker : DeregisterWorker(w)
            \/ StopCancel \/ StopClose \/ UNCHANGED vars
  BY <1>20, <1>24
  DEF DeregisterWorker, Close, StopCancel, StopClose, vars, pipeVars, taskVars, dispVars
<1> QED
  BY <1>1, <1>2, <1>3, <1>4, <1>6, <1>7, <1>8, <1>9, <1>10, <1>13, <1>14, <1>15, <1>16,
     <1>18, <1>19, <1>21, <1>22, <1>23, <1>24
  DEF Next, Step, Slicing, Dispatch, Handle, Report
-----------------------------------------------------------------------------
(* Which DAG a task is a node of.                                          *)

Made(d) == d \in Call /\ call[d].pc = "slice" /\ call[d].dag = d

DagInv ==
  /\ \A r \in Root : dags[r] # None => Made(dags[r]) /\ call[dags[r]].root = r
  /\ \A c \in Call : call[c].pc = "slice" => Made(call[c].dag)
  /\ \A t \in Task : IF status[t] = "absent" THEN home[t] = None ELSE Made(home[t])

\* A new manager has no DAG and no task.
LEMMA DagInit == Init => DagInv
BY DEF Init, DagInv

\* A step that creates no DAG and no task keeps their links.
LEMMA DagUntouched ==
  ASSUME DagInv, UNCHANGED <<call, dags, home>>,
         \A t \in Task : status'[t] = "absent" <=> status[t] = "absent"
  PROVE  DagInv'
BY DEF DagInv, Made

\* SliceTask keeps every task in a DAG that a call has made.
LEMMA DagStep == TypeInv /\ PipeInv /\ DagInv /\ [Next]_vars => DagInv'
<1> SUFFICES ASSUME TypeInv, PipeInv, DagInv, [Next]_vars PROVE DagInv'
  OBVIOUS
<1>0. TypeOK /\ HandlerOK /\ CallOK /\ None \notin Call
  BY MicroTaskAssumption DEF TypeInv
<1>1. ASSUME NEW c \in Call, NEW r \in Root, NEW n \in 1..MaxSlices, SliceLookup(c, r, n)
      PROVE  DagInv'
  <2>1. \A d \in Call \ {c} : call'[d] = call[d]
    BY <1>1 DEF SliceLookup
  <2>2. ~Made(c)
    BY <1>1 DEF SliceLookup, Made
  <2>3. \A d : Made(d) => d # c /\ Made(d)' /\ call'[d].root = call[d].root
    BY <2>1, <2>2 DEF Made
  <2>4. call'[c].pc = "slice" => call'[c].dag # None /\ call'[c].dag = dags[r]
    BY <1>0, <1>1 DEF SliceLookup, TypeOK
  <2>5. UNCHANGED <<dags, home, status>>
    BY <1>1 DEF SliceLookup, taskVars
  <2> QED BY <1>0, <2>1, <2>3, <2>4, <2>5 DEF DagInv
<1>2. ASSUME NEW c \in Call, CreateDAG(c) PROVE DagInv'
  <2>1. \A d \in Call \ {c} : call'[d] = call[d]
    BY <1>0, <1>2 DEF CreateDAG, TypeOK
  <2>2. Made(c)' /\ call'[c].root = call[c].root
    BY <1>0, <1>2 DEF CreateDAG, TypeOK, CallState, Made
  <2>3. \A d : Made(d) => Made(d)' /\ call'[d].root = call[d].root
    BY <2>1, <2>2 DEF Made
  <2>4. /\ UNCHANGED <<home, status>>
        /\ dags'[call[c].root] = c
        /\ \A r \in Root \ {call[c].root} : dags'[r] = dags[r]
    BY <1>0, <1>2 DEF CreateDAG, taskVars, TypeOK, CallOK
  <2>5. \A r \in Root : dags'[r] # None => Made(dags[r])' /\ call'[dags'[r]].root = r
    BY <2>2, <2>3, <2>4 DEF DagInv
  <2>6. \A d \in Call : call'[d].pc = "slice" => Made(call[d].dag)'
    BY <2>1, <2>2, <2>3 DEF DagInv, Made
  <2>7. \A t \in Task : IF status'[t] = "absent" THEN home'[t] = None ELSE Made(home[t])'
    BY <2>3, <2>4 DEF DagInv
  <2> QED BY <2>5, <2>6, <2>7 DEF DagInv, Made
<1>3. ASSUME NEW c \in Call, NEW t \in Task, SliceOne(c, t) PROVE DagInv'
  <2>1. \A d \in Call : /\ call'[d].pc = call[d].pc /\ call'[d].dag = call[d].dag
                        /\ call'[d].root = call[d].root
    BY <1>0, <1>3 DEF SliceOne, TypeOK, CallState
  <2>2. \A d : Made(d) => Made(d)'
    BY <2>1 DEF Made
  <2>3. Made(call[c].dag)
    BY <1>3 DEF SliceOne, DagInv
  <2>4. /\ dags' = dags /\ home'[t] = call[c].dag
        /\ \A u \in Task \ {t} : home'[u] = home[u] /\ status'[u] = status[u]
        /\ status'[t] # "absent"
    BY <1>0, <1>3 DEF SliceOne, TypeOK
  <2>5. \A r \in Root : dags'[r] # None => Made(dags[r])' /\ call'[dags'[r]].root = r
    BY <2>1, <2>2, <2>4 DEF DagInv, Made
  <2>6. \A d \in Call : call'[d].pc = "slice" => Made(call[d].dag)'
    BY <2>1, <2>2 DEF DagInv
  <2>7. \A u \in Task : IF status'[u] = "absent" THEN home'[u] = None ELSE Made(home[u])'
    BY <2>2, <2>3, <2>4 DEF DagInv
  <2> QED BY <2>5, <2>6, <2>7 DEF DagInv, Made
<1>4. ASSUME NEW c \in Chan, Take(c) PROVE DagInv'
  <2>1. Head(buf[c]) \in InBuf(c)
    BY <1>0, <1>4, TailSet DEF Take, TypeOK, InBuf
  <2>2. status[Head(buf[c])] = "pending"
    BY <2>1 DEF PipeInv, PlaceMatchesStatus, Waiting
  <2> QED BY <1>0, <1>4, <2>2, DagUntouched DEF Take, callVars, TypeOK
<1>5. ASSUME NEW c \in Chan, hpc[c] = "exec" PROVE status[hand[c]] # "absent"
  BY <1>5 DEF PipeInv, PlaceMatchesStatus, InExec
<1>6. ASSUME NEW c \in Chan, ReportDone(c) \/ ReportRetry(c) \/ ReportFailed(c) PROVE DagInv'
  BY <1>0, <1>5, <1>6, DagUntouched
  DEF ReportDone, ReportRetry, ReportFailed, Reporting, Verdict, callVars, TypeOK
<1>7. CASE UNCHANGED <<callVars, taskVars>>
  BY <1>7, DagUntouched DEF callVars, taskVars
<1>8. ASSUME NEW t \in Task, \/ Submit(t) \/ SubmitCancelled(t)
                             \/ AggregateRead(t) \/ AggregateWrite(t)
      PROVE  DagInv'
  BY <1>7, <1>8 DEF Submit, SubmitCancelled, AggregateRead, AggregateWrite
<1>9. CASE Dispatch
  BY <1>7, <1>9 DEF Dispatch, Receive, ChooseWorker, ChooseNone, Send, SendTimeout,
                    SendOnClosed, ForceDispatch, Requeue, DispatcherExit, AnotherTry
<1>10. ASSUME NEW c \in Chan, HandlerExit(c) \/ ReportUnknown(c) \/ CheckChildren(c)
      PROVE  DagInv'
  BY <1>7, <1>10 DEF HandlerExit, ReportUnknown, CheckChildren
<1>11. CASE \/ \E c \in Chan, w \in Worker : Register(c, w)
            \/ \E w \in Worker : DeregisterWorker(w)
            \/ StopCancel \/ StopClose \/ UNCHANGED vars
  BY <1>7, <1>11 DEF Register, DeregisterWorker, Close, StopCancel, StopClose, vars
<1> QED
  BY <1>1, <1>2, <1>3, <1>4, <1>6, <1>8, <1>9, <1>10, <1>11
  DEF Next, Step, Slicing, Handle, Report
-----------------------------------------------------------------------------
(* No task is lost before Stop.                                            *)

\* With a handler, or in a DAG that ReportResult will not find any more.
Handled(t) == (\E c \in Chan : t \in InExec(c)) \/ Current(t) # home[t]

KeptTask(t) == /\ status[t] = "pending" => t \in Waiting
               /\ status[t] = "running" => Handled(t)

\* No task exists in a new manager.
LEMMA LostInit == Init => NoTaskLost
BY DEF Init, NoTaskLost

\* The pipeline only gains tasks and no handler lets go of one.
LEMMA KeptUntouched ==
  ASSUME \A t \in Task : KeptTask(t), UNCHANGED <<status, home, call, dags>>,
         Waiting \subseteq Waiting', \A c \in Chan : InExec(c) \subseteq InExec(c)'
  PROVE  \A t \in Task : KeptTask(t)'
BY DEF KeptTask, Handled, Current

\* A handler leaves the task it holds; the other tasks stay where they are.
LEMMA KeptReported ==
  ASSUME \A t \in Task : KeptTask(t), NEW c \in Chan, NEW h \in Task, h = hand[c],
         UNCHANGED <<home, call, dags>>,
         Waiting \subseteq Waiting', \A e \in Chan \ {c} : InExec(e) = InExec(e)',
         \A t \in Task \ {h} : status'[t] = status[t],
         KeptTask(h)'
  PROVE  \A t \in Task : KeptTask(t)'
<1> SUFFICES ASSUME NEW t \in Task, t # h PROVE KeptTask(t)'
  OBVIOUS
<1>1. status'[t] = status[t] /\ KeptTask(t)
  OBVIOUS
<1>2. Current(t)' = Current(t) /\ home'[t] = home[t]
  BY DEF Current
<1>3. \A e \in Chan : t \in InExec(e) => t \in InExec(e)'
  BY DEF InExec
<1> QED BY <1>1, <1>2, <1>3 DEF KeptTask, Handled

\* Every step of a manager that is not stopped keeps each pending task in
\* the pipeline and each running one with its handler.
LEMMA LostStep ==
  TypeInv /\ PipeInv /\ DagInv /\ NoTaskLost /\ [Next]_vars => NoTaskLost'
<1> SUFFICES ASSUME TypeInv, PipeInv, DagInv, NoTaskLost, [Next]_vars PROVE NoTaskLost'
  OBVIOUS
<1>i. (stop' = "no" => \A t \in Task : KeptTask(t)') => NoTaskLost'
  BY Zenon DEF NoTaskLost, KeptTask, Handled
<1> SUFFICES ASSUME stop' = "no" PROVE \A t \in Task : KeptTask(t)'
  BY <1>i
<1>0. TypeOK /\ HandlerOK /\ DispatcherOK /\ CallOK /\ None \notin Call
  BY MicroTaskAssumption DEF TypeInv
<1>s. stop = "no"
  <2>1. StopCancel => stop' = "cancelled"
    BY DEF StopCancel
  <2>2. StopClose => stop' = "closed"
    BY DEF StopClose
  <2>3. [Next]_vars => StopCancel \/ StopClose \/ UNCHANGED stop
    BY DEF Next, Step, Slicing, Dispatch, Handle, Report, SliceLookup, CreateDAG, SliceOne,
           Submit, SubmitCancelled, Receive, ChooseWorker, ChooseNone, Send, SendTimeout,
           SendOnClosed, ForceDispatch, Requeue, DispatcherExit, AnotherTry, Take, HandlerExit,
           ReportDone, ReportRetry, ReportFailed, ReportUnknown, CheckChildren,
           AggregateRead, AggregateWrite, Register, DeregisterWorker, vars
  <2> QED BY <2>1, <2>2, <2>3
<1>k. \A t \in Task : KeptTask(t)
  BY <1>s DEF NoTaskLost, KeptTask, Handled
<1> DEFINE execKept == \A c \in Chan : InExec(c)' = InExec(c)
           bufsKept == \A c \in Chan : InBuf(c)' = InBuf(c)
<1>1. ASSUME NEW c \in Call, NEW r \in Root, NEW n \in 1..MaxSlices, SliceLookup(c, r, n)
      PROVE  \A t \in Task : KeptTask(t)'
  <2>1. \A t \in Task : status[t] # "absent" => Current(t)' = Current(t)
    BY <1>0, <1>1 DEF SliceLookup, Current, DagInv, Made, taskVars, TypeOK
  <2>2. execKept /\ Waiting' = Waiting
    BY <1>1 DEF SliceLookup, InExec, hdlVars, Waiting, InBuf, InHeld, dispVars
  <2>3. UNCHANGED <<status, home>>
    BY <1>1 DEF SliceLookup, taskVars
  <2> QED BY <1>k, <2>1, <2>2, <2>3 DEF KeptTask, Handled
<1>2. ASSUME NEW c \in Call, CreateDAG(c) PROVE \A t \in Task : KeptTask(t)'
  <2>1. \A t \in Task : status[t] # "absent" /\ Current(t) # home[t]
                          => Current(t)' # home[t]
    <3> SUFFICES ASSUME NEW t \in Task, status[t] # "absent", Current(t) # home[t]
                 PROVE  Current(t)' # home[t]
      OBVIOUS
    <3>1. Made(home[t]) /\ home[t] # c /\ home' = home
      BY <1>2 DEF DagInv, Made, CreateDAG, taskVars
    <3>2. call'[home[t]].root = call[home[t]].root
      BY <1>0, <1>2, <3>1 DEF CreateDAG, TypeOK, Made
    <3>3. Current(t)' \in {Current(t), c}
      BY <1>0, <1>2, <3>1, <3>2 DEF CreateDAG, TypeOK, Current, Made, CallOK
    <3> QED BY <3>1, <3>3
  <2>2. execKept /\ Waiting' = Waiting
    BY <1>2 DEF CreateDAG, InExec, hdlVars, Waiting, InBuf, InHeld, dispVars
  <2>3. UNCHANGED <<status, home>>
    BY <1>2 DEF CreateDAG, taskVars
  <2> QED BY <1>k, <2>1, <2>2, <2>3 DEF KeptTask, Handled
<1>3. ASSUME NEW c \in Call, NEW t \in Task, SliceOne(c, t) PROVE \A u \in Task : KeptTask(u)'
  <2>1. execKept /\ Waiting' = Waiting \cup {t}
    BY <1>3 DEF SliceOne, InExec, hdlVars, Waiting, InBuf, InHeld, dispVars
  <2>2. status'[t] = "pending" /\ \A u \in Task \ {t} : /\ status'[u] = status[u]
                                                         /\ home'[u] = home[u]
    BY <1>0, <1>3 DEF SliceOne, TypeOK
  <2>3. \A d \in Call : call'[d].root = call[d].root
    BY <1>0, <1>3 DEF SliceOne, TypeOK, CallState
  <2>4. \A u \in Task \ {t} : status[u] # "absent" => Current(u)' = Current(u)
    BY <1>3, <2>2, <2>3 DEF SliceOne, Current, DagInv, Made
  <2> QED BY <1>k, <2>1, <2>2, <2>4 DEF KeptTask, Handled
<1>4. ASSUME NEW t \in Task, Submit(t) PROVE \A u \in Task : KeptTask(u)'
  <2>1. ToSet(events') = ToSet(events) \cup {t}
    BY <1>0, <1>4, AppendSet DEF Submit, TypeOK
  <2>2. execKept /\ Waiting' = Waiting
    BY <1>4, <2>1 DEF Submit, InExec, hdlVars, Waiting, InBuf, InHeld, dispVars
  <2> QED BY <1>4, <1>k, <2>2, KeptUntouched DEF Submit, taskVars, callVars
<1>5. CASE Receive
  <2>1. ToSet(events') = ToSet(events) \ {held'}
    BY <1>0, <1>5, TailSet DEF Receive, TypeOK, PipeInv, NeverTwice
  <2>2. held = None /\ held' \in Task
    BY <1>0, <1>5, TailSet DEF Receive, DispatcherOK, TypeOK
  <2>3. execKept /\ Waiting \subseteq Waiting'
    BY <1>5, <2>1, <2>2, MicroTaskAssumption
    DEF Receive, InExec, hdlVars, Waiting, InBuf, InHeld
  <2> QED BY <1>5, <1>k, <2>3, KeptUntouched DEF Receive, taskVars, callVars
<1>6. ASSUME NEW e \in Chan, held \in Task, buf' = [buf EXCEPT ![e] = Append(@, held)],
             UNCHANGED <<status, home, call, dags, submit, events>>, execKept
      PROVE  \A t \in Task : KeptTask(t)'
  <2>1. InBuf(e)' = InBuf(e) \cup {held} /\ \A f \in Chan \ {e} : InBuf(f)' = InBuf(f)
    BY <1>0, <1>6, AppendSet DEF TypeOK, InBuf
  <2>2. Waiting \subseteq Waiting'
    BY <1>6, <2>1 DEF Waiting, InHeld
  <2> QED BY <1>6, <1>k, <2>2, KeptUntouched
<1>7. CASE Send
  <2>1. execKept
    BY <1>7 DEF Send, InExec, hdlVars
  <2> QED BY <1>0, <1>6, <1>7, <2>1 DEF Send, DispatcherOK, taskVars, callVars
<1>8. CASE ForceDispatch
  <2>1. execKept
    BY <1>8 DEF ForceDispatch, InExec, hdlVars
  <2>2. PICK w \in Worker : /\ workers[w] \in Chan
                            /\ buf' = [buf EXCEPT ![workers[w]] = Append(@, held)]
    BY <1>0, <1>8 DEF ForceDispatch, HasRoom, Registered, TypeOK
  <2> QED BY <1>0, <1>6, <1>8, <2>1, <2>2 DEF ForceDispatch, DispatcherOK, taskVars, callVars
<1>9. CASE Requeue
  <2>1. execKept /\ Waiting \subseteq Waiting'
    BY <1>9 DEF Requeue, InExec, hdlVars, Waiting, InBuf, InHeld
  <2> QED BY <1>9, <1>k, <2>1, KeptUntouched DEF Requeue, taskVars, callVars
<1>10. ASSUME NEW c \in Chan, Take(c) PROVE \A t \in Task : KeptTask(t)'
  <2> DEFINE t == Head(buf[c])
  <2>1. t \in Task /\ InBuf(c)' = InBuf(c) \ {t}
    BY <1>0, <1>10, TailSet DEF Take, TypeOK, InBuf, PipeInv, NeverTwice
  <2>2. /\ InExec(c) = {} /\ InExec(c)' = {t}
        /\ \A e \in Chan \ {c} : InExec(e)' = InExec(e) /\ InBuf(e)' = InBuf(e)
    BY <1>0, <1>10 DEF Take, InExec, InBuf, TypeOK
  <2>3. /\ status'[t] = "running"
        /\ \A u \in Task \ {t} : status'[u] = status[u]
    BY <1>0, <1>10, <2>1 DEF Take, TypeOK
  <2> HIDE DEF t
  <2>4. Waiting \ {t} \subseteq Waiting'
    BY <1>10, <2>1, <2>2 DEF Take, Waiting, InHeld, dispVars
  <2>5. \A u \in Task : Current(u)' = Current(u) /\ home'[u] = home[u]
    BY <1>10 DEF Take, Current, callVars
  <2> QED BY <1>k, <2>1, <2>2, <2>3, <2>4, <2>5 DEF KeptTask, Handled
<1>11. ASSUME NEW c \in Chan, ReportDone(c) \/ ReportFailed(c) PROVE \A t \in Task : KeptTask(t)'
  <2>1. PICK h \in Task : h = hand[c]
    BY <1>0, <1>11 DEF ReportDone, ReportFailed, Reporting, HandlerOK
  <2>2. Waiting' = Waiting
    BY <1>11 DEF ReportDone, ReportFailed, Waiting, InBuf, InHeld, dispVars
  <2>3. \A e \in Chan \ {c} : InExec(e)' = InExec(e)
    BY <1>0, <1>11 DEF ReportDone, ReportFailed, Verdict, InExec, TypeOK
  <2>4. /\ status'[h] \in {"done", "failed"}
        /\ \A t \in Task \ {h} : status'[t] = status[t]
        /\ UNCHANGED <<home, call, dags>>
    BY <1>0, <1>11, <2>1 DEF ReportDone, ReportFailed, Verdict, TypeOK, callVars
  <2>5. KeptTask(h)'
    BY <2>4 DEF KeptTask
  <2> QED BY <1>k, <2>1, <2>2, <2>3, <2>4, <2>5, KeptReported
<1>12. ASSUME NEW c \in Chan, ReportRetry(c) PROVE \A t \in Task : KeptTask(t)'
  <2>1. PICK h \in Task : h = hand[c]
    BY <1>0, <1>12 DEF ReportRetry, Reporting, HandlerOK
  <2>2. Waiting' = Waiting \cup {h}
    BY <1>12, <2>1 DEF ReportRetry, Waiting, InBuf, InHeld, dispVars
  <2>3. \A e \in Chan \ {c} : InExec(e)' = InExec(e)
    BY <1>0, <1>12 DEF ReportRetry, InExec, TypeOK
  <2>4. /\ status'[h] = "pending"
        /\ \A t \in Task \ {h} : status'[t] = status[t]
        /\ UNCHANGED <<home, call, dags>>
    BY <1>0, <1>12, <2>1 DEF ReportRetry, TypeOK, callVars
  <2>5. KeptTask(h)'
    BY <2>2, <2>4 DEF KeptTask
  <2> QED BY <1>k, <2>1, <2>2, <2>3, <2>4, <2>5, KeptReported
<1>13. ASSUME NEW c \in Chan, ReportUnknown(c) PROVE \A t \in Task : KeptTask(t)'
  <2>1. PICK h \in Task : h = hand[c]
    BY <1>0, <1>13 DEF ReportUnknown, HandlerOK
  <2>2. Waiting' = Waiting
    BY <1>13 DEF ReportUnknown, Waiting, InBuf, InHeld, dispVars
  <2>3. \A e \in Chan \ {c} : InExec(e)' = InExec(e)
    BY <1>0, <1>13 DEF ReportUnknown, InExec, TypeOK
  <2>4. UNCHANGED <<status, home, call, dags>>
    BY <1>13 DEF ReportUnknown, callVars, taskVars
  <2>5. status[h] = "running" /\ Current(h) # home[h]
    BY <1>13, <2>1 DEF ReportUnknown, PipeInv, PlaceMatchesStatus, InExec
  <2>6. KeptTask(h)'
    BY <2>4, <2>5 DEF KeptTask, Handled, Current
  <2> QED BY <1>k, <2>1, <2>2, <2>3, <2>4, <2>6, KeptReported
<1>14. ASSUME NEW c \in Chan, HandlerExit(c) \/ CheckChildren(c) PROVE \A t \in Task : KeptTask(t)'
  <2>1. hpc[c] # "exec" /\ hpc'[c] # "exec"
    BY <1>0, <1>14 DEF HandlerExit, CheckChildren, TypeOK
  <2>2. \A e \in Chan \ {c} : hpc'[e] = hpc[e] /\ hand'[e] = hand[e]
    BY <1>0, <1>14 DEF HandlerExit, CheckChildren, TypeOK
  <2>3. execKept
    BY <2>1, <2>2 DEF InExec
  <2>4. Waiting' = Waiting
    BY <1>14 DEF HandlerExit, CheckChildren, Waiting, InBuf, InHeld, dispVars
  <2> QED BY <1>14, <1>k, <2>3, <2>4, KeptUntouched
          DEF HandlerExit, CheckChildren, taskVars, callVars
<1>15. ASSUME NEW c \in Chan, NEW w \in Worker, Register(c, w) PROVE \A t \in Task : KeptTask(t)'
  <2>1. execKept /\ Waiting' = Waiting
    BY <1>0, <1>15 DEF Register, InExec, Waiting, InBuf, InHeld, dispVars, TypeOK
  <2> QED BY <1>15, <1>k, <2>1, KeptUntouched DEF Register, taskVars, callVars
<1>16. ASSUME UNCHANGED <<status, home, call, dags, submit, events, held, buf>>,
              UNCHANGED hdlVars
       PROVE  \A t \in Task : KeptTask(t)'
  <2>1. execKept /\ Waiting' = Waiting
    BY <1>16 DEF InExec, hdlVars, Waiting, InBuf, InHeld
  <2> QED BY <1>16, <1>k, <2>1, KeptUntouched
<1>17. CASE ChooseWorker \/ ChooseNone \/ SendTimeout \/ SendOnClosed
  BY <1>16, <1>17
  DEF ChooseWorker, ChooseNone, SendTimeout, SendOnClosed, AnotherTry, taskVars, callVars,
      dispVars
<1>18. ASSUME NEW t \in Task, AggregateRead(t) \/ AggregateWrite(t)
       PROVE  \A u \in Task : KeptTask(u)'
  BY <1>16, <1>18 DEF AggregateRead, AggregateWrite, taskVars, callVars, dispVars
<1>19. CASE \/ \E w \in Worker : DeregisterWorker(w)
            \/ StopCancel \/ StopClose \/ UNCHANGED vars
  BY <1>16, <1>19
  DEF DeregisterWorker, Close, StopCancel, StopClose, vars, taskVars, callVars, dispVars
<1>20. ~(DispatcherExit \/ \E t \in Task : SubmitCancelled(t))
  BY <1>s DEF DispatcherExit, SubmitCancelled, CtxDone
<1> QED
  BY <1>1, <1>2, <1>3, <1>4, <1>5, <1>7, <1>8, <1>9, <1>10, <1>11, <1>12, <1>13, <1>14,
     <1>15, <1>17, <1>18, <1>19, <1>20
  DEF Next, Step, Slicing, Dispatch, Handle, Report
-----------------------------------------------------------------------------
(* What MicroTask promises for every value of its constants.               *)

\* Every variable keeps its type in every reachable state of the manager.
THEOREM TypeCorrect == Spec => []TypeOK
<1>1. Spec => []TypeInv
  BY TypeInit, TypeStep, PTL DEF Spec
<1>2. TypeInv => TypeOK
  BY DEF TypeInv
<1> QED BY <1>1, <1>2, PTL

\* The pipeline invariant holds in every reachable state.
LEMMA PipeCorrect == Spec => [](TypeInv /\ PipeInv)
<1>1. Init => TypeInv /\ PipeInv
  BY TypeInit, PipeInit
<1>2. TypeInv /\ PipeInv /\ [Next]_vars => (TypeInv /\ PipeInv)'
  BY TypeStep, PipeStep
<1> QED BY <1>1, <1>2, PTL DEF Spec

\* No microtask is ever in two places of the pipeline, or run by two handlers.
THEOREM NeverTwiceCorrect == Spec => []NeverTwice
<1>1. TypeInv /\ PipeInv => NeverTwice
  BY DEF PipeInv
<1> QED BY <1>1, PipeCorrect, PTL

\* Before Stop no pending task leaves the pipeline and no running one its handler.
THEOREM NoTaskLostCorrect == Spec => []NoTaskLost
<1> DEFINE IInv == TypeInv /\ PipeInv /\ DagInv /\ NoTaskLost
<1>1. Init => IInv
  BY TypeInit, PipeInit, DagInit, LostInit
<1>2. IInv /\ [Next]_vars => IInv'
  BY TypeStep, PipeStep, DagStep, LostStep
<1> QED BY <1>1, <1>2, PTL DEF Spec
-----------------------------------------------------------------------------
(* MicroTask implements TaskLife.                                          *)

\* A new manager is an initial state of TaskLife.
LEMMA LifeInitMap == Init => Life!LifeInit
BY DEF Init, Life!LifeInit

\* Every step of the manager is a TaskLife step of one task or a stutter.
LEMMA LifeStepMap ==
  TypeInv /\ PipeInv /\ [Next]_vars => [Life!LifeNext]_(Life!lifeVars)
<1> SUFFICES ASSUME TypeInv, PipeInv, [Next]_vars
             PROVE  Life!LifeNext \/ UNCHANGED <<status, attempts>>
  BY DEF Life!lifeVars
<1>1. ASSUME NEW c \in Chan, hpc[c] = "exec"
      PROVE  /\ hand[c] \in Task /\ status[hand[c]] = "running"
             /\ attempts[hand[c]] \in Nat /\ attempts[hand[c]] <= MaxRetries
  BY <1>1 DEF TypeInv, TypeOK, HandlerOK, PipeInv, PlaceMatchesStatus, AttemptsBounded, InExec
<1>2. ASSUME NEW c \in Call, NEW t \in Task, SliceOne(c, t) PROVE Life!Create(t)
  BY <1>2 DEF SliceOne, Life!Create, Life!Become
<1>3. ASSUME NEW c \in Chan, Take(c) PROVE Life!LifeNext
  <2> DEFINE t == Head(buf[c])
  <2>1. t \in Task /\ t \in InBuf(c)
    BY <1>3, TailSet DEF Take, TypeInv, TypeOK, InBuf
  <2>2. status[t] = "pending"
    BY <2>1 DEF PipeInv, PlaceMatchesStatus, Waiting
  <2>3. Life!Start(t)
    BY <1>3, <2>2 DEF Take, Life!Start, Life!Become
  <2> QED BY <2>1, <2>3 DEF Life!LifeNext
<1>4. ASSUME NEW c \in Chan, ReportDone(c) PROVE Life!LifeNext
  <2>1. Life!Succeed(hand[c])
    BY <1>1, <1>4 DEF ReportDone, Reporting, Verdict, Life!Succeed, Life!Become
  <2> QED BY <1>1, <1>4, <2>1 DEF ReportDone, Reporting, Life!LifeNext
<1>5. ASSUME NEW c \in Chan, ReportRetry(c) PROVE Life!LifeNext
  <2>1. Life!Fail(hand[c])
    BY <1>1, <1>5 DEF ReportRetry, Reporting, RetriesLeft, Life!Fail, Life!Become
  <2> QED BY <1>1, <1>5, <2>1 DEF ReportRetry, Reporting, Life!LifeNext
<1>6. ASSUME NEW c \in Chan, ReportFailed(c) PROVE Life!LifeNext
  <2>1. attempts[hand[c]] = MaxRetries
    BY <1>1, <1>6, MicroTaskAssumption DEF ReportFailed, Reporting, RetriesLeft
  <2>2. Life!Fail(hand[c])
    BY <1>1, <1>6, <2>1 DEF ReportFailed, Reporting, Verdict, Life!Fail, Life!Become
  <2> QED BY <1>1, <1>6, <2>2 DEF ReportFailed, Reporting, Life!LifeNext
<1>7. ASSUME NEW t \in Task, \/ Submit(t) \/ SubmitCancelled(t)
                             \/ AggregateRead(t) \/ AggregateWrite(t)
      PROVE  UNCHANGED <<status, attempts>>
  BY <1>7 DEF Submit, SubmitCancelled, AggregateRead, AggregateWrite, taskVars
<1>8. ASSUME Dispatch PROVE UNCHANGED <<status, attempts>>
  BY <1>8 DEF Dispatch, Receive, ChooseWorker, ChooseNone, Send, SendTimeout, SendOnClosed,
              ForceDispatch, Requeue, DispatcherExit, AnotherTry, taskVars
<1>9. ASSUME NEW c \in Chan, HandlerExit(c) \/ ReportUnknown(c) \/ CheckChildren(c)
      PROVE  UNCHANGED <<status, attempts>>
  BY <1>9 DEF HandlerExit, ReportUnknown, CheckChildren, taskVars
<1>10. ASSUME NEW c \in Call,
              CreateDAG(c) \/ \E r \in Root, n \in 1..MaxSlices : SliceLookup(c, r, n)
       PROVE  UNCHANGED <<status, attempts>>
  BY <1>10 DEF CreateDAG, SliceLookup, taskVars
<1>11. ASSUME \/ \E c \in Chan, w \in Worker : Register(c, w)
              \/ \E w \in Worker : DeregisterWorker(w)
              \/ StopCancel \/ StopClose \/ UNCHANGED vars
       PROVE  UNCHANGED <<status, attempts>>
  BY <1>11 DEF Register, DeregisterWorker, Close, StopCancel, StopClose, vars, taskVars
<1> QED
  BY <1>2, <1>3, <1>4, <1>5, <1>6, <1>7, <1>8, <1>9, <1>10, <1>11
  DEF Next, Step, Slicing, Handle, Report, Life!LifeNext

\* MicroTask implements TaskLife: one attempt at a time, at most MaxRetries + 1
\* attempts, and a verdict that is final.
THEOREM ImplementsTaskLife == Spec => LifeSpec
<1>1. Spec => Init /\ [][Next]_vars
  BY DEF Spec
<1> QED
  BY <1>1, LifeInitMap, LifeStepMap, PipeCorrect, PTL DEF LifeSpec, Life!LifeSpec
-----------------------------------------------------------------------------
(* The root result of a job that stopped growing in time.                  *)

\* A verdict about the task a handler has in hand, with the children it read.
CheckInv ==
  \A c \in Chan : hpc[c] = "check" =>
    /\ status[hand[c]] \in {"done", "failed"}
    /\ hand[c] \in kids[c]
    /\ status[hand[c]] = "done" /\ home[hand[c]] \notin grown
         => kids[c] = Children(home[hand[c]])

AggInv ==
  \A t \in Task : agg[t].pc # "none" =>
    /\ status[t] = "done"
    /\ home[t] \notin grown => AllDone(Children(home[t]))
    /\ home[t] \notin grown /\ agg[t].pc = "write" => agg[t].out = Children(home[t])

RootInv ==
  \A d \in Call \ grown : rootRes[d] # {} =>
    /\ rootRes[d] = Children(d)
    /\ AllDone(Children(d))

ResultInv == CheckInv /\ AggInv /\ RootInv

\* A new manager has verdicts, aggregations and results of no job.
LEMMA ResultInit == Init => ResultInv
BY DEF Init, ResultInv, CheckInv, AggInv, RootInv

\* A final verdict, the DAG of a created task and, until it is marked as grown,
\* the children of a DAG that has a finished one stay as they are.
SettledOnes ==
  /\ grown \subseteq grown'
  /\ \A t \in Task : status[t] \in {"done", "failed"} => status'[t] = status[t]
  /\ \A t \in Task : status[t] # "absent" => home'[t] = home[t]
  /\ \A d \in Call \ grown' :
       (\E k \in Children(d) : status[k] = "done") => Children(d)' = Children(d)

\* What SettledOnes says holds of every step.
LEMMA SettledStep == TypeInv /\ PipeInv /\ DagInv /\ [Next]_vars => SettledOnes
<1> SUFFICES ASSUME TypeInv, PipeInv, DagInv, [Next]_vars PROVE SettledOnes
  OBVIOUS
<1>0. TypeOK
  BY DEF TypeInv
<1>1. \A t \in Task : status[t] \in {"done", "failed"} => status'[t] = status[t]
  BY <1>0, LifeStepMap
  DEF TypeOK, Life!LifeNext, Life!lifeVars, Life!Create, Life!Start, Life!Succeed, Life!Fail,
      Life!Become
<1>2. ASSUME NEW c \in Call, NEW u \in Task, SliceOne(c, u)
      PROVE  /\ grown \subseteq grown'
             /\ \A t \in Task : status[t] # "absent" => home'[t] = home[t]
             /\ \A d \in Call \ grown' :
                  (\E k \in Children(d) : status[k] = "done") => Children(d)' = Children(d)
  <2>1. grown \subseteq grown'
    BY <1>2 DEF SliceOne
  <2>2. /\ home'[u] = call[c].dag
        /\ \A t \in Task \ {u} : home'[t] = home[t]
        /\ status[u] = "absent"
        /\ home[u] = None
    BY <1>0, <1>2 DEF SliceOne, TypeOK, DagInv
  <2>3. \A d \in Call : d # call[c].dag => Children(d)' = Children(d)
    BY <2>2, MicroTaskAssumption DEF Children
  <2>4. ASSUME call[c].dag \notin grown' PROVE ~\E k \in Children(call[c].dag) : status[k] = "done"
    BY <1>2, <2>4 DEF SliceOne
  <2> QED BY <2>1, <2>2, <2>3, <2>4
<1>3. ASSUME UNCHANGED <<grown, home>>
      PROVE  /\ grown \subseteq grown'
             /\ \A t \in Task : status[t] # "absent" => home'[t] = home[t]
             /\ \A d \in Call \ grown' : Children(d)' = Children(d)
  BY <1>3 DEF Children
<1>4. (\E c \in Call, u \in Task : SliceOne(c, u)) \/ UNCHANGED <<grown, home>>
  BY DEF Next, Step, Slicing, Dispatch, Handle, Report, SliceLookup, CreateDAG,
         Submit, SubmitCancelled, Receive, ChooseWorker, ChooseNone, Send, SendTimeout,
         SendOnClosed, ForceDispatch, Requeue, DispatcherExit, AnotherTry, Take, HandlerExit,
         ReportDone, ReportRetry, ReportFailed, ReportUnknown, CheckChildren,
         AggregateRead, AggregateWrite, Register, DeregisterWorker, Close, StopCancel,
         StopClose, vars, callVars, taskVars
<1> QED BY <1>1, <1>2, <1>3, <1>4 DEF SettledOnes

\* Every step keeps what a handler knows between verdict and check.
LEMMA CheckStep == TypeInv /\ PipeInv /\ DagInv /\ ResultInv /\ [Next]_vars => CheckInv'
<1> SUFFICES ASSUME TypeInv, PipeInv, DagInv, ResultInv, [Next]_vars, NEW c \in Chan,
                    hpc'[c] = "check"
             PROVE  /\ status'[hand'[c]] \in {"done", "failed"}
                    /\ hand'[c] \in kids'[c]
                    /\ status'[hand'[c]] = "done" /\ home'[hand'[c]] \notin grown'
                         => kids'[c] = {t \in Task : home'[t] = home'[hand'[c]]}
  BY DEF CheckInv, Children
<1>0. TypeOK /\ HandlerOK /\ SettledOnes
  BY SettledStep DEF TypeInv
<1>1. \/ ReportDone(c) \/ ReportFailed(c)
      \/ hpc[c] = "check" /\ hand'[c] = hand[c] /\ kids'[c] = kids[c]
  <2>1. CASE \E e \in Chan : Handle(e)
    <3>1. PICK e \in Chan : Handle(e)
      BY <2>1
    <3>2. CASE e = c
      BY <1>0, <3>1, <3>2
      DEF Handle, Report, Take, HandlerExit, ReportRetry, ReportUnknown, CheckChildren, TypeOK
    <3>3. CASE e # c
      BY <1>0, <3>1, <3>3
      DEF Handle, Report, Take, HandlerExit, ReportDone, ReportFailed, Verdict, ReportRetry,
          ReportUnknown, CheckChildren, TypeOK
    <3> QED BY <3>2, <3>3
  <2>2. CASE \E e \in Chan, w \in Worker : Register(e, w)
    BY <1>0, <2>2 DEF Register, TypeOK
  <2>3. CASE UNCHANGED hdlVars
    BY <2>3 DEF hdlVars
  <2>4. \/ \E e \in Chan : Handle(e)
        \/ \E e \in Chan, w \in Worker : Register(e, w)
        \/ UNCHANGED hdlVars
    BY DEF Next, Step, Slicing, Dispatch, SliceLookup, CreateDAG, SliceOne,
           Submit, SubmitCancelled, Receive, ChooseWorker, ChooseNone, Send, SendTimeout,
           SendOnClosed, ForceDispatch, Requeue, DispatcherExit, AnotherTry,
           AggregateRead, AggregateWrite, DeregisterWorker, Close, StopCancel,
           StopClose, vars
  <2> QED BY <2>1, <2>2, <2>3, <2>4
<1>2. CASE ReportDone(c) \/ ReportFailed(c)
  <2>1. /\ hand[c] \in Task /\ hand'[c] = hand[c]
        /\ status'[hand[c]] \in {"done", "failed"}
        /\ kids'[c] = Children(home[hand[c]])
        /\ home' = home
    BY <1>0, <1>2 DEF ReportDone, ReportFailed, Reporting, Verdict, HandlerOK, TypeOK
  <2> QED BY <2>1 DEF Children
<1>3. CASE hpc[c] = "check" /\ hand'[c] = hand[c] /\ kids'[c] = kids[c]
  <2>1. hand[c] \in Task /\ status[hand[c]] \in {"done", "failed"} /\ hand[c] \in kids[c]
    BY <1>0, <1>3 DEF HandlerOK, ResultInv, CheckInv
  <2>2. status'[hand[c]] = status[hand[c]] /\ home'[hand[c]] = home[hand[c]]
    BY <1>0, <2>1 DEF SettledOnes
  <2>3. home[hand[c]] \in Call /\ hand[c] \in Children(home[hand[c]])
    BY <2>1 DEF DagInv, Made, Children
  <2>4. ASSUME status[hand[c]] = "done", home[hand[c]] \notin grown'
        PROVE  kids[c] = Children(home[hand[c]]) /\ Children(home[hand[c]]) = {t \in Task : home'[t] = home[hand[c]]}
    <3>1. \A d \in Call : Children(d)' = {t \in Task : home'[t] = d}
      BY DEF Children
    <3>2. kids[c] = Children(home[hand[c]])
      BY <1>0, <1>3, <2>4 DEF SettledOnes, ResultInv, CheckInv
    <3>3. \A d \in Call \ grown' : hand[c] \in Children(d) => Children(d)' = Children(d)
      BY <1>0, <2>4 DEF SettledOnes
    <3> QED BY <2>3, <2>4, <3>1, <3>2, <3>3
  <2> QED BY <1>3, <2>1, <2>2, <2>4
<1> QED BY <1>1, <1>2, <1>3

\* The children of a DAG whose results have been collected do not change.
LEMMA DoneChildrenKept ==
  ASSUME SettledOnes, NEW d \in Call, d \notin grown', Children(d) # {}, AllDone(Children(d))
  PROVE  Children(d)' = Children(d) /\ AllDone(Children(d))'
<1>1. Children(d)' = Children(d)
  BY DEF SettledOnes, AllDone
<1>2. \A t \in Children(d) : status'[t] = "done"
  BY DEF SettledOnes, AllDone, Children
<1> QED BY <1>1, <1>2 DEF AllDone

\* Every step keeps what an aggregation in the background knows.
LEMMA AggStep == TypeInv /\ PipeInv /\ DagInv /\ ResultInv /\ [Next]_vars => AggInv'
<1> SUFFICES ASSUME TypeInv, PipeInv, DagInv, ResultInv, [Next]_vars, NEW t \in Task,
                    agg'[t].pc # "none"
             PROVE  /\ status'[t] = "done"
                    /\ home'[t] \notin grown' =>
                         AllDone(Children(home[t]))' 
                    /\ home'[t] \notin grown' /\ agg'[t].pc = "write" =>
                         agg'[t].out = Children(home[t])'
  BY DEF AggInv
<1>0. TypeOK /\ HandlerOK /\ SettledOnes
  BY SettledStep DEF TypeInv
<1> DEFINE d == home[t]
<1>1. ASSUME status[t] = "done",
             d \notin grown' => AllDone(Children(d)),
             d \notin grown' /\ agg'[t].pc = "write" => agg'[t].out = Children(d)
      PROVE  /\ status'[t] = "done"
             /\ home'[t] \notin grown' => AllDone(Children(home[t]))'
             /\ home'[t] \notin grown' /\ agg'[t].pc = "write" =>
                  agg'[t].out = Children(home[t])'
  <2>1. home'[t] = d /\ status'[t] = "done" /\ d \in Call /\ t \in Children(d)
    BY <1>0, <1>1 DEF SettledOnes, DagInv, Made, Children
  <2>2. PICK e \in Call : e = d
    BY <2>1
  <2>3. e \notin grown' => Children(e)' = Children(e) /\ AllDone(Children(e))'
    BY <1>0, <1>1, <2>1, <2>2, DoneChildrenKept
  <2>4. Children(home[t])' = Children(e)' /\ (AllDone(Children(home[t]))' <=> AllDone(Children(e))')
    BY <2>1, <2>2 DEF Children, AllDone
  <2> QED BY <1>1, <2>1, <2>2, <2>3, <2>4
<1>2. CASE agg'[t] = agg[t]
  BY <1>0, <1>1, <1>2 DEF SettledOnes, ResultInv, AggInv
<1>3. ASSUME NEW c \in Chan, CheckChildren(c), agg'[t] # agg[t]
      PROVE  /\ status[t] = "done"
             /\ d \notin grown' => AllDone(Children(d))
             /\ agg'[t].pc = "read"
  <2>1. t = hand[c] /\ AllDone(kids[c]) /\ agg'[t].pc = "read" /\ grown' = grown
    BY <1>0, <1>3 DEF CheckChildren, TypeOK, AggState, callVars
  <2>2. t \in kids[c] /\ (status[t] = "done" /\ d \notin grown => kids[c] = Children(d))
    BY <1>3, <2>1 DEF CheckChildren, ResultInv, CheckInv
  <2> QED BY <2>1, <2>2 DEF AllDone
<1>4. CASE AggregateRead(t)
  <2>1. agg'[t].out = {k \in Children(d) : status[k] = "done"} /\ grown' = grown
    BY <1>0, <1>4 DEF AggregateRead, TypeOK, callVars
  <2>2. status[t] = "done" /\ (d \notin grown => AllDone(Children(d)))
    BY <1>4 DEF AggregateRead, ResultInv, AggInv
  <2>3. d \notin grown => agg'[t].out = Children(d)
    BY <2>1, <2>2 DEF AllDone
  <2> QED BY <1>1, <2>1, <2>2, <2>3
<1>5. CASE AggregateWrite(t)
  BY <1>0, <1>5 DEF AggregateWrite, TypeOK
<1>6. \/ agg'[t] = agg[t]
      \/ AggregateRead(t) \/ AggregateWrite(t)
      \/ \E c \in Chan : CheckChildren(c)
  <2>1. CASE \E u \in Task : AggregateRead(u) \/ AggregateWrite(u)
    BY <1>0, <2>1 DEF AggregateRead, AggregateWrite, TypeOK
  <2>2. \/ \E u \in Task : AggregateRead(u) \/ AggregateWrite(u)
        \/ \E c \in Chan : CheckChildren(c)
        \/ agg' = agg
    BY DEF Next, Step, Slicing, Dispatch, Handle, Report, SliceLookup, CreateDAG, SliceOne,
           Submit, SubmitCancelled, Receive, ChooseWorker, ChooseNone, Send, SendTimeout,
           SendOnClosed, ForceDispatch, Requeue, DispatcherExit, AnotherTry, Take, HandlerExit,
           ReportDone, ReportRetry, ReportFailed, ReportUnknown,
           Register, DeregisterWorker, Close, StopCancel, StopClose, vars, aggVars
  <2> QED BY <2>1, <2>2
<1> QED BY <1>1, <1>2, <1>3, <1>4, <1>5, <1>6

\* Every step keeps the root results complete.
LEMMA RootStep == TypeInv /\ PipeInv /\ DagInv /\ ResultInv /\ [Next]_vars => RootInv'
<1> SUFFICES ASSUME TypeInv, PipeInv, DagInv, ResultInv, [Next]_vars,
                    NEW d \in Call, d \notin grown', rootRes'[d] # {}
             PROVE  rootRes'[d] = Children(d)' /\ AllDone(Children(d))'
  BY DEF RootInv
<1>0. TypeOK /\ SettledOnes
  BY SettledStep DEF TypeInv
<1>1. ASSUME Children(d) # {}, AllDone(Children(d)), rootRes'[d] = Children(d)
      PROVE  rootRes'[d] = Children(d)' /\ AllDone(Children(d))'
  BY <1>0, <1>1, DoneChildrenKept
<1>2. CASE rootRes'[d] = rootRes[d]
  BY <1>0, <1>1, <1>2 DEF SettledOnes, ResultInv, RootInv
<1>3. ASSUME NEW t \in Task, AggregateWrite(t), rootRes'[d] # rootRes[d]
      PROVE  rootRes'[d] = Children(d)' /\ AllDone(Children(d))'
  <2>1. d = home[t] /\ rootRes'[d] = agg[t].out
    BY <1>0, <1>3 DEF AggregateWrite, TypeOK
  <2>2. AllDone(Children(d)) /\ agg[t].out = Children(d)
    BY <1>0, <1>3, <2>1 DEF AggregateWrite, ResultInv, AggInv, SettledOnes
  <2> QED BY <1>1, <2>1, <2>2
<1>4. (\E t \in Task : AggregateWrite(t)) \/ rootRes' = rootRes
  BY DEF Next, Step, Slicing, Dispatch, Handle, Report, SliceLookup, CreateDAG, SliceOne,
         Submit, SubmitCancelled, Receive, ChooseWorker, ChooseNone, Send, SendTimeout,
         SendOnClosed, ForceDispatch, Requeue, DispatcherExit, AnotherTry, Take, HandlerExit,
         ReportDone, ReportRetry, ReportFailed, ReportUnknown, CheckChildren, AggregateRead,
         Register, DeregisterWorker, Close, StopCancel, StopClose, vars, aggVars
<1> QED BY <1>2, <1>3, <1>4

\* A job that got no slice after its first finished one never has a partial root.
THEOREM FullAggregateCorrect == Spec => []FullAggregate
<1> DEFINE IInv == TypeInv /\ PipeInv /\ DagInv /\ ResultInv
<1>1. Init => IInv
  BY TypeInit, PipeInit, DagInit, ResultInit
<1>2. IInv /\ [Next]_vars => IInv'
  BY TypeStep, PipeStep, DagStep, CheckStep, AggStep, RootStep DEF ResultInv
<1>3. IInv => FullAggregate
  BY DEF ResultInv, RootInv, FullAggregate
<1> QED BY <1>1, <1>2, <1>3, PTL DEF Spec

-----------------------------------------------------------------------------
(* The renewal of the vault's token.                                       *)

\* While no call has failed the token outlives the wait of the loop.
TokenInv ==
  /\ TokenTypeOK
  /\ tkLoop \in {"reauth", "sleeping"} => tkFailed
  /\ ~tkFailed =>
       /\ tkLoop = "lookup" => tkLeft = TokenTtl
       /\ tkLoop = "waiting" => tkWait < tkLeft
       /\ tkLoop = "renewing" => tkLeft > 0

\* A new token has its whole time.
LEMMA TokenInit == TokenRenewalInit => TokenInv
<1> SUFFICES ASSUME TokenRenewalInit PROVE TokenInv
  OBVIOUS
<1>1. tkClosed \in BOOLEAN /\ tkFailed \in BOOLEAN
  BY Zenon DEF TokenRenewalInit
<1> QED BY <1>1, TokenRenewalAssumption DEF TokenRenewalInit, TokenInv, TokenTypeOK

\* The jitter leaves the wait below what is left of a whole time to live.
LEMMA WaitBound ==
  ASSUME NEW ttl \in 1..TokenTtl, NEW wait \in Waits(ttl)
  PROVE  wait \in 1..TokenTtl /\ (ttl = TokenTtl => wait < ttl)
<1>1. PICK j \in (0 - HalfJitter)..HalfJitter : wait = AtLeastOne(((8 * ttl) \div 10) + j)
  BY DEF Waits
<1>2. TokenTtl \in Nat /\ HalfJitter \in Nat /\ 5 * HalfJitter < TokenTtl /\ TokenTtl > 5
  BY TokenRenewalAssumption
<1>3. PICK d \in Int : d = (8 * ttl) \div 10
  BY <1>2
<1>4. 10 * d <= 8 * ttl /\ 0 <= d
  BY <1>2, <1>3
<1>5. j \in Int /\ j <= HalfJitter
  BY <1>2
<1>6. d + j < TokenTtl
  BY <1>2, <1>4, <1>5
<1> QED BY <1>1, <1>2, <1>3, <1>4, <1>5, <1>6 DEF AtLeastOne

\* Every step of the loop and of its callers keeps the time.
LEMMA TokenStep ==
  ASSUME TokenInv, [TokenRenewalNext]_tkVars
  PROVE  TokenInv'
<1>0. /\ TokenTtl \in Nat /\ TokenTtl > 5 /\ LookupPause \in Nat \ {0} /\ RenewPause \in Nat \ {0}
  BY TokenRenewalAssumption
<1>b. tkClosed' \in BOOLEAN /\ tkFailed' \in BOOLEAN
  <2>1. tkClosed' \in {tkClosed, TRUE} /\ tkFailed' \in {tkFailed, TRUE}
    BY DEF TokenRenewalNext, RenewalStep, LoopStops, LookupFails, Lookup, NotRenewable, TimerFires,
           RenewSelf, RenewFails, Reauth, NoReauth, WakesUp, RotateToken, CloseVault, SecondPasses,
           tkVars
  <2> QED BY <2>1, Zenon DEF TokenInv, TokenTypeOK
<1> USE DEF LoopTo
<1>1. CASE LoopStops \/ TimerFires \/ NotRenewable \/ UNCHANGED tkVars
  BY <1>0, <1>1, <1>b
     DEF LoopStops, TimerFires, NotRenewable, tkVars, TokenInv, TokenTypeOK
<1>2. CASE LookupFails \/ RenewFails
  <2>1. tkFailed'
    BY <1>2 DEF LookupFails, RenewFails
  <2> QED BY <1>0, <1>2, <1>b, <2>1 DEF LookupFails, RenewFails, TokenInv, TokenTypeOK
<1>3. CASE Lookup
  <2>1. PICK wait \in Waits(tkLeft) : tkLoop' = "waiting" /\ tkWait' = wait
    BY <1>3 DEF Lookup
  <2>2. tkLeft \in 1..TokenTtl /\ tkLoop = "lookup" /\ UNCHANGED <<tkLeft, tkClosed, tkFailed>>
    BY <1>0, <1>3 DEF Lookup, MayLookup, TokenInv, TokenTypeOK
  <2>3. wait \in 1..TokenTtl /\ (tkLeft = TokenTtl => wait < tkLeft)
    BY <2>2, WaitBound
  <2> QED BY <1>0, <1>b, <2>1, <2>2, <2>3 DEF TokenInv, TokenTypeOK
<1>4. CASE RenewSelf \/ Reauth \/ RotateToken
  BY <1>0, <1>4, <1>b DEF RenewSelf, Reauth, Reauthenticated, RotateToken, TokenInv, TokenTypeOK
<1>5. CASE NoReauth \/ WakesUp
  BY <1>0, <1>5, <1>b DEF NoReauth, WakesUp, TokenInv, TokenTypeOK
<1>6. CASE CloseVault \/ SecondPasses
  BY <1>0, <1>6, <1>b DEF CloseVault, SecondPasses, Less1, TokenInv, TokenTypeOK
<1> QED BY <1>1, <1>2, <1>3, <1>4, <1>5, <1>6 DEF TokenRenewalNext, RenewalStep
-----------------------------------------------------------------------------
(* The policy engine: its limiter and its caches.                          *)

\* A sum times a number.
LEMMA Distributes ==
  ASSUME NEW a \in Int, NEW b \in Int, NEW c \in Int
  PROVE  (a + b) * c = a * c + b * c
OBVIOUS

\* A product with a natural number is monotone.
LEMMA Monotone ==
  ASSUME NEW a \in Int, NEW b \in Int, NEW c \in Nat, a <= b
  PROVE  a * c <= b * c /\ c * a <= c * b
OBVIOUS

\* What a division gives is no more than there was.
LEMMA DivBelow ==
  ASSUME NEW a \in Nat, NEW n \in Nat \ {0}
  PROVE  a \div n \in Nat /\ (a \div n) * n <= a
OBVIOUS

Quotas == 0..MaxQuota

PolicyTypes ==
  /\ peDb \in [quota : Quotas, sensitive : BOOLEAN]
  /\ peCache \in [quota : Quotas, sensitive : BOOLEAN]
  /\ peReload \in [step : {"idle", "quotas", "swap"}, quota : Quotas, sensitive : BOOLEAN]
  /\ peCheck \in [PeCheck -> [step : {"idle", "miss"}, quota : Quotas]]
  /\ pePut \subseteq 1..MaxQuota
  /\ peAdmin \in [PeAdmin -> [step : {"idle", "quota", "add", "remove"}, quota : Quotas]]
  /\ peStopped \in BOOLEAN

\* What has passed and what is left of the bucket come from the first filling and
\* from the time up to the last refill.
BucketInv ==
  /\ peBucket \in [tokens : 0..LimiterCap, refill : Nat, made : BOOLEAN]
  /\ peGranted \in Nat /\ peNow \in 0..MaxInstants /\ peBucket.refill <= peNow
  /\ ~peBucket.made => peGranted = 0
  /\ peBucket.made =>
       (peGranted + peBucket.tokens - LimiterCap) * SecondTicks <= LimiterRate * peBucket.refill

PolicyInv == PolicyTypes /\ BucketInv

\* The engine starts with what the database holds, and without a bucket.
LEMMA PolicyInitInv == PolicyInit => PolicyInv
<1> SUFFICES ASSUME PolicyInit PROVE PolicyInv
  OBVIOUS
<1>0. {NoQuota, 1} \subseteq Quotas /\ 0 \in Quotas
  BY PolicyEngineAssumption DEF Quotas, NoQuota
<1>1. PolicyTypes
  <2>1. peDb \in [quota : Quotas, sensitive : BOOLEAN] /\ peCache = peDb
    BY <1>0, Zenon DEF PolicyInit
  <2>2. peReload \in [step : {"idle", "quotas", "swap"}, quota : Quotas, sensitive : BOOLEAN]
    BY <1>0, Zenon DEF PolicyInit, NotReloading, NoQuota
  <2>3. /\ peCheck \in [PeCheck -> [step : {"idle", "miss"}, quota : Quotas]]
        /\ peAdmin \in [PeAdmin -> [step : {"idle", "quota", "add", "remove"}, quota : Quotas]]
    BY <1>0 DEF PolicyInit, NotChecking, NoChange, NoQuota
  <2>4. pePut \subseteq 1..MaxQuota
    BY DEF PolicyInit
  <2>5. peStopped \in BOOLEAN
    BY Zenon DEF PolicyInit
  <2> QED BY <2>1, <2>2, <2>3, <2>4, <2>5 DEF PolicyTypes
<1>2. BucketInv
  <2>1. peBucket = [tokens |-> 0, refill |-> 0, made |-> FALSE] /\ peGranted = 0 /\ peNow = 0
    BY DEF PolicyInit, NoBucket
  <2>2. 0 \in 0..LimiterCap /\ 0 \in 0..MaxInstants /\ 0 \in Nat /\ 0 <= 0
    BY PolicyEngineAssumption
  <2>3. peBucket \in [tokens : 0..LimiterCap, refill : Nat, made : BOOLEAN] /\ ~peBucket.made
    BY <2>1, <2>2, Zenon
  <2>4. peBucket.refill = 0
    BY <2>1
  <2> QED BY <2>1, <2>2, <2>3, <2>4 DEF BucketInv
<1> QED BY <1>1, <1>2 DEF PolicyInv

\* A refilled bucket keeps the balance.
LEMMA RefilledKeeps ==
  ASSUME BucketInv, NEW b, b = Refilled(BucketNow)
  PROVE  /\ b \in [tokens : 0..LimiterCap, refill : Nat, made : BOOLEAN]
         /\ b.made /\ b.refill <= peNow
         /\ (peGranted + b.tokens - LimiterCap) * SecondTicks <= LimiterRate * b.refill
<1>0. /\ LimiterCap \in Nat \ {0} /\ LimiterRate \in Nat \ {0} /\ SecondTicks \in Nat \ {0}
      /\ peGranted \in Nat /\ peNow \in Nat
  BY PolicyEngineAssumption DEF BucketInv
<1>1. PICK k : k = BucketNow
  OBVIOUS
<1>2. /\ k \in [tokens : 0..LimiterCap, refill : Nat, made : BOOLEAN] /\ k.made
      /\ k.refill <= peNow
      /\ (peGranted + k.tokens - LimiterCap) * SecondTicks <= LimiterRate * k.refill
  <2>1. CASE peBucket.made
    BY <1>1, <2>1 DEF BucketNow, BucketInv
  <2>2. CASE ~peBucket.made
    <3>1. k = [tokens |-> LimiterCap, refill |-> peNow, made |-> TRUE] /\ peGranted = 0
      BY <1>1, <2>2 DEF BucketNow, BucketInv
    <3>2. LimiterCap \in 0..LimiterCap
      BY <1>0
    <3>3. k \in [tokens : 0..LimiterCap, refill : Nat, made : BOOLEAN] /\ k.made
      BY <1>0, <3>1, <3>2, Zenon
    <3>4. k.tokens = LimiterCap /\ k.refill = peNow
      BY <3>1
    <3>5. peGranted + k.tokens - LimiterCap = 0
      BY <1>0, <3>1, <3>4
    <3>6. 0 * SecondTicks = 0 /\ LimiterRate * peNow >= 0
      BY <1>0
    <3> QED BY <1>0, <3>3, <3>4, <3>5, <3>6
  <2> QED BY <2>1, <2>2
<1>3. PICK t \in 0..LimiterCap, f \in Nat : t = k.tokens /\ f = k.refill /\ f <= peNow
  BY <1>2
<1>4. PICK g \in Nat : g = Gained(k) /\ g * SecondTicks <= (peNow - f) * LimiterRate
  <2>1. (peNow - f) * LimiterRate \in Nat
    BY <1>0, <1>3
  <2> QED BY <1>0, <1>3, <2>1, DivBelow DEF Gained
<1>5. CASE g = 0
  <2>1. b = k
    BY <1>1, <1>4, <1>5 DEF Refilled
  <2> QED BY <1>2, <2>1
<1>6. CASE g > 0
  <2>1. PICK n \in 0..LimiterCap : n = AtMost(t + g, LimiterCap) /\ n <= t + g
    BY <1>0, <1>3, <1>4 DEF AtMost
  <2>2. b = [k EXCEPT !.tokens = n, !.refill = peNow]
    BY <1>1, <1>3, <1>4, <1>6, <2>1 DEF Refilled
  <2>3. b.tokens = n /\ b.refill = peNow /\ b.made
    BY <1>2, <2>2
  <2>4. b \in [tokens : 0..LimiterCap, refill : Nat, made : BOOLEAN]
    BY <1>0, <1>2, <2>1, <2>2
  <2>5. (peGranted + n - LimiterCap) * SecondTicks <= (peGranted + t - LimiterCap + g) * SecondTicks
    BY <1>0, <1>3, <1>4, <2>1, Monotone
  <2>6. (peGranted + t - LimiterCap + g) * SecondTicks
          = (peGranted + t - LimiterCap) * SecondTicks + g * SecondTicks
    BY <1>0, <1>3, <1>4, Distributes
  <2>7. (peGranted + t - LimiterCap) * SecondTicks <= LimiterRate * f
    BY <1>2, <1>3
  <2>8. LimiterRate * f + (peNow - f) * LimiterRate = LimiterRate * peNow
    BY <1>0, <1>3
  <2>9. (peGranted + n - LimiterCap) * SecondTicks <= LimiterRate * peNow
    <3> DEFINE x == (peGranted + n - LimiterCap) * SecondTicks
               y == (peGranted + t - LimiterCap) * SecondTicks
               z == g * SecondTicks
               u == LimiterRate * f
               v == (peNow - f) * LimiterRate
    <3>1. x \in Int /\ y \in Int /\ z \in Int /\ u \in Int /\ v \in Int
      BY <1>0, <1>3, <1>4, <2>1
    <3>2. x <= y + z /\ y <= u /\ z <= v /\ LimiterRate * peNow = u + v
      BY <1>4, <2>5, <2>6, <2>7, <2>8
    <3> HIDE DEF x, y, z, u, v
    <3>3. x <= u + v
      BY <3>1, <3>2
    <3>4. x <= LimiterRate * peNow
      BY <3>2, <3>3
    <3> QED BY <3>4 DEF x
  <2> QED BY <1>0, <2>3, <2>4, <2>9
<1> QED BY <1>4, <1>5, <1>6

\* Every step keeps the bucket's balance.
LEMMA BucketStep ==
  ASSUME PolicyInv, [PolicyNext]_peVars
  PROVE  BucketInv'
<1>0. BucketInv /\ LimiterCap \in Nat \ {0} /\ MaxInstants \in Nat
  BY PolicyEngineAssumption DEF PolicyInv
<1>1. ASSUME NEW c \in PeCheck, RateLimited(c) PROVE BucketInv'
  <2>1. PICK b : b = Refilled(BucketNow)
    OBVIOUS
  <2>2. peBucket' = b /\ peGranted' = peGranted /\ peNow' = peNow
    BY <1>1, <2>1 DEF RateLimited
  <2>3. /\ b \in [tokens : 0..LimiterCap, refill : Nat, made : BOOLEAN] /\ b.made
        /\ b.refill <= peNow
        /\ (peGranted + b.tokens - LimiterCap) * SecondTicks <= LimiterRate * b.refill
    BY <1>0, <2>1, RefilledKeeps
  <2> QED BY <1>0, <2>2, <2>3 DEF BucketInv
<1>2. ASSUME NEW c \in PeCheck, CheckQuota(c) PROVE BucketInv'
  <2>1. PICK b : b = Refilled(BucketNow)
    OBVIOUS
  <2>2. /\ b.tokens >= 1 /\ peBucket' = [b EXCEPT !.tokens = @ - 1]
        /\ peGranted' = peGranted + 1 /\ peNow' = peNow
    BY <1>2, <2>1 DEF CheckQuota
  <2>3. /\ b \in [tokens : 0..LimiterCap, refill : Nat, made : BOOLEAN] /\ b.made
        /\ b.refill <= peNow
        /\ (peGranted + b.tokens - LimiterCap) * SecondTicks <= LimiterRate * b.refill
    BY <1>0, <2>1, RefilledKeeps
  <2>4. PICK t \in 0..LimiterCap : t = b.tokens /\ t >= 1
    BY <2>2, <2>3
  <2>5. t - 1 \in 0..LimiterCap /\ peGranted + 1 \in Nat
    BY <1>0, <2>4 DEF BucketInv
  <2>6. peBucket' = [b EXCEPT !.tokens = t - 1]
    BY <2>2, <2>4
  <2>7. /\ peBucket' \in [tokens : 0..LimiterCap, refill : Nat, made : BOOLEAN]
        /\ peBucket'.made /\ peBucket'.refill = b.refill /\ peBucket'.tokens = t - 1
    BY <2>3, <2>5, <2>6
  <2>8. peGranted' + peBucket'.tokens - LimiterCap = peGranted + b.tokens - LimiterCap
    BY <1>0, <2>2, <2>4, <2>7 DEF BucketInv
  <2> QED BY <1>0, <2>2, <2>3, <2>5, <2>7, <2>8 DEF BucketInv
<1>3. CASE InstantPasses
  <2>1. peNow' = peNow + 1 /\ peNow < MaxInstants /\ UNCHANGED <<peBucket, peGranted>>
    BY <1>3 DEF InstantPasses
  <2>2. peNow' \in 0..MaxInstants /\ peBucket'.refill <= peNow'
    BY <1>0, <2>1 DEF BucketInv
  <2> QED BY <1>0, <2>1, <2>2 DEF BucketInv
<1>4. ASSUME UNCHANGED peLimiter PROVE BucketInv'
  BY <1>0, <1>4 DEF BucketInv, peLimiter
<1> QED BY <1>1, <1>2, <1>3, <1>4
        DEF PolicyNext, ReloadStep, ReloadQuotas, ReloadSensitive, SwapCaches, StopPolicy, PutStep,
            PutQuota, AdminStep, ChangeCache, ReadQuota, SaveQuota, SaveSensitive, peVars

\* Every step keeps the types of caches, database and calls.
LEMMA PolicyTypesStep ==
  ASSUME PolicyInv, [PolicyNext]_peVars
  PROVE  PolicyTypes'
<1>0. PolicyTypes /\ MaxQuota \in Nat \ {0} /\ 0 \in Quotas /\ 1..MaxQuota \subseteq Quotas
  BY PolicyEngineAssumption DEF PolicyInv, Quotas
<1> USE DEF peData, peLimiter, ReloadTo, AdminTo, NoQuota
<1>1. CASE ReloadStep
  <2>1. UNCHANGED <<peDb, peCheck, pePut, peAdmin, peStopped>>
    BY <1>1 DEF ReloadStep, ReloadQuotas, ReloadSensitive, SwapCaches
  <2>2. /\ peCache' \in [quota : Quotas, sensitive : BOOLEAN]
        /\ peReload' \in [step : {"idle", "quotas", "swap"}, quota : Quotas, sensitive : BOOLEAN]
    <3>1. PICK q \in Quotas, s \in BOOLEAN : peDb = [quota |-> q, sensitive |-> s]
      BY <1>0 DEF PolicyTypes
    <3>2. peDb.quota = q /\ peDb.sensitive = s
      BY <3>1, Zenon
    <3>3. NotReloading \in [step : {"idle", "quotas", "swap"}, quota : Quotas, sensitive : BOOLEAN]
      BY <1>0, Zenon DEF NotReloading
    <3>4. peReload \in [step : {"idle", "quotas", "swap"}, quota : Quotas, sensitive : BOOLEAN]
          /\ peCache \in [quota : Quotas, sensitive : BOOLEAN]
      BY <1>0, Zenon DEF PolicyTypes
    <3>5. CASE ReloadQuotas
      BY <3>2, <3>3, <3>4, <3>5, Zenon DEF ReloadQuotas
    <3>6. CASE ReloadSensitive
      BY <3>2, <3>3, <3>4, <3>6, Zenon DEF ReloadSensitive
    <3>7. CASE SwapCaches
      BY <3>3, <3>4, <3>7, Zenon DEF SwapCaches, ReloadedCaches
    <3> QED BY <1>1, <3>5, <3>6, <3>7 DEF ReloadStep
  <2> QED BY <1>0, <2>1, <2>2 DEF PolicyTypes
<1>2. CASE StopPolicy
  <2>1. peStopped' \in BOOLEAN
    BY <1>2, Zenon DEF StopPolicy
  <2> QED BY <1>0, <1>2, <2>1 DEF StopPolicy, PolicyTypes
<1>3. ASSUME NEW q \in pePut, PutQuota(q) PROVE PolicyTypes'
  <2>1. q \in Quotas /\ peCache \in [quota : Quotas, sensitive : BOOLEAN]
    BY <1>0 DEF PolicyTypes
  <2>2. peCache' \in [quota : Quotas, sensitive : BOOLEAN]
    BY <1>3, <2>1, Zenon DEF PutQuota
  <2> QED BY <1>0, <1>3, <2>2 DEF PutQuota, PolicyTypes
<1>4. ASSUME NEW a \in PeAdmin, ChangeCache(a) PROVE PolicyTypes'
  <2>1. peAdmin[a].quota \in Quotas /\ peCache \in [quota : Quotas, sensitive : BOOLEAN]
    BY <1>0 DEF PolicyTypes
  <2>2. (peAdmin[a].step = "add") \in BOOLEAN
    OBVIOUS
  <2>3. peCache' \in [quota : Quotas, sensitive : BOOLEAN]
    BY <1>4, <2>1, <2>2, Zenon DEF ChangeCache
  <2>4. peAdmin' \in [PeAdmin -> [step : {"idle", "quota", "add", "remove"}, quota : Quotas]]
    BY <1>0, <1>4 DEF ChangeCache, NoChange, PolicyTypes
  <2> QED BY <1>0, <1>4, <2>3, <2>4 DEF ChangeCache, PolicyTypes
<1>5. ASSUME NEW c \in PeCheck, RateLimited(c) \/ CheckQuota(c) \/ ReadQuota(c) PROVE PolicyTypes'
  <2>1. peCheck' \in [PeCheck -> [step : {"idle", "miss"}, quota : Quotas]]
    BY <1>0, <1>5 DEF RateLimited, CheckQuota, ReadQuota, NotChecking, PolicyTypes
  <2>2. pePut' \subseteq 1..MaxQuota
    BY <1>0, <1>5 DEF RateLimited, CheckQuota, ReadQuota, Quotas, PolicyTypes
  <2>3. UNCHANGED <<peDb, peCache, peReload, peAdmin, peStopped>>
    BY <1>5 DEF RateLimited, CheckQuota, ReadQuota
  <2> QED BY <1>0, <2>1, <2>2, <2>3 DEF PolicyTypes
<1>6. ASSUME NEW a \in PeAdmin, SaveQuota(a) PROVE PolicyTypes'
  <2>1. PICK q \in Quotas : q = peDb.quota /\ q < MaxQuota
    BY <1>0, <1>6 DEF SaveQuota, PolicyTypes
  <2>2. PICK n \in Quotas : n = q + 1
    BY <1>0, <2>1 DEF Quotas
  <2>3. peDb' = [peDb EXCEPT !.quota = n]
    BY <1>6, <2>1, <2>2 DEF SaveQuota
  <2>4. peDb' \in [quota : Quotas, sensitive : BOOLEAN] /\ peDb'.quota = n
    BY <1>0, <2>3 DEF PolicyTypes
  <2>5. peAdmin' = [peAdmin EXCEPT ![a] = [step |-> "quota", quota |-> n]]
    BY <1>6, <2>4 DEF SaveQuota
  <2>6. peAdmin' \in [PeAdmin -> [step : {"idle", "quota", "add", "remove"}, quota : Quotas]]
    BY <1>0, <2>5 DEF PolicyTypes
  <2> QED BY <1>0, <1>6, <2>4, <2>6 DEF SaveQuota, PolicyTypes
<1>7. ASSUME NEW a \in PeAdmin, NEW sensitive \in BOOLEAN, SaveSensitive(a, sensitive)
      PROVE  PolicyTypes'
  <2>1. peDb' \in [quota : Quotas, sensitive : BOOLEAN]
    BY <1>0, <1>7, Zenon DEF SaveSensitive, PolicyTypes
  <2>2. peAdmin' \in [PeAdmin -> [step : {"idle", "quota", "add", "remove"}, quota : Quotas]]
    BY <1>0, <1>7 DEF SaveSensitive, PolicyTypes
  <2> QED BY <1>0, <1>7, <2>1, <2>2 DEF SaveSensitive, PolicyTypes
<1>8. CASE InstantPasses \/ UNCHANGED peVars
  BY <1>0, <1>8 DEF InstantPasses, peVars, PolicyTypes
<1> QED BY <1>1, <1>2, <1>3, <1>4, <1>5, <1>6, <1>7, <1>8 DEF PolicyNext, PutStep, AdminStep

\* What passed is no more than a full bucket and what the rate has given.
LEMMA BucketRate == PolicyInv => RateHolds
<1> SUFFICES ASSUME BucketInv PROVE RateHolds
  BY DEF PolicyInv
<1>0. /\ LimiterCap \in Nat \ {0} /\ LimiterRate \in Nat \ {0} /\ SecondTicks \in Nat \ {0}
      /\ peGranted \in Nat /\ peNow \in Nat
  BY PolicyEngineAssumption DEF BucketInv
<1>1. PICK t \in Nat, f \in Nat : t = peBucket.tokens /\ f = peBucket.refill /\ f <= peNow
  BY <1>0 DEF BucketInv
<1>2. (peGranted - LimiterCap) * SecondTicks <= (peGranted + t - LimiterCap) * SecondTicks
  BY <1>0, <1>1, Monotone
<1>3. LimiterRate * f <= LimiterRate * peNow
  BY <1>0, <1>1, Monotone
<1>4. CASE peBucket.made
  <2>1. (peGranted + t - LimiterCap) * SecondTicks <= LimiterRate * f
    BY <1>1, <1>4 DEF BucketInv
  <2> DEFINE x == (peGranted - LimiterCap) * SecondTicks
             y == (peGranted + t - LimiterCap) * SecondTicks
             u == LimiterRate * f
             v == LimiterRate * peNow
  <2>2. x \in Int /\ y \in Int /\ u \in Int /\ v \in Int /\ x <= y /\ y <= u /\ u <= v
    BY <1>0, <1>1, <1>2, <1>3, <2>1
  <2> HIDE DEF x, y, u, v
  <2>3. x <= v
    BY <2>2
  <2> QED BY <2>3 DEF x, v, RateHolds
<1>5. CASE ~peBucket.made
  <2>1. peGranted - LimiterCap <= 0
    BY <1>0, <1>5 DEF BucketInv
  <2>2. (peGranted - LimiterCap) * SecondTicks <= 0 * SecondTicks
    BY <1>0, <2>1, Monotone
  <2>3. 0 * SecondTicks = 0 /\ LimiterRate * peNow \in Nat
    BY <1>0
  <2>4. (peGranted - LimiterCap) * SecondTicks \in Int
    BY <1>0
  <2> QED BY <2>2, <2>3, <2>4 DEF RateHolds
<1> QED BY <1>4, <1>5

-----------------------------------------------------------------------------
(* SendLarge and SendHedge.                                                *)

BulkTypes ==
  /\ bulkPc \in {"idle", "read", "offer", "wait", "returned"}
  /\ bulkNext \in 0..ChunkCount /\ (bulkPc = "offer" => bulkNext # 0)
  /\ bulkChannel \in Seq(1..ChunkCount) /\ Len(bulkChannel) <= ChannelSize
  /\ bulkAnswer \in {"none", "ok", "error"}
  /\ workerPc \in [BulkWorker -> {"idle", "take", "send", "ended"}]
  /\ workerChunk \in [BulkWorker -> 0..ChunkCount]
  /\ \A w \in BulkWorker : workerPc[w] = "send" => workerChunk[w] # 0
  /\ wire \subseteq 1..ChunkCount
  /\ hedgePc \in [HedgeNode -> {"idle", "dial", "send", "sent", "failed"}]
  /\ hedgeAnswer \in {"none", "ok", "error"}

BulkFlags ==
  bulkError \in BOOLEAN /\ bulkEnded \in BOOLEAN /\ callerEnded \in BOOLEAN /\ hedgeDone \in BOOLEAN

\* Where a chunk that has been read may be.
Offered(i) == bulkPc = "offer" /\ i = bulkNext
Buffered(i) == \E k \in 1..Len(bulkChannel) : bulkChannel[k] = i
InHand(i) == \E w \in BulkWorker : workerPc[w] = "send" /\ workerChunk[w] = i

\* The context ends with the caller's or with an error, and until then no chunk
\* is lost: the loop reads to the end and the workers stop at an empty channel.
ChunkInv ==
  /\ bulkPc = "idle" => \A w \in BulkWorker : workerPc[w] = "idle"
  /\ bulkPc \in {"idle", "read", "offer"} => \A w \in BulkWorker : workerPc[w] # "ended" \/ bulkError
  /\ bulkEnded => callerEnded \/ bulkError \/ bulkPc = "returned"
  /\ ~bulkError /\ ~callerEnded =>
       /\ \A i \in 1..bulkNext : i \in wire \/ Offered(i) \/ Buffered(i) \/ InHand(i)
       /\ bulkPc \in {"wait", "returned"} => bulkNext = ChunkCount
       /\ \A w \in BulkWorker : workerPc[w] = "ended" => bulkChannel = <<>>
  /\ bulkPc = "returned" => \A w \in BulkWorker : workerPc[w] = "ended"
  /\ bulkAnswer = "ok" => bulkPc = "returned" /\ ~bulkError

HedgeInv ==
  /\ hedgeDone => HedgesEnded
  /\ hedgeAnswer = "ok" => hedgeDone

BulkInv == BulkTypes /\ BulkFlags /\ ChunkInv /\ HedgeInv

\* Nothing has been read at first.
LEMMA BulkInitInv == BulkInit => BulkInv
<1> SUFFICES ASSUME BulkInit PROVE BulkInv
  OBVIOUS
<1>1. BulkTypes
  BY BulkAssumption DEF BulkInit, BulkTypes
<1>2. BulkFlags
  BY Zenon DEF BulkInit, BulkFlags
<1>3. ChunkInv
  BY BulkAssumption DEF BulkInit, ChunkInv
<1>4. HedgeInv
  BY DEF BulkInit, HedgeInv
<1> QED BY <1>1, <1>2, <1>3, <1>4 DEF BulkInv

\* Every step keeps the flags Boolean.
LEMMA BulkFlagsStep ==
  ASSUME BulkInv, [BulkNext]_bulkVars
  PROVE  BulkFlags'
<1>1. /\ bulkError' \in {bulkError, TRUE} /\ bulkEnded' \in {bulkEnded, TRUE}
      /\ callerEnded' \in {callerEnded, TRUE} /\ hedgeDone' \in {hedgeDone, TRUE}
  BY DEF BulkNext, BulkStep, SendLarge, CallerCancels, ReadChunk, OfferChunk, StopReading,
         BulkReturns, TakeChunk, ChannelEnds, ChunkSent, ChunkFails, EndedByFailure, SendHedge,
         HedgeStep, HedgeDone, HedgeReturns, bulkVars, hedgeVars, workerVars
<1> QED BY <1>1, Zenon DEF BulkInv, BulkFlags

\* Every step keeps the types.
LEMMA BulkTypesStep ==
  ASSUME BulkInv, [BulkNext]_bulkVars
  PROVE  BulkTypes'
<1>0. BulkTypes /\ ChunkCount \in Nat /\ ChannelSize \in Nat \ {0}
  BY BulkAssumption DEF BulkInv
<1> USE DEF hedgeVars, workerVars
<1>1. CASE SendLarge
  BY <1>0, <1>1 DEF SendLarge, BulkTypes
<1>8. CASE CallerCancels \/ StopReading
  <2>1. /\ bulkPc' \in {bulkPc, "wait"}
        /\ UNCHANGED <<bulkNext, bulkChannel, bulkAnswer, workerPc, workerChunk, wire, hedgePc, hedgeAnswer>>
    BY <1>8, Zenon DEF CallerCancels, StopReading
  <2> QED BY <1>0, <2>1 DEF BulkTypes
<1>9. CASE ReadChunk
  <2>1. UNCHANGED <<bulkChannel, bulkAnswer, workerPc, workerChunk, wire, hedgePc, hedgeAnswer>>
    BY <1>9, Zenon DEF ReadChunk
  <2>2. \/ bulkNext < ChunkCount /\ bulkNext' = bulkNext + 1 /\ bulkPc' = "offer"
        \/ bulkPc' = "wait" /\ bulkNext' = bulkNext
    BY <1>9, Zenon DEF ReadChunk
  <2> QED BY <1>0, <2>1, <2>2 DEF BulkTypes
<1>10. CASE BulkReturns
  <2>1. UNCHANGED <<bulkNext, bulkChannel, workerPc, workerChunk, wire, hedgePc, hedgeAnswer>>
        /\ bulkPc' = "returned"
    BY <1>10, Zenon DEF BulkReturns
  <2>2. bulkAnswer' \in {"ok", "error"}
    BY <1>10 DEF BulkReturns
  <2> QED BY <1>0, <2>1, <2>2 DEF BulkTypes
<1>2. CASE OfferChunk
  <2>1. PICK i \in 1..ChunkCount : i = bulkNext
    BY <1>0, <1>2 DEF OfferChunk, BulkTypes
  <2>2. bulkChannel \in Seq(1..ChunkCount) /\ Len(bulkChannel) \in Nat /\ Len(bulkChannel) < ChannelSize
    BY <1>0, <1>2 DEF OfferChunk, BulkTypes
  <2>3. PICK q : q = Append(bulkChannel, i)
    OBVIOUS
  <2>4. q \in Seq(1..ChunkCount) /\ Len(q) = Len(bulkChannel) + 1
    BY <2>2, <2>3
  <2>5. Len(q) <= ChannelSize
    BY <1>0, <2>2, <2>4
  <2>6. bulkChannel' = q
    BY <1>2, <2>1, <2>3 DEF OfferChunk
  <2> QED BY <1>0, <1>2, <2>4, <2>5, <2>6 DEF OfferChunk, BulkTypes
<1>3. ASSUME NEW w \in BulkWorker, TakeChunk(w) PROVE BulkTypes'
  <2>1. PICK i \in 1..ChunkCount : i = Head(bulkChannel)
    BY <1>0, <1>3 DEF TakeChunk, BulkTypes
  <2>2. PICK q \in Seq(1..ChunkCount) : q = Tail(bulkChannel) /\ Len(q) <= ChannelSize
    <3>1. bulkChannel \in Seq(1..ChunkCount) /\ bulkChannel # <<>> /\ Len(bulkChannel) <= ChannelSize
      BY <1>0, <1>3 DEF TakeChunk, BulkTypes
    <3>2. PICK q : q = Tail(bulkChannel)
      OBVIOUS
    <3>3. q \in Seq(1..ChunkCount) /\ Len(q) = Len(bulkChannel) - 1 /\ Len(bulkChannel) \in Nat
      BY <3>1, <3>2
    <3>4. Len(q) <= ChannelSize
      BY <1>0, <3>1, <3>3
    <3> QED BY <3>2, <3>3, <3>4
  <2>3. /\ workerChunk' = [workerChunk EXCEPT ![w] = i] /\ workerPc' = [workerPc EXCEPT ![w] = "send"]
        /\ bulkChannel' = q
    BY <1>3, <2>1, <2>2 DEF TakeChunk
  <2>4. i \in 0..ChunkCount /\ i # 0
    BY <1>0
  <2> QED BY <1>0, <1>3, <2>2, <2>3, <2>4 DEF TakeChunk, BulkTypes
<1>4. ASSUME NEW w \in BulkWorker, ChannelEnds(w) \/ ChunkSent(w) \/ ChunkFails(w) PROVE BulkTypes'
  <2>1. /\ UNCHANGED <<bulkPc, bulkNext, bulkChannel, bulkAnswer, workerChunk, hedgePc, hedgeAnswer>>
        /\ workerPc' \in {[workerPc EXCEPT ![w] = "ended"], [workerPc EXCEPT ![w] = "take"]}
        /\ wire' = wire \/ (workerPc[w] = "send" /\ wire' = wire \cup {workerChunk[w]})
    BY <1>4, Zenon DEF ChannelEnds, ChunkSent, ChunkFails
  <2>2. workerPc[w] = "send" => workerChunk[w] \in 1..ChunkCount
    BY <1>0 DEF BulkTypes
  <2>3. wire' \subseteq 1..ChunkCount
    BY <1>0, <2>1, <2>2 DEF BulkTypes
  <2> QED BY <1>0, <2>1, <2>3 DEF BulkTypes
<1>5. CASE SendHedge \/ HedgeDone \/ HedgeReturns
  BY <1>0, <1>5 DEF SendHedge, HedgeDone, HedgeReturns, BulkTypes
<1>6. ASSUME NEW n \in HedgeNode, HedgeStep(n) PROVE BulkTypes'
  BY <1>0, <1>6 DEF HedgeStep, BulkTypes
<1>7. CASE UNCHANGED bulkVars
  BY <1>0, <1>7 DEF bulkVars, BulkTypes
<1> QED BY <1>1, <1>2, <1>3, <1>4, <1>5, <1>6, <1>7, <1>8, <1>9, <1>10 DEF BulkNext, BulkStep

\* Every step of SendHedge keeps its channel and its answer right.
LEMMA HedgeInvStep ==
  ASSUME BulkInv, [BulkNext]_bulkVars
  PROVE  HedgeInv'
<1>0. HedgeInv /\ BulkTypes
  BY DEF BulkInv
<1>1. CASE UNCHANGED hedgeVars
  BY <1>0, <1>1 DEF hedgeVars, HedgeInv, HedgesEnded
<1>2. CASE SendHedge
  BY <1>0, <1>2 DEF SendHedge, HedgeInv, HedgesEnded
<1>3. CASE HedgeDone \/ HedgeReturns
  BY <1>0, <1>3 DEF HedgeDone, HedgeReturns, HedgeInv, HedgesEnded
<1>4. ASSUME NEW n \in HedgeNode, HedgeStep(n) PROVE HedgeInv'
  <2>1. ~HedgesEnded
    BY <1>4 DEF HedgeStep, HedgesEnded
  <2> QED BY <1>0, <1>4, <2>1 DEF HedgeStep, HedgeInv
<1> QED BY <1>1, <1>2, <1>3, <1>4
        DEF BulkNext, BulkStep, SendLarge, CallerCancels, ReadChunk, OfferChunk, StopReading,
            BulkReturns, TakeChunk, ChannelEnds, ChunkSent, ChunkFails, bulkVars

\* Every step of SendLarge keeps account of the chunks.
LEMMA ChunkStep ==
  ASSUME BulkInv, [BulkNext]_bulkVars
  PROVE  ChunkInv'
<1>0. BulkTypes /\ ChunkInv /\ ChunkCount \in Nat
  BY BulkAssumption DEF BulkInv
<1> USE DEF hedgeVars, workerVars
<1>1. CASE UNCHANGED <<bulkPc, bulkNext, bulkChannel, bulkError, bulkEnded, callerEnded,
                       bulkAnswer, workerVars, wire>>
  BY <1>0, <1>1 DEF ChunkInv, Offered, Buffered, InHand
<1>2. CASE SendLarge
  <2>1. /\ bulkPc = "idle" /\ bulkPc' = "read" /\ \A w \in BulkWorker : workerPc'[w] = "take"
        /\ UNCHANGED <<bulkNext, bulkChannel, bulkError, bulkEnded, callerEnded, bulkAnswer,
                       workerChunk, wire>>
    BY <1>2 DEF SendLarge
  <2>2. \A i : ~Offered(i) /\ ~InHand(i)
    BY <1>0, <2>1 DEF Offered, InHand, ChunkInv
  <2>3. \A i : Buffered(i)' <=> Buffered(i)
    BY <2>1 DEF Buffered
  <2> QED BY <1>0, <2>1, <2>2, <2>3 DEF ChunkInv
<1>3. CASE CallerCancels
  BY <1>0, <1>3 DEF CallerCancels, ChunkInv
<1>4. CASE ReadChunk
  <2>1. /\ bulkPc = "read" /\ ~bulkEnded
        /\ UNCHANGED <<bulkChannel, bulkEnded, callerEnded, bulkAnswer, workerPc, workerChunk, wire>>
    BY <1>4 DEF ReadChunk
  <2>2. \A i : /\ ~Offered(i)
               /\ Buffered(i)' <=> Buffered(i)
               /\ InHand(i)' <=> InHand(i)
    BY <2>1 DEF Offered, Buffered, InHand
  <2>3. bulkAnswer # "ok"
    BY <1>0, <2>1 DEF ChunkInv
  <2>4. CASE bulkNext' = bulkNext + 1 /\ bulkPc' = "offer" /\ bulkError' = bulkError
    <3>1. PICK n : n = bulkNext + 1
      OBVIOUS
    <3>2. \A i \in 1..n : i \in 1..bulkNext \/ i = n
      BY <1>0, <3>1 DEF BulkTypes
    <3>3. bulkNext' = n /\ bulkPc' = "offer"
      BY <2>4, <3>1
    <3>4. \A i : (i = n) => Offered(i)'
      BY <3>3 DEF Offered
    <3>5. \A i \in 1..bulkNext' : i \in 1..bulkNext \/ Offered(i)'
      BY <3>2, <3>3, <3>4, Zenon
    <3>6. ~bulkError' /\ ~callerEnded' => ~bulkError /\ ~callerEnded
      BY <2>1, <2>4, Zenon
    <3>7. ~bulkError' /\ ~callerEnded' =>
            \A i \in 1..bulkNext' : i \in wire' \/ Offered(i)' \/ Buffered(i)' \/ InHand(i)'
      BY <1>0, <2>1, <2>2, <3>5, <3>6, Zenon DEF ChunkInv
    <3>8. ~bulkError' /\ ~callerEnded' => \A w \in BulkWorker : workerPc'[w] = "ended" => bulkChannel' = <<>>
      BY <1>0, <2>1, <3>6, Zenon DEF ChunkInv
    <3>9. /\ bulkPc' # "idle" /\ bulkPc' # "wait" /\ bulkPc' # "returned"
          /\ bulkAnswer' # "ok" /\ ~bulkEnded'
      BY <2>1, <2>3, <2>4
    <3>10. \A w \in BulkWorker : workerPc'[w] # "ended" \/ bulkError'
      BY <1>0, <2>1, <2>4 DEF ChunkInv
    <3> QED BY <3>7, <3>8, <3>9, <3>10 DEF ChunkInv
  <2>5. CASE bulkNext = ChunkCount /\ bulkPc' = "wait" /\ UNCHANGED <<bulkNext, bulkError>>
    BY <1>0, <2>1, <2>2, <2>3, <2>5 DEF ChunkInv
  <2>6. CASE bulkPc' = "wait" /\ bulkError' = TRUE
    BY <1>0, <2>1, <2>3, <2>6 DEF ChunkInv
  <2> QED BY <1>4, <2>4, <2>5, <2>6 DEF ReadChunk
<1>5. CASE OfferChunk
  <2>1. PICK q : q = Append(bulkChannel, bulkNext)
    OBVIOUS
  <2>2. /\ bulkPc = "offer" /\ bulkChannel' = q
        /\ bulkPc' = "read" \/ (bulkNext = ChunkCount /\ bulkPc' = "wait")
        /\ UNCHANGED <<bulkNext, bulkError, bulkEnded, callerEnded, bulkAnswer, workerPc,
                       workerChunk, wire>>
    BY <1>5, <2>1 DEF OfferChunk
  <2>3. /\ Len(bulkChannel) \in Nat /\ Len(q) = Len(bulkChannel) + 1
        /\ q[Len(bulkChannel) + 1] = bulkNext
        /\ \A k \in 1..Len(bulkChannel) : q[k] = bulkChannel[k]
    BY <1>0, <2>1 DEF BulkTypes
  <2>4. \A i : Buffered(i) \/ Offered(i) => Buffered(i)'
    <3>1. \A k \in 1..Len(bulkChannel) : k \in 1..Len(q)
      BY <2>3
    <3>2. Len(bulkChannel) + 1 \in 1..Len(q)
      BY <2>3
    <3> QED BY <2>2, <2>3, <3>1, <3>2 DEF Buffered, Offered
  <2>5. \A i : InHand(i)' <=> InHand(i)
    BY <2>2 DEF InHand
  <2>6. bulkError \/ \A w \in BulkWorker : workerPc[w] # "ended"
    BY <1>0, <2>2 DEF ChunkInv
  <2> QED BY <1>0, <2>2, <2>4, <2>5, <2>6 DEF ChunkInv
<1>6. CASE StopReading
  <2>1. bulkPc \in {"read", "offer"} /\ (callerEnded \/ bulkError)
    BY <1>0, <1>6 DEF StopReading, ChunkInv
  <2> QED BY <1>0, <1>6, <2>1 DEF StopReading, ChunkInv
<1>7. CASE BulkReturns
  <2>1. \A i : ~Offered(i) /\ (Buffered(i)' <=> Buffered(i)) /\ (InHand(i)' <=> InHand(i))
    BY <1>7 DEF BulkReturns, Offered, Buffered, InHand
  <2> QED BY <1>0, <1>7, <2>1 DEF BulkReturns, WorkersEnded, ChunkInv
<1>8. ASSUME NEW w \in BulkWorker, TakeChunk(w) PROVE ChunkInv'
  <2>1. PICK q : q = Tail(bulkChannel)
    OBVIOUS
  <2>2. /\ workerPc[w] = "take" /\ bulkChannel # <<>> /\ bulkChannel' = q
        /\ workerChunk' = [workerChunk EXCEPT ![w] = bulkChannel[1]]
        /\ workerPc' = [workerPc EXCEPT ![w] = "send"]
        /\ UNCHANGED <<bulkPc, bulkNext, bulkError, bulkEnded, callerEnded, bulkAnswer, wire>>
    <3>1. bulkChannel # <<>> => Head(bulkChannel) = bulkChannel[1]
      BY <1>0 DEF BulkTypes
    <3> QED BY <1>8, <2>1, <3>1 DEF TakeChunk
  <2>3. /\ Len(bulkChannel) \in Nat \ {0} /\ Len(q) = Len(bulkChannel) - 1
        /\ \A k \in 1..Len(q) : q[k] = bulkChannel[k + 1]
    BY <1>0, <2>1, <2>2 DEF BulkTypes
  <2>4. \A i : Buffered(i) => Buffered(i)' \/ i = bulkChannel[1]
    <3> SUFFICES ASSUME NEW k \in 1..Len(bulkChannel), k # 1
                 PROVE  \E j \in 1..Len(q) : q[j] = bulkChannel[k]
      BY <2>2 DEF Buffered
    <3>1. k - 1 \in 1..Len(q) /\ q[k - 1] = bulkChannel[(k - 1) + 1] /\ (k - 1) + 1 = k
      BY <2>3
    <3> QED BY <3>1
  <2>5. \A i : InHand(i) \/ i = bulkChannel[1] => InHand(i)'
    <3>1. PICK c : c = bulkChannel[1]
      OBVIOUS
    <3>2. workerPc'[w] = "send" /\ workerChunk'[w] = c
      BY <1>0, <2>2, <3>1 DEF BulkTypes
    <3>3. \A v \in BulkWorker : workerPc[v] = "send" => workerPc'[v] = "send" /\ workerChunk'[v] = workerChunk[v]
      BY <1>0, <2>2 DEF BulkTypes
    <3> QED BY <3>1, <3>2, <3>3 DEF InHand
  <2>6. \A i : Offered(i)' <=> Offered(i)
    BY <2>2 DEF Offered
  <2>7. \A v \in BulkWorker : workerPc'[v] = "ended" <=> workerPc[v] = "ended"
    BY <1>0, <2>2 DEF BulkTypes
  <2>8. \A i : i \in wire \/ Offered(i) \/ Buffered(i) \/ InHand(i) =>
                 i \in wire' \/ Offered(i)' \/ Buffered(i)' \/ InHand(i)'
    BY <2>2, <2>4, <2>5, <2>6, Zenon
  <2> QED BY <1>0, <2>2, <2>7, <2>8 DEF ChunkInv
<1>9. ASSUME NEW w \in BulkWorker, ChannelEnds(w) PROVE ChunkInv'
  <2>1. /\ workerPc[w] = "take" /\ bulkChannel = <<>> /\ bulkPc = "wait"
        /\ workerPc' = [workerPc EXCEPT ![w] = "ended"]
        /\ UNCHANGED <<bulkPc, bulkNext, bulkChannel, bulkError, bulkEnded, callerEnded,
                       bulkAnswer, workerChunk, wire>>
    BY <1>9 DEF ChannelEnds
  <2>2. \A i : /\ Offered(i)' <=> Offered(i)
               /\ Buffered(i)' <=> Buffered(i)
               /\ InHand(i) => InHand(i)'
    BY <1>0, <2>1 DEF Offered, Buffered, InHand, BulkTypes
  <2> QED BY <1>0, <2>1, <2>2 DEF ChunkInv, BulkTypes
<1>10. ASSUME NEW w \in BulkWorker, ChunkSent(w) PROVE ChunkInv'
  <2>1. /\ workerPc[w] = "send" /\ wire' = wire \cup {workerChunk[w]}
        /\ workerPc' = [workerPc EXCEPT ![w] = "take"]
        /\ UNCHANGED <<bulkPc, bulkNext, bulkChannel, bulkError, bulkEnded, callerEnded,
                       bulkAnswer, workerChunk>>
    BY <1>10 DEF ChunkSent
  <2>2. \A i : /\ Offered(i)' <=> Offered(i)
               /\ Buffered(i)' <=> Buffered(i)
               /\ InHand(i) => InHand(i)' \/ i \in wire'
    BY <1>0, <2>1 DEF Offered, Buffered, InHand, BulkTypes
  <2>3. \A v \in BulkWorker : workerPc'[v] = "ended" <=> workerPc[v] = "ended"
    BY <1>0, <2>1 DEF BulkTypes
  <2>4. bulkPc # "idle"
    BY <1>0, <2>1 DEF ChunkInv
  <2> QED BY <1>0, <2>1, <2>2, <2>3, <2>4 DEF ChunkInv
<1>11. ASSUME NEW w \in BulkWorker, ChunkFails(w) PROVE ChunkInv'
  <2>1. bulkPc # "idle" /\ bulkPc # "returned" /\ bulkError'
    BY <1>0, <1>11 DEF ChunkFails, ChunkInv
  <2> QED BY <1>0, <1>11, <2>1 DEF ChunkFails, ChunkInv
<1> QED BY <1>1, <1>2, <1>3, <1>4, <1>5, <1>6, <1>7, <1>8, <1>9, <1>10, <1>11
        DEF BulkNext, BulkStep, SendHedge, HedgeDone, HedgeReturns, HedgeStep, bulkVars

\* An answer without an error stands for the whole source, or for all nodes.
LEMMA BulkAnswers == BulkInv => BulkTypeOK /\ OkSentAll /\ HedgeOkEnded
<1> SUFFICES ASSUME BulkInv PROVE BulkTypeOK /\ OkSentAll /\ HedgeOkEnded
  OBVIOUS
<1>0. BulkTypes /\ BulkFlags /\ ChunkInv /\ HedgeInv /\ BulkWorker # {} /\ ChunkCount \in Nat
  BY BulkAssumption DEF BulkInv
<1>1. BulkTypeOK
  <2>1. {bulkError, bulkEnded, callerEnded, hedgeDone} \subseteq BOOLEAN
    BY <1>0, Zenon DEF BulkFlags
  <2> QED BY <1>0, <2>1 DEF BulkTypeOK, BulkTypes
<1>2. OkSentAll
  <2> SUFFICES ASSUME bulkAnswer = "ok", ~callerEnded PROVE wire = 1..ChunkCount
    BY DEF OkSentAll
  <2>1. bulkPc = "returned" /\ ~bulkError /\ bulkNext = ChunkCount
        /\ \A w \in BulkWorker : workerPc[w] = "ended"
    BY <1>0 DEF ChunkInv
  <2>2. bulkChannel = <<>>
    BY <1>0, <2>1 DEF ChunkInv
  <2>3. \A i : ~Offered(i) /\ ~InHand(i) /\ ~Buffered(i)
    BY <2>1, <2>2 DEF Offered, InHand, Buffered
  <2>4. 1..ChunkCount \subseteq wire
    BY <1>0, <2>1, <2>3 DEF ChunkInv
  <2> QED BY <1>0, <2>4 DEF BulkTypes
<1>3. HedgeOkEnded
  BY <1>0 DEF HedgeInv, HedgeOkEnded, HedgesEnded
<1> QED BY <1>1, <1>2, <1>3
-----------------------------------------------------------------------------
(* The components side by side.                                            *)

\* What a step of the whole is to each component.
LEMMA ServicesStep ==
  [ServicesNext]_servicesVars =>
    /\ part' = part
    /\ [Next]_vars /\ [TaskStoreNext]_tsVars /\ [AgentNext]_agVars /\ [TrainNext]_trainVars
    /\ [PolicyNext]_peVars /\ [TokenRenewalNext]_tkVars /\ [BulkNext]_bulkVars
    /\ [AsyncNext]_asyncVars
BY DEF ServicesNext, servicesVars, Others

\* A send that answers without an error has sent all, for any number of chunks,
\* workers and nodes.
THEOREM SendsHoldAlways == ServicesSpec => []SendsHold
<1>1. ServicesInit => BulkInv
  BY BulkInitInv DEF ServicesInit
<1>2. BulkInv /\ [ServicesNext]_servicesVars => BulkInv'
  BY ServicesStep, BulkTypesStep, BulkFlagsStep, ChunkStep, HedgeInvStep DEF BulkInv
<1>3. BulkInv => SendsHold
  BY BulkAnswers DEF SendsHold
<1> QED BY <1>1, <1>2, <1>3, PTL DEF ServicesSpec

\* What the invariant says of the policy engine includes its types.
LEMMA PolicyIsTyped == PolicyInv => PolicyTypeOK
<1> SUFFICES ASSUME PolicyInv PROVE PolicyTypeOK
  OBVIOUS
<1>1. /\ peDb \in [quota : 0..MaxQuota, sensitive : BOOLEAN]
      /\ peCache \in [quota : 0..MaxQuota, sensitive : BOOLEAN] /\ peStopped \in BOOLEAN
      /\ pePut \subseteq 1..MaxQuota
  BY Zenon DEF PolicyInv, PolicyTypes, Quotas
<1>2. peReload.step \in {"idle", "quotas", "swap"}
  BY DEF PolicyInv, PolicyTypes
<1>3. \A c \in PeCheck : peCheck[c].step \in {"idle", "miss"}
  BY DEF PolicyInv, PolicyTypes
<1>4. \A a \in PeAdmin : peAdmin[a].step \in {"idle", "quota", "add", "remove"}
  BY DEF PolicyInv, PolicyTypes
<1>5. peBucket.tokens \in 0..LimiterCap /\ peBucket.refill \in Nat
  BY DEF PolicyInv, BucketInv
<1>6. peGranted \in Nat /\ peNow \in 0..MaxInstants /\ peBucket.refill <= peNow
  BY Zenon DEF PolicyInv, BucketInv
<1>7. peBucket.refill \in 0..peNow
  BY <1>5, <1>6
<1> QED BY <1>1, <1>2, <1>3, <1>4, <1>5, <1>6, <1>7, Zenon DEF PolicyTypeOK

\* The limiter lets no more pass than time gives, and the token is renewed before
\* it expires, for any rate, capacity and clock, time to live and jitter.
THEOREM InTimeAlways == ServicesSpec => []InTime
<1> DEFINE Inv == (part = "policy" => PolicyInv) /\ TokenInv
<1>1. ServicesInit => Inv
  BY PolicyInitInv, TokenInit DEF ServicesInit
<1>2. Inv /\ [ServicesNext]_servicesVars => Inv'
  BY ServicesStep, BucketStep, PolicyTypesStep, TokenStep DEF PolicyInv
<1>3. Inv => InTime
  <2> SUFFICES ASSUME Inv PROVE InTime
    OBVIOUS
  <2>1. PolicyInv => PolicyTypeOK
    BY PolicyIsTyped
  <2>2. TokenInv => TokenTypeOK /\ RenewedInTime
    BY Zenon DEF TokenInv, RenewedInTime
  <2> QED BY <2>1, <2>2, BucketRate, Zenon DEF InTime
<1> QED BY <1>1, <1>2, <1>3, PTL DEF ServicesSpec

-----------------------------------------------------------------------------
(* The connectors' jobs.                                                   *)

AsyncEntry == [in : BOOLEAN, result : BOOLEAN, done : BOOLEAN, old : BOOLEAN]
AsyncAnswer == [result : BOOLEAN, done : BOOLEAN]

AsyncTypes ==
  /\ asyncStore \in [AsyncJob -> AsyncEntry] /\ asyncFile \in [AsyncJob -> AsyncEntry]
  /\ worker \in [AsyncJob -> {"unused", "persist", "run", "done", "persistDone", "gone"}]
  /\ asyncLock \in AsyncJob \cup {"none"}
  /\ asyncPollPc \in [Poller -> {"idle", "result", "done", "answer"}]
  /\ pollOf \in [Poller -> AsyncJob \cup {"none"}]
  /\ \A p \in Poller : asyncPollPc[p] # "idle" => pollOf[p] \in AsyncJob
  /\ pollSaw \in [Poller -> AsyncAnswer] /\ raced \in [Poller -> BOOLEAN]

\* The result is there before the job is done, in memory and on disk, and from
\* the result to the file the goroutine has the lock.
EntryInv ==
  \A j \in AsyncJob :
    /\ asyncStore[j].done => asyncStore[j].result
    /\ asyncFile[j].done => asyncFile[j].result
    /\ worker[j] \in {"done", "persistDone"} => asyncLock = j /\ asyncStore[j].result
    /\ worker[j] = "persistDone" => asyncStore[j].done

\* A poll between its two reads has missed the result only if there was none, or
\* if the goroutine has written since.
PollInv ==
  \A p \in Poller :
    /\ asyncPollPc[p] = "done" =>
         ~pollSaw[p].done /\ (pollSaw[p].result \/ raced[p] \/ ~asyncStore[pollOf[p]].result)
    /\ asyncPollPc[p] = "answer" /\ pollSaw[p].done => pollSaw[p].result \/ raced[p]

AsyncInv == AsyncTypes /\ EntryInv /\ PollInv /\ FinishedSurvives

\* No job is known at first.
LEMMA AsyncInitInv == AsyncInit => AsyncInv
<1> SUFFICES ASSUME AsyncInit PROVE AsyncInv
  OBVIOUS
<1>1. NoJob \in AsyncEntry /\ ~NoJob.done /\ [result |-> FALSE, done |-> FALSE] \in AsyncAnswer
  BY Zenon DEF NoJob, AsyncEntry, AsyncAnswer
<1>2. AsyncTypes
  BY <1>1 DEF AsyncInit, AsyncTypes
<1>3. EntryInv
  BY <1>1 DEF AsyncInit, EntryInv
<1>4. PollInv /\ FinishedSurvives
  BY DEF AsyncInit, PollInv, FinishedSurvives
<1> QED BY <1>2, <1>3, <1>4 DEF AsyncInv

\* What StartAsync and the steps of the goroutine make of the entry of a job.
LEMMA EntryStep ==
  ASSUME AsyncInv, NEW j \in AsyncJob
  PROVE  /\ StartAsync(j) => asyncStore' = [asyncStore EXCEPT ![j] = NewJob]
         /\ WriteResult(j) => asyncStore' = [asyncStore EXCEPT ![j] =
              [in |-> TRUE, result |-> TRUE, done |-> asyncStore[j].done, old |-> asyncStore[j].old]]
         /\ WriteDone(j) => asyncStore' = [asyncStore EXCEPT ![j] =
              [in |-> asyncStore[j].in, result |-> asyncStore[j].result, done |-> TRUE, old |-> FALSE]]
         /\ GrowOld(j) => asyncStore' = [asyncStore EXCEPT ![j] =
              [in |-> asyncStore[j].in, result |-> asyncStore[j].result,
               done |-> asyncStore[j].done, old |-> TRUE]]
         /\ PersistNew(j) => asyncFile' = [asyncFile EXCEPT ![j] =
              [in |-> TRUE, result |-> asyncStore[j].result,
               done |-> asyncStore[j].done, old |-> asyncStore[j].old]]
<1>1. asyncStore \in [AsyncJob -> AsyncEntry]
  BY DEF AsyncInv, AsyncTypes
<1>2. asyncStore[j] \in AsyncEntry
  BY <1>1
<1>3. asyncStore[j] = [in |-> asyncStore[j].in, result |-> asyncStore[j].result,
                       done |-> asyncStore[j].done, old |-> asyncStore[j].old]
  BY <1>2, Zenon DEF AsyncEntry
<1>4. WriteResult(j) => asyncStore' = [asyncStore EXCEPT ![j] =
        [in |-> TRUE, result |-> TRUE, done |-> asyncStore[j].done, old |-> asyncStore[j].old]]
  BY <1>3 DEF WriteResult
<1>5. WriteDone(j) => asyncStore' = [asyncStore EXCEPT ![j] =
        [in |-> asyncStore[j].in, result |-> asyncStore[j].result, done |-> TRUE, old |-> FALSE]]
  BY <1>3 DEF WriteDone
<1>6. GrowOld(j) => asyncStore' = [asyncStore EXCEPT ![j] =
        [in |-> asyncStore[j].in, result |-> asyncStore[j].result,
         done |-> asyncStore[j].done, old |-> TRUE]]
  BY <1>3 DEF GrowOld
<1>7. PersistNew(j) => asyncFile' = [asyncFile EXCEPT ![j] =
        [in |-> TRUE, result |-> asyncStore[j].result,
         done |-> asyncStore[j].done, old |-> asyncStore[j].old]]
  BY <1>3 DEF PersistNew
<1>8. StartAsync(j) => asyncStore' = [asyncStore EXCEPT ![j] = NewJob]
  BY DEF StartAsync
<1> QED BY <1>4, <1>5, <1>6, <1>7, <1>8, Zenon

\* Every step keeps the types.
LEMMA AsyncTypesStep ==
  ASSUME AsyncInv, [AsyncNext]_asyncVars
  PROVE  AsyncTypes'
<1>0. AsyncTypes
  BY DEF AsyncInv
<1>e. ASSUME NEW j \in AsyncJob
      PROVE  asyncStore[j] \in AsyncEntry /\ asyncFile[j] \in AsyncEntry /\ NoJob \in AsyncEntry /\ NewJob \in AsyncEntry
  BY <1>0 DEF AsyncTypes, AsyncEntry, NoJob, NewJob
<1>f. ASSUME NEW j \in AsyncJob
      PROVE  /\ asyncStore[j].in \in BOOLEAN /\ asyncStore[j].result \in BOOLEAN
             /\ asyncStore[j].done \in BOOLEAN /\ asyncStore[j].old \in BOOLEAN
             /\ asyncFile[j].done \in BOOLEAN /\ asyncFile[j].result \in BOOLEAN
  BY <1>e, Zenon DEF AsyncEntry
<1>1. ASSUME NEW j \in AsyncJob, StartAsync(j) \/ WriteDone(j) \/ GrowOld(j) PROVE AsyncTypes'
  <2>1. PICK e \in AsyncEntry : asyncStore' = [asyncStore EXCEPT ![j] = e]
    <3>1. StartAsync(j) => asyncStore' = [asyncStore EXCEPT ![j] = NewJob]
      BY EntryStep
    <3>2. /\ [in |-> asyncStore[j].in, result |-> asyncStore[j].result, done |-> TRUE, old |-> FALSE] \in AsyncEntry
          /\ [in |-> asyncStore[j].in, result |-> asyncStore[j].result,
              done |-> asyncStore[j].done, old |-> TRUE] \in AsyncEntry
      BY <1>f, Zenon DEF AsyncEntry
    <3> QED BY <1>1, <1>e, <3>1, <3>2, EntryStep, Zenon
  <2>2. worker' \in [AsyncJob -> {"unused", "persist", "run", "done", "persistDone", "gone"}]
    BY <1>0, <1>1 DEF StartAsync, WriteDone, GrowOld, WorkerAt, AsyncTypes
  <2>3. UNCHANGED <<asyncFile, asyncLock, asyncPollPc, pollOf, pollSaw, raced>>
    BY <1>1 DEF StartAsync, WriteDone, GrowOld, asyncPolls
  <2> QED BY <1>0, <2>1, <2>2, <2>3 DEF AsyncTypes
<1>2. ASSUME NEW j \in AsyncJob, PersistNew(j) \/ PersistDone(j) PROVE AsyncTypes'
  <2>1. PICK e \in AsyncEntry : asyncFile' = [asyncFile EXCEPT ![j] = e]
    <3>1. PersistDone(j) => asyncFile' = [asyncFile EXCEPT ![j] = asyncStore[j]]
      BY DEF PersistDone, FileAtEnd
    <3>2. [in |-> TRUE, result |-> asyncStore[j].result,
           done |-> asyncStore[j].done, old |-> asyncStore[j].old] \in AsyncEntry
      BY <1>f, Zenon DEF AsyncEntry
    <3> QED BY <1>2, <1>e, <3>1, <3>2, EntryStep, Zenon
  <2>2. worker' \in [AsyncJob -> {"unused", "persist", "run", "done", "persistDone", "gone"}]
    BY <1>0, <1>2 DEF PersistNew, PersistDone, WorkerAt, AsyncTypes
  <2>3. /\ UNCHANGED <<asyncStore, asyncPollPc, pollOf, pollSaw, raced>>
        /\ asyncLock' \in {asyncLock, "none"}
    BY <1>2 DEF PersistNew, PersistDone, FreeStore, asyncPolls
  <2> QED BY <1>0, <2>1, <2>2, <2>3 DEF AsyncTypes
<1>3. ASSUME NEW j \in AsyncJob, WriteResult(j) PROVE AsyncTypes'
  <2>1. PICK e \in AsyncEntry : asyncStore' = [asyncStore EXCEPT ![j] = e]
    BY <1>3, <1>f, EntryStep DEF AsyncEntry
  <2>2. worker' \in [AsyncJob -> {"unused", "persist", "run", "done", "persistDone", "gone"}]
    BY <1>0, <1>3 DEF WriteResult, WorkerAt, AsyncTypes
  <2>3. UNCHANGED <<asyncFile, asyncPollPc, pollOf, pollSaw>> /\ asyncLock' = j
    BY <1>3 DEF WriteResult
  <2>4. raced' \in [Poller -> BOOLEAN]
    BY <1>3, Zenon DEF WriteResult
  <2> QED BY <1>0, <2>1, <2>2, <2>3, <2>4 DEF AsyncTypes
<1>4. CASE CleanupJobs
  <2>1. /\ asyncStore' \in [AsyncJob -> AsyncEntry] /\ asyncFile' \in [AsyncJob -> AsyncEntry]
    BY <1>0, <1>e, <1>4 DEF CleanupJobs, AsyncTypes
  <2>2. UNCHANGED <<worker, asyncLock, pollOf, raced>>
    BY <1>4 DEF CleanupJobs
  <2>3. /\ asyncPollPc' \in [Poller -> {"idle", "result", "done", "answer"}]
        /\ \A p \in Poller : asyncPollPc'[p] # "idle" => pollOf[p] \in AsyncJob
    BY <1>0, <1>4 DEF CleanupJobs, AsyncTypes
  <2>4. ASSUME NEW p \in Poller, pollOf[p] \in AsyncJob PROVE Detached(p) \in AsyncAnswer
    <3>1. pollSaw[p].result \in BOOLEAN
      BY <1>0 DEF AsyncTypes, AsyncAnswer
    <3> QED BY <1>f, <2>4, <3>1, Zenon DEF Detached, AsyncAnswer
  <2>5. ASSUME NEW p \in Poller, asyncPollPc[p] \in {"result", "done"} PROVE Detached(p) \in AsyncAnswer
    BY <1>0, <2>4, <2>5 DEF AsyncTypes
  <2>6. \A p \in Poller : pollSaw[p] \in AsyncAnswer
    BY <1>0 DEF AsyncTypes
  <2>7. pollSaw' \in [Poller -> AsyncAnswer]
    BY <1>4, <2>5, <2>6 DEF CleanupJobs
  <2> QED BY <1>0, <2>1, <2>2, <2>3, <2>7 DEF AsyncTypes
<1>5. CASE AsyncRestart
  <2>1. raced' \in [Poller -> BOOLEAN]
    BY <1>5, Zenon DEF AsyncRestart
  <2>2. /\ asyncStore' \in [AsyncJob -> AsyncEntry] /\ UNCHANGED <<asyncFile, pollSaw>>
        /\ worker' \in [AsyncJob -> {"unused", "persist", "run", "done", "persistDone", "gone"}]
        /\ asyncLock' = "none"
    BY <1>0, <1>e, <1>5 DEF AsyncRestart, AsyncTypes
  <2>3. /\ asyncPollPc' \in [Poller -> {"idle", "result", "done", "answer"}]
        /\ pollOf' \in [Poller -> AsyncJob \cup {"none"}]
        /\ \A p \in Poller : asyncPollPc'[p] = "idle"
    BY <1>5 DEF AsyncRestart
  <2> QED BY <1>0, <2>1, <2>2, <2>3 DEF AsyncTypes
<1>6. ASSUME NEW p \in Poller, NEW j \in AsyncJob, PollAsync(p, j) PROVE AsyncTypes'
  <2>1. raced' \in [Poller -> BOOLEAN] /\ pollSaw' \in [Poller -> AsyncAnswer]
    <3>1. [result |-> asyncFile[j].result, done |-> asyncFile[j].done] \in AsyncAnswer
      BY <1>f, Zenon DEF AsyncAnswer
    <3>2. pollSaw' \in [Poller -> AsyncAnswer]
      BY <1>0, <1>6, <3>1 DEF PollAsync, AsyncTypes
    <3>3. raced' = [raced EXCEPT ![p] = FALSE]
      BY <1>6 DEF PollAsync
    <3> QED BY <1>0, <3>2, <3>3 DEF AsyncTypes
  <2>2. /\ UNCHANGED <<asyncStore, asyncFile, worker, asyncLock>>
        /\ asyncPollPc' \in [Poller -> {"idle", "result", "done", "answer"}]
        /\ pollOf' = [pollOf EXCEPT ![p] = j]
        /\ \A q \in Poller \ {p} : asyncPollPc'[q] = asyncPollPc[q]
    BY <1>0, <1>6 DEF PollAsync, AsyncTypes
  <2> QED BY <1>0, <2>1, <2>2 DEF AsyncTypes
<1>7. ASSUME NEW p \in Poller, PollResult(p) \/ PollDone(p) PROVE AsyncTypes'
  <2>1. /\ UNCHANGED <<asyncStore, asyncFile, worker, asyncLock, pollOf, raced>>
        /\ asyncPollPc' \in [Poller -> {"idle", "result", "done", "answer"}]
        /\ pollOf[p] \in AsyncJob
        /\ \A q \in Poller \ {p} : asyncPollPc'[q] = asyncPollPc[q]
    BY <1>0, <1>7 DEF PollResult, PollDone, AsyncTypes
  <2>2. pollSaw[p] \in AsyncAnswer
    BY <1>0 DEF AsyncTypes
  <2>3. PICK a \in AsyncAnswer : pollSaw' = [pollSaw EXCEPT ![p] = a]
    <3>1. ReadResult(p) \in AsyncAnswer
      BY <1>f, <2>1, Zenon DEF ReadResult, AsyncAnswer
    <3>2. [pollSaw[p] EXCEPT !.done = @ \/ asyncStore[pollOf[p]].done] \in AsyncAnswer
      BY <2>2 DEF AsyncAnswer
    <3> QED BY <1>7, <3>1, <3>2 DEF PollResult, PollDone
  <2> QED BY <1>0, <2>1, <2>3 DEF AsyncTypes
<1>8. ASSUME NEW p \in Poller, PollReturns(p) PROVE AsyncTypes'
  BY <1>0, <1>8 DEF PollReturns, AsyncTypes
<1>9. CASE UNCHANGED asyncVars
  BY <1>0, <1>9 DEF asyncVars, asyncPolls, AsyncTypes
<1> QED BY <1>1, <1>2, <1>3, <1>4, <1>5, <1>6, <1>7, <1>8, <1>9 DEF AsyncNext, WorkerStep

\* Every step of the store keeps its entries right.
LEMMA EntryInvStep ==
  ASSUME AsyncInv, [AsyncNext]_asyncVars
  PROVE  EntryInv' /\ FinishedSurvives'
<1>0. AsyncTypes /\ EntryInv /\ FinishedSurvives
  BY DEF AsyncInv
<1>1. ASSUME NEW j \in AsyncJob, StartAsync(j) PROVE EntryInv' /\ FinishedSurvives'
  <2>1. asyncStore' = [asyncStore EXCEPT ![j] = NewJob] /\ ~NewJob.done
    BY <1>1, EntryStep DEF NewJob, NoJob
  <2> QED BY <1>0, <1>1, <2>1 DEF StartAsync, WorkerAt, AsyncTypes, EntryInv, FinishedSurvives
<1>2. ASSUME NEW j \in AsyncJob, PersistNew(j) PROVE EntryInv' /\ FinishedSurvives'
  <2>1. /\ \A k \in AsyncJob \ {j} : asyncFile'[k] = asyncFile[k]
        /\ asyncFile'[j].done = asyncStore[j].done /\ asyncFile'[j].result = asyncStore[j].result
    BY <1>0, <1>2, EntryStep DEF AsyncTypes
  <2> QED BY <1>0, <1>2, <2>1 DEF PersistNew, WorkerAt, AsyncTypes, EntryInv, FinishedSurvives
<1>3. ASSUME NEW j \in AsyncJob, WriteResult(j) PROVE EntryInv' /\ FinishedSurvives'
  <2>1. /\ \A k \in AsyncJob \ {j} : asyncStore'[k] = asyncStore[k]
        /\ asyncStore'[j].result
    BY <1>0, <1>3, EntryStep DEF AsyncTypes
  <2>2. \A k \in AsyncJob : worker[k] \notin {"done", "persistDone"}
    BY <1>0, <1>3, AsyncAssumption DEF WriteResult, EntryInv
  <2> QED BY <1>0, <1>3, <2>1, <2>2 DEF WriteResult, WorkerAt, AsyncTypes, EntryInv, FinishedSurvives
<1>4. ASSUME NEW j \in AsyncJob, WriteDone(j) PROVE EntryInv' /\ FinishedSurvives'
  <2>1. /\ \A k \in AsyncJob \ {j} : asyncStore'[k] = asyncStore[k]
        /\ asyncStore'[j].result = asyncStore[j].result /\ asyncStore'[j].done
    BY <1>0, <1>4, EntryStep DEF AsyncTypes
  <2> QED BY <1>0, <1>4, <2>1 DEF WriteDone, WorkerAt, AsyncTypes, EntryInv, FinishedSurvives
<1>5. ASSUME NEW j \in AsyncJob, PersistDone(j) PROVE EntryInv' /\ FinishedSurvives'
  <2>1. \A k \in AsyncJob \ {j} : worker[k] \notin {"done", "persistDone"}
    BY <1>0, <1>5 DEF PersistDone, EntryInv
  <2> QED BY <1>0, <1>5, <2>1 DEF PersistDone, FileAtEnd, FreeStore, WorkerAt, AsyncTypes, EntryInv,
             FinishedSurvives
<1>6. ASSUME NEW j \in AsyncJob, GrowOld(j) PROVE EntryInv' /\ FinishedSurvives'
  <2>1. \A k \in AsyncJob : /\ asyncStore'[k].done = asyncStore[k].done
                            /\ asyncStore'[k].result = asyncStore[k].result
                            /\ asyncStore'[k].in = asyncStore[k].in
    BY <1>0, <1>6, EntryStep DEF AsyncTypes
  <2> QED BY <1>0, <1>6, <2>1 DEF GrowOld, EntryInv, FinishedSurvives
<1>7. CASE CleanupJobs
  <2>1. ~NoJob.done /\ ~NoJob.result /\ ~NoJob.in
    BY DEF NoJob
  <2>2. \A k \in AsyncJob : worker[k] \notin {"done", "persistDone"}
    BY <1>0, <1>7, AsyncAssumption DEF CleanupJobs, EntryInv
  <2>3. /\ \A k \in AsyncJob : asyncStore'[k] \in {NoJob, asyncStore[k]} /\ asyncFile'[k] \in {NoJob, asyncFile[k]}
        /\ \A k \in AsyncJob \ lost' : asyncStore'[k] = asyncStore[k] /\ asyncFile'[k] = asyncFile[k]
        /\ lost \subseteq lost' /\ worker' = worker
    BY <1>7 DEF CleanupJobs
  <2> QED BY <1>0, <2>1, <2>2, <2>3 DEF EntryInv, FinishedSurvives
<1>8. CASE AsyncRestart
  <2>1. ~NoJob.done /\ ~NoJob.result /\ ~NoJob.in
    BY DEF NoJob
  <2>2. /\ \A k \in AsyncJob : asyncStore'[k] = NoJob /\ worker'[k] \in {"unused", "gone"}
        /\ asyncFile' = asyncFile /\ lost \subseteq lost'
        /\ \A k \in AsyncJob \ lost' : worker'[k] = "gone" => worker[k] = "gone"
    BY <1>0, <1>8 DEF AsyncRestart, AsyncTypes
  <2> QED BY <1>0, <2>1, <2>2 DEF EntryInv, FinishedSurvives
<1>9. CASE UNCHANGED <<asyncStore, asyncFile, worker, asyncLock, lost>>
  BY <1>0, <1>9 DEF EntryInv, FinishedSurvives
<1> QED BY <1>1, <1>2, <1>3, <1>4, <1>5, <1>6, <1>7, <1>8, <1>9
        DEF AsyncNext, WorkerStep, PollAsync, PollResult, PollDone, PollReturns, asyncVars

\* Every step keeps a poll from missing a result without having been raced.
LEMMA PollInvStep ==
  ASSUME AsyncInv, [AsyncNext]_asyncVars
  PROVE  PollInv'
<1>0. AsyncTypes /\ EntryInv /\ PollInv
  BY DEF AsyncInv
<1>1. ASSUME NEW j \in AsyncJob, StartAsync(j) \/ WriteDone(j) \/ GrowOld(j) PROVE PollInv'
  <2>1. \A k \in AsyncJob : asyncStore'[k].result => asyncStore[k].result
    BY <1>0, <1>1, EntryStep DEF NewJob, NoJob, AsyncTypes
  <2>2. UNCHANGED <<asyncPollPc, pollOf, pollSaw, raced>>
    BY <1>1 DEF StartAsync, WriteDone, GrowOld, asyncPolls
  <2> QED BY <1>0, <2>1, <2>2 DEF PollInv, AsyncTypes
<1>2. ASSUME NEW j \in AsyncJob, WriteResult(j) PROVE PollInv'
  <2>1. \A k \in AsyncJob \ {j} : asyncStore'[k] = asyncStore[k]
    BY <1>0, <1>2, EntryStep DEF AsyncTypes
  <2>2. UNCHANGED <<asyncPollPc, pollOf, pollSaw>>
    BY <1>2 DEF WriteResult
  <2>3. \A p \in Poller : raced'[p] <=> raced[p] \/ (pollOf[p] = j /\ asyncPollPc[p] = "done")
    BY <1>2 DEF WriteResult
  <2> QED BY <1>0, <2>1, <2>2, <2>3 DEF PollInv, AsyncTypes
<1>3. CASE CleanupJobs
  <2> DEFINE old == {j \in AsyncJob : asyncStore[j].old}
             cut == {p \in Poller : asyncPollPc[p] \in {"result", "done"} /\ pollOf[p] \in old}
  <2>1. /\ \A j \in AsyncJob : asyncStore'[j] = IF j \in old THEN NoJob ELSE asyncStore[j]
        /\ \A p \in Poller : /\ pollSaw'[p] = IF p \in cut THEN Detached(p) ELSE pollSaw[p]
                             /\ asyncPollPc'[p] = IF p \in cut THEN "answer" ELSE asyncPollPc[p]
        /\ UNCHANGED <<pollOf, raced>>
    BY <1>3 DEF CleanupJobs
  <2> SUFFICES ASSUME NEW p \in Poller
               PROVE  /\ asyncPollPc'[p] = "done" =>
                           ~pollSaw'[p].done /\ (pollSaw'[p].result \/ raced'[p] \/ ~asyncStore'[pollOf'[p]].result)
                      /\ asyncPollPc'[p] = "answer" /\ pollSaw'[p].done => pollSaw'[p].result \/ raced'[p]
    BY DEF PollInv
  <2>2. CASE p \notin cut
    <3>1. asyncPollPc'[p] = asyncPollPc[p] /\ pollSaw'[p] = pollSaw[p]
      BY <2>1, <2>2
    <3>2. asyncPollPc[p] = "done" => pollOf[p] \in AsyncJob /\ pollOf[p] \notin old
      BY <1>0, <2>2 DEF AsyncTypes
    <3>3. asyncPollPc[p] = "done" => asyncStore'[pollOf'[p]] = asyncStore[pollOf[p]]
      BY <2>1, <3>2
    <3> QED BY <1>0, <2>1, <3>1, <3>3 DEF PollInv
  <2>3. CASE p \in cut
    <3>1. asyncPollPc'[p] = "answer" /\ pollSaw'[p] = Detached(p) /\ pollOf[p] \in AsyncJob
      BY <2>1, <2>3
    <3>2. Detached(p).done = asyncStore[pollOf[p]].done
      BY DEF Detached
    <3>3. asyncStore[pollOf[p]].done => asyncStore[pollOf[p]].result
      BY <1>0, <3>1 DEF EntryInv
    <3>4. CASE asyncPollPc[p] = "result"
      <4>1. Detached(p).result = asyncStore[pollOf[p]].result
        BY <3>4 DEF Detached
      <4> QED BY <3>1, <3>2, <3>3, <4>1
    <3>5. CASE asyncPollPc[p] = "done"
      <4>1. Detached(p).result = pollSaw[p].result
        BY <3>5 DEF Detached
      <4>2. pollSaw[p].result \/ raced[p] \/ ~asyncStore[pollOf[p]].result
        BY <1>0, <3>5 DEF PollInv
      <4> QED BY <2>1, <3>1, <3>2, <3>3, <4>1, <4>2
    <3> QED BY <2>3, <3>4, <3>5
  <2> QED BY <2>2, <2>3
<1>4. CASE AsyncRestart
  BY <1>4 DEF AsyncRestart, PollInv
<1>5. ASSUME NEW p \in Poller, NEW j \in AsyncJob, PollAsync(p, j) PROVE PollInv'
  <2>1. /\ \A q \in Poller \ {p} : /\ asyncPollPc'[q] = asyncPollPc[q] /\ pollSaw'[q] = pollSaw[q]
                                   /\ pollOf'[q] = pollOf[q] /\ raced'[q] = raced[q]
        /\ asyncStore' = asyncStore
    BY <1>0, <1>5 DEF PollAsync, AsyncTypes
  <2>2. \/ asyncPollPc'[p] = "result"
        \/ asyncPollPc'[p] = "answer" /\ pollSaw'[p] = [result |-> asyncFile[j].result, done |-> asyncFile[j].done]
    BY <1>0, <1>5 DEF PollAsync, AsyncTypes
  <2>3. asyncFile[j].done => asyncFile[j].result
    BY <1>0 DEF EntryInv
  <2>4. asyncPollPc'[p] = "answer" => (pollSaw'[p].done => pollSaw'[p].result)
    BY <2>2, <2>3
  <2>5. asyncPollPc'[p] # "done"
    BY <2>2
  <2> QED BY <1>0, <2>1, <2>4, <2>5 DEF PollInv
<1>6. ASSUME NEW p \in Poller, PollResult(p) PROVE PollInv'
  <2>1. /\ \A q \in Poller \ {p} : asyncPollPc'[q] = asyncPollPc[q] /\ pollSaw'[q] = pollSaw[q]
        /\ asyncPollPc'[p] = "done" /\ pollSaw'[p] = ReadResult(p)
        /\ UNCHANGED <<asyncStore, pollOf, raced>>
    BY <1>0, <1>6 DEF PollResult, AsyncTypes
  <2>2. ~ReadResult(p).done /\ ReadResult(p).result = asyncStore[pollOf[p]].result
    BY DEF ReadResult
  <2>3. ~pollSaw'[p].done /\ (pollSaw'[p].result \/ ~asyncStore'[pollOf'[p]].result)
    BY <2>1, <2>2
  <2> QED BY <1>0, <2>1, <2>3 DEF PollInv
<1>7. ASSUME NEW p \in Poller, PollDone(p) PROVE PollInv'
  <2>1. /\ \A q \in Poller \ {p} : asyncPollPc'[q] = asyncPollPc[q] /\ pollSaw'[q] = pollSaw[q]
        /\ asyncPollPc[p] = "done" /\ asyncPollPc'[p] = "answer"
        /\ pollSaw'[p] = [pollSaw[p] EXCEPT !.done = pollSaw[p].done \/ asyncStore[pollOf[p]].done]
        /\ UNCHANGED <<asyncStore, pollOf, raced>>
    BY <1>0, <1>7 DEF PollDone, AsyncTypes
  <2>2. pollSaw[p] \in AsyncAnswer /\ pollOf[p] \in AsyncJob
    BY <1>0, <2>1 DEF AsyncTypes
  <2>3. pollSaw'[p].result = pollSaw[p].result /\ (pollSaw'[p].done <=> pollSaw[p].done \/ asyncStore[pollOf[p]].done)
    BY <2>1, <2>2 DEF AsyncAnswer
  <2>4. pollSaw'[p].done => pollSaw'[p].result \/ raced'[p]
    BY <1>0, <2>1, <2>2, <2>3 DEF PollInv, EntryInv
  <2> QED BY <1>0, <2>1, <2>4 DEF PollInv
<1>8. ASSUME NEW p \in Poller, PollReturns(p) PROVE PollInv'
  BY <1>0, <1>8 DEF PollReturns, PollInv, AsyncTypes
<1>9. CASE UNCHANGED <<asyncStore, asyncPolls>>
  BY <1>0, <1>9 DEF PollInv, asyncPolls
<1> QED BY <1>1, <1>2, <1>3, <1>4, <1>5, <1>6, <1>7, <1>8, <1>9
        DEF AsyncNext, WorkerStep, PersistNew, PersistDone, asyncVars

\* The entries and the polls are right, and finished jobs survive, on their own
\* and with their types.
LEMMA AsyncStep ==
  ASSUME AsyncInv, [AsyncNext]_asyncVars
  PROVE  AsyncInv'
BY AsyncTypesStep, EntryInvStep, PollInvStep DEF AsyncInv

\* The invariant of the connectors' jobs says what WorkKept asks of them.
LEMMA AsyncHolds == AsyncInv => AsyncTypeOK /\ DoneHasResult /\ FinishedSurvives
<1> SUFFICES ASSUME AsyncInv PROVE AsyncTypeOK /\ DoneHasResult
  BY DEF AsyncInv
<1>1. AsyncTypeOK
  BY Zenon DEF AsyncInv, AsyncTypes, AsyncEntry, AsyncTypeOK
<1>2. DoneHasResult
  BY DEF AsyncInv, PollInv, DoneHasResult
<1> QED BY <1>1, <1>2

-----------------------------------------------------------------------------
(* The trainer's jobs.                                                     *)

JobStatuses == {"absent", "created", "staging", "running", "preempted", "failed"}

TrainTypes ==
  /\ jobStatus \in [Job -> JobStatuses]
  /\ recreated \subseteq Job /\ savesOverlap \subseteq Job
  /\ jobCancel \in [Job -> Run \cup {"none"}]
  /\ run \in [Run -> {"unused", "on", "cancelled", "gone"}]
  /\ runJob \in [Run -> Job \cup {"none"}]
  /\ saver \in [Saver -> {"idle", "save", "write", "rename", "stuck"}]
  /\ saveOf \in [Saver -> [job : Job \cup {"none"}, status : JobStatuses \cup {"none"}]]
  /\ starting \in [TrainCall -> Run \cup {"none"}]
  /\ metaTmp \in [Job -> JobStatuses \cup {"none"}] /\ metaFile \in [Job -> JobStatuses \cup {"none"}]

\* The goroutines and the saves are those of known jobs; a run saves at its end.
KnownInv ==
  /\ \A r \in Run : run[r] # "unused" => runJob[r] \in Job /\ jobStatus[runJob[r]] # "absent"
  /\ \A r \in Run : run[r] # "gone" => saver[r] = "idle"
  /\ \A p \in Saver : Saving(p) => saveOf[p].job \in Job /\ jobStatus[saveOf[p].job] # "absent"

\* While nobody has locked the trainer for good: the one save of a job carries
\* the status the job has.
SaveInv ==
  \A j \in Job \ savesOverlap : \A p \in Saver : Saving(p) /\ saveOf[p].job = j =>
    /\ \A q \in Saver : Saving(q) /\ saveOf[q].job = j => q = p
    /\ saver[p] \in {"write", "rename"} => saveOf[p].status = jobStatus[j]
    /\ saver[p] = "rename" => metaTmp[j] = jobStatus[j]

TrainInv ==
  /\ TrainTypes /\ trainStuck \in BOOLEAN /\ KnownInv
  /\ ~trainStuck => SaveInv /\ OneRunPerJob /\ MetaFollowsJob

\* The trainer starts without jobs.
LEMMA TrainInitInv == TrainInit => TrainInv
<1> SUFFICES ASSUME TrainInit PROVE TrainInv
  OBVIOUS
<1>1. TrainTypes
  BY DEF TrainInit, TrainTypes, JobStatuses
<1>2. KnownInv
  BY DEF TrainInit, KnownInv, Saving, Saver
<1>3. SaveInv
  BY DEF TrainInit, SaveInv, Saving
<1>4. OneRunPerJob
  <2>1. \A j \in Job : /\ jobStatus[j] # "running"
                       /\ {r \in Run : runJob[r] = j /\ run[r] \in {"on", "cancelled"}} = {}
    BY DEF TrainInit
  <2> QED BY <2>1, Zenon DEF OneRunPerJob
<1>5. MetaFollowsJob
  BY DEF TrainInit, MetaFollowsJob
<1>6. trainStuck \in BOOLEAN
  BY Zenon DEF TrainInit
<1> QED BY <1>1, <1>2, <1>3, <1>4, <1>5, <1>6 DEF TrainInv

\* Whatever a goroutine that begins a save was, it was not saving.
LEMMA BeginSaveStep ==
  ASSUME TrainTypes, SaveInv, NEW p \in Saver, NEW j \in Job, saver[p] = "idle", BeginSave(p, j),
         NEW st, jobStatus' = [jobStatus EXCEPT ![j] = st], UNCHANGED metaTmp
  PROVE  SaveInv'
<1>1. /\ \A q \in Saver \ {p} : saver'[q] = saver[q] /\ saveOf'[q] = saveOf[q]
      /\ saver'[p] = "save" /\ saveOf'[p].job = j /\ savesOverlap \subseteq savesOverlap'
  BY DEF BeginSave, TrainTypes
<1>2. j \notin savesOverlap' => \A q \in Saver \ {p} : Saving(q) => saveOf[q].job # j
  BY DEF BeginSave
<1>3. \A k \in Job \ {j} : jobStatus'[k] = jobStatus[k]
  BY DEF TrainTypes
<1> SUFFICES ASSUME NEW k \in Job \ savesOverlap', NEW q \in Saver, Saving(q)', saveOf'[q].job = k
             PROVE  /\ \A o \in Saver : Saving(o)' /\ saveOf'[o].job = k => o = q
                    /\ saver'[q] \in {"write", "rename"} => saveOf'[q].status = jobStatus'[k]
                    /\ saver'[q] = "rename" => metaTmp'[k] = jobStatus'[k]
  BY DEF SaveInv, Saving
<1>4. CASE k = j
  <2>1. \A o \in Saver : Saving(o)' /\ saveOf'[o].job = k => o = p
    BY <1>1, <1>2, <1>4 DEF Saving
  <2> QED BY <1>1, <2>1 DEF Saving
<1>5. CASE k # j
  <2>1. \A o \in Saver : saveOf'[o].job = k => o # p
    BY <1>1, <1>5
  <2>2. \A o \in Saver : Saving(o)' /\ saveOf'[o].job = k => Saving(o) /\ saveOf[o].job = k
    BY <1>1, <2>1 DEF Saving
  <2>3. k \in Job \ savesOverlap /\ jobStatus'[k] = jobStatus[k] /\ q # p
    BY <1>1, <1>3, <1>5, <2>1
  <2> QED BY <1>1, <2>2, <2>3 DEF SaveInv, Saving
<1> QED BY <1>4, <1>5

\* What was saving of another job goes on, and this job has a save to come.
LEMMA BeginSaveMeta ==
  ASSUME TrainTypes, MetaFollowsJob, ~trainStuck, NEW p \in Saver, NEW j \in Job, saver[p] = "idle",
         BeginSave(p, j), NEW st, jobStatus' = [jobStatus EXCEPT ![j] = st], UNCHANGED metaFile
  PROVE  MetaFollowsJob'
<1>1. /\ \A q \in Saver \ {p} : saver'[q] = saver[q] /\ saveOf'[q] = saveOf[q]
      /\ saver'[p] = "save" /\ saveOf'[p].job = j /\ savesOverlap \subseteq savesOverlap'
  BY DEF BeginSave, TrainTypes
<1>2. \A q \in Saver : Saving(q) => q # p /\ Saving(q)' /\ saveOf'[q] = saveOf[q]
  BY <1>1 DEF Saving
<1>3. Saving(p)'
  BY <1>1 DEF Saving
<1>4. \A k \in Job \ {j} : jobStatus'[k] = jobStatus[k]
  BY DEF TrainTypes
<1> SUFFICES ASSUME NEW k \in Job \ savesOverlap'
             PROVE  \/ \E q \in Saver : Saving(q)' /\ saveOf'[q].job = k
                    \/ metaFile'[k] = IF jobStatus'[k] = "absent" THEN "none" ELSE jobStatus'[k]
  BY DEF MetaFollowsJob, Saving
<1>5. CASE k = j
  BY <1>1, <1>3, <1>5
<1>6. CASE k # j
  <2>1. k \in Job \ savesOverlap /\ jobStatus'[k] = jobStatus[k]
    BY <1>1, <1>4, <1>6
  <2>2. \/ \E q \in Saver : Saving(q) /\ saveOf[q].job = k
        \/ metaFile[k] = IF jobStatus[k] = "absent" THEN "none" ELSE jobStatus[k]
    BY <2>1 DEF MetaFollowsJob
  <2>3. CASE \E q \in Saver : Saving(q) /\ saveOf[q].job = k
    BY <1>2, <2>3
  <2> QED BY <2>1, <2>2, <2>3
<1> QED BY <1>5, <1>6

\* Every step keeps the types, and a trainer that is locked for good stays so.
LEMMA TrainTypesStep ==
  ASSUME TrainInv, [TrainNext]_trainVars
  PROVE  TrainTypes' /\ trainStuck' \in BOOLEAN /\ (trainStuck => trainStuck')
<1>0. TrainTypes /\ KnownInv
  BY DEF TrainInv
<1>b. trainStuck' \in {trainStuck, TRUE}
  BY DEF TrainNext, CreateJob, StartJob, CommandSticks, ContextEnds, RunEnds, SaveRead, SaveWrite,
         SaveRename, trainVars
<1>c. trainStuck' \in BOOLEAN /\ (trainStuck => trainStuck')
  BY <1>b, Zenon DEF TrainInv
<1> USE DEF trainRuns, trainSaves, trainFiles
<1>1. ASSUME NEW c \in TrainCall, NEW j \in Job, CreateJob(c, j) PROVE TrainTypes'
  BY <1>0, <1>1 DEF CreateJob, BeginSave, TrainTypes, JobStatuses, Saver
<1>2. ASSUME NEW c \in TrainCall, NEW j \in Job, NEW r \in Run, StartJob(c, j, r) PROVE TrainTypes'
  BY <1>0, <1>2 DEF StartJob, BeginSave, TrainTypes, JobStatuses, Saver
<1>3. ASSUME NEW c \in TrainCall, NEW j \in Job,
             NEW st \in {"staging", "running", "failed", jobStatus[j]}, CommandSticks(c, j, st)
      PROVE  TrainTypes'
  <2>1. st \in JobStatuses
    BY <1>0 DEF TrainTypes, JobStatuses
  <2>2. UNCHANGED <<recreated, runJob, saveOf, savesOverlap, starting, metaTmp, metaFile>>
        /\ jobStatus' = [jobStatus EXCEPT ![j] = st] /\ saver' = [saver EXCEPT ![c] = "stuck"]
    BY <1>3 DEF CommandSticks
  <2>3. run' \in [Run -> {"unused", "on", "cancelled", "gone"}] /\ jobCancel' \in [Job -> Run \cup {"none"}]
    BY <1>0, <1>3 DEF CommandSticks, TrainTypes
  <2> QED BY <1>0, <2>1, <2>2, <2>3 DEF TrainTypes
<1>4. ASSUME NEW r \in Run, ContextEnds(r) PROVE TrainTypes'
  BY <1>0, <1>4 DEF ContextEnds, TrainTypes
<1>5. ASSUME NEW r \in Run, RunEnds(r) PROVE TrainTypes'
  <2>1. PICK j \in Job : j = runJob[r]
    BY <1>0, <1>5 DEF RunEnds, KnownInv
  <2>2. PICK st \in JobStatuses : st = EndStatus(j)
    BY DEF EndStatus, JobStatuses
  <2> QED BY <1>0, <1>5, <2>1, <2>2 DEF RunEnds, BeginSave, TrainTypes, JobStatuses, Saver
<1>6. ASSUME NEW p \in Saver, SaveRead(p) PROVE TrainTypes'
  <2>1. PICK j \in Job : j = saveOf[p].job
    BY <1>0, <1>6 DEF SaveRead, KnownInv, Saving
  <2>2. jobStatus[j] \in JobStatuses
    BY <1>0 DEF TrainTypes
  <2> QED BY <1>0, <1>6, <2>1, <2>2 DEF SaveRead, TrainTypes
<1>7. ASSUME NEW p \in Saver, SaveWrite(p) PROVE TrainTypes'
  <2>1. saveOf[p].status \in JobStatuses \cup {"none"}
    BY <1>0 DEF TrainTypes
  <2> QED BY <1>0, <1>7, <2>1 DEF SaveWrite, TrainTypes
<1>8. ASSUME NEW p \in Saver, SaveRename(p) PROVE TrainTypes'
  <2>1. PICK j \in Job : j = saveOf[p].job
    BY <1>0, <1>8 DEF SaveRename, KnownInv, Saving
  <2>2. metaFile' \in [Job -> JobStatuses \cup {"none"}] /\ metaTmp' \in [Job -> JobStatuses \cup {"none"}]
    BY <1>0, <1>8, <2>1 DEF SaveRename, TrainTypes
  <2>3. starting' \in [TrainCall -> Run \cup {"none"}]
    BY <1>0, <1>8 DEF SaveRename, EndSave, TrainTypes
  <2> QED BY <1>0, <1>8, <2>2, <2>3 DEF SaveRename, EndSave, TrainTypes
<1>9. ASSUME UNCHANGED trainVars PROVE TrainTypes'
  <2>1. /\ jobStatus' = jobStatus /\ recreated' = recreated /\ savesOverlap' = savesOverlap
        /\ jobCancel' = jobCancel /\ run' = run /\ runJob' = runJob /\ saver' = saver
        /\ saveOf' = saveOf /\ starting' = starting /\ metaTmp' = metaTmp /\ metaFile' = metaFile
    BY <1>9, Zenon DEF trainVars
  <2> QED BY <1>0, <2>1 DEF TrainTypes
<1> QED BY <1>c, <1>1, <1>2, <1>3, <1>4, <1>5, <1>6, <1>7, <1>8, <1>9 DEF TrainNext

\* Every step keeps what is known of runs and saves.
LEMMA KnownStep ==
  ASSUME TrainInv, [TrainNext]_trainVars
  PROVE  KnownInv'
<1>0. TrainTypes /\ KnownInv
  BY DEF TrainInv
<1> USE DEF trainRuns, trainSaves, trainFiles
<1>1. ASSUME NEW p \in Saver, NEW j \in Job, NEW st, BeginSave(p, j), st # "absent",
             jobStatus' = [jobStatus EXCEPT ![j] = st]
      PROVE  \A q \in Saver : Saving(q)' => saveOf'[q].job \in Job /\ jobStatus'[saveOf'[q].job] # "absent"
  <2>1. saveOf'[p].job = j /\ \A q \in Saver \ {p} : saver'[q] = saver[q] /\ saveOf'[q] = saveOf[q]
    BY <1>0, <1>1 DEF BeginSave, TrainTypes
  <2>2. jobStatus'[j] # "absent" /\ \A k \in Job : jobStatus[k] # "absent" => jobStatus'[k] # "absent"
    BY <1>0, <1>1 DEF TrainTypes
  <2> QED BY <1>0, <2>1, <2>2 DEF KnownInv, Saving
<1>2. ASSUME NEW c \in TrainCall, NEW j \in Job, CreateJob(c, j) PROVE KnownInv'
  <2>1. BeginSave(c, j) /\ c \in Saver /\ "created" # "absent" /\ jobStatus' = [jobStatus EXCEPT ![j] = "created"]
    BY <1>2 DEF CreateJob, Saver
  <2>2. \A r \in Run : saver'[r] = saver[r]
    BY <1>0, <2>1, TrainAssumption DEF BeginSave, TrainTypes, Saver
  <2>3. UNCHANGED <<run, runJob>> /\ \A k \in Job : jobStatus[k] # "absent" => jobStatus'[k] # "absent"
    BY <1>0, <1>2 DEF CreateJob, TrainTypes
  <2> QED BY <1>0, <1>1, <2>1, <2>2, <2>3 DEF KnownInv
<1>3. ASSUME NEW c \in TrainCall, NEW j \in Job, NEW r \in Run, StartJob(c, j, r) PROVE KnownInv'
  <2>1. BeginSave(c, j) /\ c \in Saver /\ "running" # "absent" /\ jobStatus' = [jobStatus EXCEPT ![j] = "running"]
    BY <1>3 DEF StartJob, Saver
  <2>2. \A s \in Run : saver'[s] = saver[s]
    BY <1>0, <2>1, TrainAssumption DEF BeginSave, TrainTypes, Saver
  <2>3. /\ \A s \in Run \ {r} : run'[s] = run[s] /\ runJob'[s] = runJob[s]
        /\ run[r] = "unused" /\ runJob'[r] = j
        /\ jobStatus'[j] # "absent" /\ \A k \in Job : jobStatus[k] # "absent" => jobStatus'[k] # "absent"
    BY <1>0, <1>3 DEF StartJob, TrainTypes
  <2>4. \A s \in Run : run'[s] # "unused" => runJob'[s] \in Job /\ jobStatus'[runJob'[s]] # "absent"
    BY <1>0, <2>3 DEF KnownInv
  <2>5. \A s \in Run : run'[s] # "gone" => saver'[s] = "idle"
    BY <1>0, <2>2, <2>3 DEF KnownInv
  <2>6. \A q \in Saver : Saving(q)' => saveOf'[q].job \in Job /\ jobStatus'[saveOf'[q].job] # "absent"
    BY <1>1, <2>1
  <2> QED BY <2>4, <2>5, <2>6 DEF KnownInv
<1>4. ASSUME NEW c \in TrainCall, NEW j \in Job,
             NEW st \in {"staging", "running", "failed", jobStatus[j]}, CommandSticks(c, j, st)
      PROVE  KnownInv'
  <2>1. /\ UNCHANGED <<runJob, saveOf>> /\ saver' = [saver EXCEPT ![c] = "stuck"]
        /\ jobStatus' = [jobStatus EXCEPT ![j] = st] /\ jobStatus[j] # "absent" /\ st # "absent"
    BY <1>4 DEF CommandSticks
  <2>2. \A r \in Run : (run'[r] = "unused" <=> run[r] = "unused") /\ (run'[r] = "gone" <=> run[r] = "gone")
    BY <1>0, <1>4 DEF CommandSticks, TrainTypes
  <2>3. \A r \in Run : saver'[r] = saver[r]
    BY <1>0, <2>1, TrainAssumption DEF TrainTypes, Saver
  <2>4. \A q \in Saver : Saving(q)' => Saving(q)
    BY <1>0, <2>1 DEF Saving, TrainTypes
  <2>5. \A k \in Job : jobStatus[k] # "absent" => jobStatus'[k] # "absent"
    BY <1>0, <2>1 DEF TrainTypes
  <2> QED BY <1>0, <2>1, <2>2, <2>3, <2>4, <2>5 DEF KnownInv
<1>5. ASSUME NEW r \in Run, ContextEnds(r) PROVE KnownInv'
  BY <1>0, <1>5 DEF ContextEnds, KnownInv, Saving, TrainTypes
<1>6. ASSUME NEW r \in Run, RunEnds(r) PROVE KnownInv'
  <2>1. PICK j \in Job : j = runJob[r] /\ jobStatus[j] # "absent"
    BY <1>0, <1>6 DEF RunEnds, KnownInv
  <2>2. BeginSave(r, j) /\ r \in Saver /\ "preempted" # "absent" /\ jobStatus' = [jobStatus EXCEPT ![j] = "preempted"]
    BY <1>6, <2>1 DEF RunEnds, EndStatus, Saver
  <2>3. /\ \A s \in Run \ {r} : run'[s] = run[s] /\ saver'[s] = saver[s]
        /\ run'[r] = "gone" /\ run[r] # "unused" /\ runJob' = runJob
    BY <1>0, <1>6, <2>2 DEF RunEnds, BeginSave, TrainTypes, Saver
  <2>4. \A k \in Job : jobStatus[k] # "absent" => jobStatus'[k] # "absent"
    BY <1>0, <2>2 DEF TrainTypes
  <2>5. \A s \in Run : run'[s] # "unused" => runJob'[s] \in Job /\ jobStatus'[runJob'[s]] # "absent"
    BY <1>0, <2>3, <2>4 DEF KnownInv
  <2>6. \A s \in Run : run'[s] # "gone" => saver'[s] = "idle"
    BY <1>0, <2>3 DEF KnownInv
  <2>7. \A q \in Saver : Saving(q)' => saveOf'[q].job \in Job /\ jobStatus'[saveOf'[q].job] # "absent"
    BY <1>1, <2>2
  <2> QED BY <2>5, <2>6, <2>7 DEF KnownInv
<1>7. ASSUME NEW p \in Saver, SaveRead(p) \/ SaveWrite(p) \/ SaveRename(p) PROVE KnownInv'
  <2>1. /\ UNCHANGED <<jobStatus, run, runJob>>
        /\ Saving(p) /\ \A q \in Saver \ {p} : saver'[q] = saver[q] /\ saveOf'[q] = saveOf[q]
        /\ saveOf'[p].job = saveOf[p].job
    BY <1>0, <1>7 DEF SaveRead, SaveWrite, SaveRename, EndSave, Saving, TrainTypes
  <2>2. p \in Run => run[p] = "gone"
    BY <1>0, <2>1 DEF KnownInv, Saving
  <2> QED BY <1>0, <2>1, <2>2 DEF KnownInv, Saving, Saver
<1>8. CASE UNCHANGED trainVars
  BY <1>0, <1>8 DEF trainVars, KnownInv, Saving
<1> QED BY <1>2, <1>3, <1>4, <1>5, <1>6, <1>7, <1>8 DEF TrainNext

\* Every step but the command that sticks keeps the saves, and what the files
\* follow, right.
LEMMA SaveStep ==
  ASSUME TrainInv, [TrainNext]_trainVars, ~trainStuck'
  PROVE  SaveInv' /\ MetaFollowsJob'
<1>0. TrainTypes /\ KnownInv /\ ~trainStuck /\ SaveInv /\ MetaFollowsJob
  BY TrainTypesStep DEF TrainInv
<1> USE DEF trainRuns, trainSaves, trainFiles
<1>1. ASSUME NEW c \in TrainCall, NEW j \in Job, CreateJob(c, j) PROVE SaveInv' /\ MetaFollowsJob'
  <2>1. /\ BeginSave(c, j) /\ c \in Saver /\ saver[c] = "idle" /\ UNCHANGED <<metaTmp, metaFile>>
        /\ jobStatus' = [jobStatus EXCEPT ![j] = "created"]
    BY <1>1 DEF CreateJob, Saver
  <2> QED BY <1>0, <2>1, BeginSaveStep, BeginSaveMeta
<1>2. ASSUME NEW c \in TrainCall, NEW j \in Job, NEW r \in Run, StartJob(c, j, r)
      PROVE  SaveInv' /\ MetaFollowsJob'
  <2>1. /\ BeginSave(c, j) /\ c \in Saver /\ saver[c] = "idle" /\ UNCHANGED <<metaTmp, metaFile>>
        /\ jobStatus' = [jobStatus EXCEPT ![j] = "running"]
    BY <1>2 DEF StartJob, Saver
  <2> QED BY <1>0, <2>1, BeginSaveStep, BeginSaveMeta
<1>3. ASSUME NEW r \in Run, RunEnds(r) PROVE SaveInv' /\ MetaFollowsJob'
  <2>1. PICK j \in Job : j = runJob[r]
    BY <1>0, <1>3 DEF RunEnds, KnownInv
  <2>2. PICK st : st = EndStatus(j)
    OBVIOUS
  <2>3. /\ BeginSave(r, j) /\ r \in Saver /\ saver[r] = "idle" /\ UNCHANGED <<metaTmp, metaFile>>
        /\ jobStatus' = [jobStatus EXCEPT ![j] = st]
    BY <1>0, <1>3, <2>1, <2>2 DEF RunEnds, KnownInv, Saver
  <2> QED BY <1>0, <2>3, BeginSaveStep, BeginSaveMeta
<1>4. ASSUME NEW p \in Saver, SaveRead(p) \/ SaveWrite(p) \/ SaveRename(p)
      PROVE  SaveInv' /\ MetaFollowsJob'
  <2>1. PICK j \in Job : j = saveOf[p].job /\ jobStatus[j] # "absent" /\ Saving(p)
    BY <1>0, <1>4 DEF SaveRead, SaveWrite, SaveRename, KnownInv, Saving
  <2>2. /\ UNCHANGED <<jobStatus, savesOverlap>>
        /\ \A q \in Saver \ {p} : saver'[q] = saver[q] /\ saveOf'[q] = saveOf[q]
        /\ saveOf'[p].job = j
        /\ \A k \in Job \ {j} : metaTmp'[k] = metaTmp[k] /\ metaFile'[k] = metaFile[k]
    BY <1>0, <1>4, <2>1 DEF SaveRead, SaveWrite, SaveRename, EndSave, TrainTypes
  <2>3. \A q \in Saver : Saving(q)' => Saving(q)
    BY <2>1, <2>2 DEF Saving
  <2>4. j \notin savesOverlap => \A q \in Saver \ {p} : ~(Saving(q) /\ saveOf[q].job = j)
    BY <1>0, <2>1 DEF SaveInv
  <2>5. \A q \in Saver : saveOf'[q].job = saveOf[q].job
    BY <2>1, <2>2
  <2>6. j \notin savesOverlap /\ Saving(p)' =>
          /\ saver'[p] \in {"write", "rename"} => saveOf'[p].status = jobStatus[j]
          /\ saver'[p] = "rename" => metaTmp'[j] = jobStatus[j]
    <3>1. CASE SaveRead(p)
      BY <1>0, <2>1, <3>1 DEF SaveRead, TrainTypes
    <3>2. CASE SaveWrite(p)
      BY <1>0, <2>1, <3>2 DEF SaveWrite, SaveInv, TrainTypes
    <3>3. CASE SaveRename(p)
      BY <1>0, <3>3 DEF SaveRename, EndSave, Saving, TrainTypes
    <3> QED BY <1>4, <3>1, <3>2, <3>3
  <2>7. SaveInv'
    <3> SUFFICES ASSUME NEW k \in Job \ savesOverlap, NEW q \in Saver, Saving(q)', saveOf'[q].job = k
                 PROVE  /\ \A o \in Saver : Saving(o)' /\ saveOf'[o].job = k => o = q
                        /\ saver'[q] \in {"write", "rename"} => saveOf'[q].status = jobStatus[k]
                        /\ saver'[q] = "rename" => metaTmp'[k] = jobStatus[k]
      BY <2>2 DEF SaveInv, Saving
    <3>1. Saving(q) /\ saveOf[q].job = k /\ \A o \in Saver : Saving(o)' /\ saveOf'[o].job = k => o = q
      BY <1>0, <2>3, <2>5 DEF SaveInv
    <3>2. CASE q = p
      BY <2>1, <2>6, <3>1, <3>2
    <3>3. CASE q # p
      <4>1. k # j
        BY <2>4, <3>1, <3>3
      <4> QED BY <1>0, <2>2, <3>1, <3>3, <4>1 DEF SaveInv
    <3> QED BY <3>2, <3>3
  <2>8. MetaFollowsJob'
    <3> SUFFICES ASSUME NEW k \in Job \ savesOverlap
                 PROVE  \/ \E q \in Saver : Saving(q)' /\ saveOf'[q].job = k
                        \/ metaFile'[k] = IF jobStatus[k] = "absent" THEN "none" ELSE jobStatus[k]
      BY <2>2 DEF MetaFollowsJob, Saving
    <3>1. \/ \E q \in Saver : Saving(q) /\ saveOf[q].job = k
          \/ metaFile[k] = IF jobStatus[k] = "absent" THEN "none" ELSE jobStatus[k]
      BY <1>0 DEF MetaFollowsJob
    <3>2. CASE k # j
      <4>1. \A q \in Saver : Saving(q) /\ saveOf[q].job = k => Saving(q)' /\ saveOf'[q].job = k
        BY <2>1, <2>2, <3>2 DEF Saving
      <4> QED BY <2>2, <3>1, <3>2, <4>1
    <3>3. CASE k = j
      <4>1. CASE SaveRead(p) \/ SaveWrite(p)
        <5>1. Saving(p)'
          BY <1>0, <4>1 DEF SaveRead, SaveWrite, Saving, TrainTypes
        <5> QED BY <2>2, <3>3, <5>1
      <4>2. CASE SaveRename(p)
        <5>1. metaTmp[j] = jobStatus[j] /\ jobStatus[j] \in JobStatuses
          BY <1>0, <2>1, <3>3, <4>2 DEF SaveRename, SaveInv, TrainTypes
        <5>2. metaTmp[j] # "none"
          BY <5>1 DEF JobStatuses
        <5>3. metaFile'[j] = metaTmp[j]
          BY <1>0, <2>1, <4>2, <5>2 DEF SaveRename, TrainTypes
        <5> QED BY <2>1, <3>3, <5>1, <5>3
      <4> QED BY <1>4, <4>1, <4>2
    <3> QED BY <3>2, <3>3
  <2> QED BY <2>7, <2>8
<1>5. CASE UNCHANGED <<jobStatus, trainSaves, trainFiles>>
  <2>1. \A q \in Saver : Saving(q)' <=> Saving(q)
    BY <1>5 DEF Saving
  <2>2. SaveInv'
    BY <1>0, <1>5, <2>1 DEF SaveInv
  <2>3. MetaFollowsJob'
    BY <1>0, <1>5, <2>1 DEF MetaFollowsJob
  <2> QED BY <2>2, <2>3
<1>6. ASSUME NEW r \in Run, ContextEnds(r) PROVE UNCHANGED <<jobStatus, trainSaves, trainFiles>>
  BY <1>6 DEF ContextEnds
<1>7. ASSUME NEW c \in TrainCall, NEW j \in Job, NEW st, CommandSticks(c, j, st) PROVE FALSE
  BY <1>7 DEF CommandSticks
<1>8. CASE UNCHANGED trainVars
  <2>1. UNCHANGED <<jobStatus, trainSaves, trainFiles>>
    BY <1>8, Zenon DEF trainVars
  <2> QED BY <1>5, <2>1
<1> QED BY <1>1, <1>2, <1>3, <1>4, <1>5, <1>6, <1>7, <1>8 DEF TrainNext

\* Every step but the command that sticks keeps one run for each job.
LEMMA OneRunStep ==
  ASSUME TrainInv, [TrainNext]_trainVars, ~trainStuck'
  PROVE  OneRunPerJob'
<1> DEFINE On(j) == {r \in Run : runJob[r] = j /\ run[r] \in {"on", "cancelled"}}
<1>0. TrainTypes /\ KnownInv /\ ~trainStuck /\ OneRunPerJob
  BY TrainTypesStep DEF TrainInv
<1>a. \A j \in Job \ recreated : IF jobStatus[j] = "running" THEN On(j) = {jobCancel[j]} ELSE On(j) = {}
  BY <1>0 DEF OneRunPerJob
<1>b. ASSUME recreated \subseteq recreated',
             \A j \in Job \ recreated' : IF jobStatus'[j] = "running" THEN On(j)' = {jobCancel'[j]} ELSE On(j)' = {}
      PROVE  OneRunPerJob'
  BY <1>b DEF OneRunPerJob
<1> USE DEF trainRuns, trainSaves, trainFiles
<1>1. ASSUME NEW c \in TrainCall, NEW j \in Job, CreateJob(c, j) PROVE OneRunPerJob'
  <2>1. /\ recreated \subseteq recreated' /\ (jobStatus[j] = "absent" \/ j \in recreated')
        /\ jobStatus' = [jobStatus EXCEPT ![j] = "created"] /\ UNCHANGED <<run, runJob, jobCancel>>
    BY <1>1 DEF CreateJob
  <2>2. \A k : On(k)' = On(k)
    BY <2>1
  <2>3. jobStatus'[j] = "created" /\ \A k \in Job \ {j} : jobStatus'[k] = jobStatus[k]
    BY <1>0, <2>1 DEF TrainTypes
  <2>4. j \notin recreated' => On(j) = {}
    <3>1. j \notin recreated' => j \in Job \ recreated /\ jobStatus[j] = "absent"
      BY <2>1
    <3>2. jobStatus[j] = "absent" => jobStatus[j] # "running"
      OBVIOUS
    <3> QED BY <1>a, <3>1, <3>2
  <2>5. \A k \in Job \ recreated' : IF jobStatus'[k] = "running" THEN On(k)' = {jobCancel'[k]} ELSE On(k)' = {}
    <3> SUFFICES ASSUME NEW k \in Job \ recreated'
                 PROVE  IF jobStatus'[k] = "running" THEN On(k)' = {jobCancel'[k]} ELSE On(k)' = {}
      OBVIOUS
    <3> HIDE DEF On
    <3>1. CASE k = j
      BY <2>2, <2>3, <2>4, <3>1
    <3>2. CASE k # j
      <4>1. jobStatus'[k] = jobStatus[k] /\ jobCancel'[k] = jobCancel[k] /\ k \in Job \ recreated
        BY <2>1, <2>3, <3>2
      <4> QED BY <1>a, <2>2, <4>1
    <3> QED BY <3>1, <3>2
  <2> QED BY <1>b, <2>1, <2>5
<1>2. ASSUME NEW c \in TrainCall, NEW j \in Job, NEW r \in Run, StartJob(c, j, r) PROVE OneRunPerJob'
  <2>1. /\ recreated' = recreated /\ jobStatus[j] # "running" /\ run[r] = "unused"
        /\ jobStatus' = [jobStatus EXCEPT ![j] = "running"] /\ jobCancel' = [jobCancel EXCEPT ![j] = r]
        /\ run' = [run EXCEPT ![r] = "on"] /\ runJob' = [runJob EXCEPT ![r] = j]
    BY <1>2 DEF StartJob, MayStart
  <2>2. \A k \in Job \ {j} : On(k)' = On(k)
    BY <1>0, <2>1 DEF TrainTypes
  <2>3. On(j)' = On(j) \cup {r}
    BY <1>0, <2>1 DEF TrainTypes
  <2> QED BY <1>0, <1>a, <1>b, <2>1, <2>2, <2>3 DEF TrainTypes
<1>3. ASSUME NEW r \in Run, ContextEnds(r) PROVE OneRunPerJob'
  <2>1. \A k \in Job : On(k)' = On(k)
    BY <1>0, <1>3 DEF ContextEnds, TrainTypes
  <2> QED BY <1>a, <1>b, <1>3, <2>1 DEF ContextEnds
<1>4. ASSUME NEW r \in Run, RunEnds(r) PROVE OneRunPerJob'
  <2>1. PICK j \in Job : j = runJob[r] /\ jobStatus[j] # "absent"
    BY <1>0, <1>4 DEF RunEnds, KnownInv
  <2>2. /\ recreated' = recreated /\ run[r] = "cancelled" /\ runJob' = runJob
        /\ jobStatus' = [jobStatus EXCEPT ![j] = "preempted"] /\ jobCancel' = [jobCancel EXCEPT ![j] = "none"]
        /\ run' = [run EXCEPT ![r] = "gone"]
    BY <1>4, <2>1 DEF RunEnds, EndStatus
  <2>3. \A k \in Job \ {j} : On(k)' = On(k)
    BY <1>0, <2>1, <2>2 DEF TrainTypes
  <2>4. On(j)' = On(j) \ {r} /\ r \in On(j)
    BY <1>0, <2>1, <2>2 DEF TrainTypes
  <2>5. j \notin recreated => On(j)' = {}
    BY <1>a, <2>4
  <2> QED BY <1>0, <1>a, <1>b, <2>2, <2>3, <2>5 DEF TrainTypes
<1>5. CASE UNCHANGED <<jobStatus, recreated, run, runJob, jobCancel>>
  BY <1>a, <1>b, <1>5
<1>6. ASSUME NEW p \in Saver, SaveRead(p) \/ SaveWrite(p) \/ SaveRename(p)
      PROVE  UNCHANGED <<jobStatus, recreated, run, runJob, jobCancel>>
  BY <1>6 DEF SaveRead, SaveWrite, SaveRename
<1>7. ASSUME NEW c \in TrainCall, NEW j \in Job, NEW st, CommandSticks(c, j, st) PROVE FALSE
  BY <1>7 DEF CommandSticks
<1>8. CASE UNCHANGED trainVars
  <2>1. UNCHANGED <<jobStatus, recreated, run, runJob, jobCancel>>
    BY <1>8, Zenon DEF trainVars
  <2> QED BY <1>5, <2>1
<1> QED BY <1>1, <1>2, <1>3, <1>4, <1>5, <1>6, <1>7, <1>8 DEF TrainNext

\* The invariant is kept, and says all that is claimed of the trainer.
LEMMA TrainStep ==
  ASSUME TrainInv, [TrainNext]_trainVars
  PROVE  TrainInv'
BY TrainTypesStep, KnownStep, SaveStep, OneRunStep DEF TrainInv

\* The invariant of the trainer's jobs says what WorkKept asks of them.
LEMMA TrainHolds == TrainInv => TrainTypeOK /\ OneRunPerJob /\ MetaFollowsJob
<1> SUFFICES ASSUME TrainInv PROVE TrainTypeOK /\ OneRunPerJob /\ MetaFollowsJob
  OBVIOUS
<1>1. TrainTypes /\ trainStuck \in BOOLEAN
  BY Zenon DEF TrainInv
<1>2. TrainTypeOK
  BY <1>1, Zenon DEF TrainTypes, TrainTypeOK, JobStatuses
<1>3. trainStuck => OneRunPerJob /\ MetaFollowsJob
  BY DEF OneRunPerJob, MetaFollowsJob
<1> QED BY <1>2, <1>3 DEF TrainInv

-----------------------------------------------------------------------------
(* The agent's jobs.                                                       *)

AgTypes ==
  /\ agQueue \in Seq(AgentJob) /\ Len(agQueue) <= AgentQueueSize
  /\ agReply \in [AgentJob -> {"none", "open", "accepted", "busy"}]
  /\ agWorker \in [AgentWorker -> {"waits", "took", "runs"}]
  /\ agJobOf \in [AgentWorker -> AgentJob \cup {NoAgentJob}]
  /\ agEnded \subseteq AgentJob
  /\ agServer \in {"serving", "closing", "closed"}
  /\ agRun \in {"listens", "waits", "stopped"}
  /\ agSignal \in {"none", "shutting", "done"}
  /\ agLoop \in {"ticks", "posts", "ended"}

JobQueued(j) == \E k \in 1..Len(agQueue) : agQueue[k] = j
JobInHand(j) == \E w \in AgentWorker : agJobOf[w] = j
AgRunning == {w \in AgentWorker : agWorker[w] = "runs"}

\* No job is twice in the queue or with two workers, nor in two of the three
\* places; and what is somewhere was accepted.
PlacesInv ==
  /\ \A k, l \in 1..Len(agQueue) : agQueue[k] = agQueue[l] => k = l
  /\ \A w \in AgentWorker : agJobOf[w] = NoAgentJob <=> agWorker[w] = "waits"
  /\ \A v, w \in AgentWorker : agJobOf[v] = agJobOf[w] /\ agJobOf[v] # NoAgentJob => v = w
  /\ \A j \in AgentJob :
       /\ ~(JobQueued(j) /\ JobInHand(j)) /\ ~(JobQueued(j) /\ j \in agEnded)
       /\ ~(JobInHand(j) /\ j \in agEnded)
       /\ agReply[j] = "accepted" <=> JobQueued(j) \/ JobInHand(j) \/ j \in agEnded

AgInv ==
  /\ AgTypes /\ agKnown \in BOOLEAN /\ agGroup = Cardinality(AgRunning)
  /\ PlacesInv /\ StopWaitsForRuns

\* The agent starts without jobs.
LEMMA AgentInitInv == AgentInit => AgInv
<1> SUFFICES ASSUME AgentInit PROVE AgInv
  OBVIOUS
<1>1. AgTypes
  BY AgentAssumption DEF AgentInit, AgTypes
<1>2. agKnown \in BOOLEAN
  BY Zenon DEF AgentInit
<1>3. AgRunning = {}
  BY DEF AgentInit, AgRunning
<1>4. agGroup = Cardinality(AgRunning)
  BY <1>3, FS_EmptySet DEF AgentInit
<1>5. PlacesInv
  <2>1. \A j \in AgentJob : ~JobQueued(j) /\ ~JobInHand(j)
    BY AgentAssumption DEF AgentInit, JobQueued, JobInHand, NoAgentJob
  <2> QED BY <2>1 DEF AgentInit, PlacesInv
<1>6. StopWaitsForRuns
  BY DEF AgentInit, StopWaitsForRuns
<1> QED BY <1>1, <1>2, <1>4, <1>5, <1>6 DEF AgInv

\* Every step keeps the types.
LEMMA AgTypesStep ==
  ASSUME AgInv, [AgentNext]_agVars
  PROVE  AgTypes'
<1>0. AgTypes /\ AgentQueueSize \in Nat \ {0}
  BY AgentAssumption DEF AgInv
<1> USE DEF agJobs, agStop, agReg
<1>1. ASSUME NEW j \in AgentJob, HandleJob(j) PROVE AgTypes'
  <2>1. PICK q : q = Append(agQueue, j)
    OBVIOUS
  <2>2. q \in Seq(AgentJob) /\ Len(q) = Len(agQueue) + 1 /\ Len(agQueue) \in Nat
    BY <1>0, <2>1 DEF AgTypes
  <2>3. (agQueue' = q /\ Len(agQueue) < AgentQueueSize) \/ agQueue' = agQueue
    BY <1>1, <2>1 DEF HandleJob, Enqueued, RoomInQueue
  <2>4. agQueue' \in Seq(AgentJob) /\ Len(agQueue') <= AgentQueueSize
    BY <1>0, <2>2, <2>3 DEF AgTypes
  <2>5. agReply' \in [AgentJob -> {"none", "open", "accepted", "busy"}]
    BY <1>0, <1>1 DEF HandleJob, Answered, AgTypes
  <2> QED BY <1>0, <1>1, <2>4, <2>5 DEF HandleJob, AgTypes
<1>2. ASSUME NEW w \in AgentWorker, TakeJob(w) PROVE AgTypes'
  <2>1. PICK q : q = Tail(agQueue)
    OBVIOUS
  <2>2. q \in Seq(AgentJob) /\ Len(q) = Len(agQueue) - 1 /\ Len(agQueue) \in Nat
    BY <1>0, <1>2, <2>1 DEF AgTypes, TakeJob
  <2>3. Len(q) <= AgentQueueSize
    BY <1>0, <2>2 DEF AgTypes
  <2>4. PICK j \in AgentJob : j = Head(agQueue)
    BY <1>0, <1>2 DEF AgTypes, TakeJob
  <2>5. /\ agQueue' = q /\ agJobOf' = [agJobOf EXCEPT ![w] = j]
        /\ agWorker' = [agWorker EXCEPT ![w] = "took"]
        /\ UNCHANGED <<agReply, agEnded, agStop, agLoop>>
    BY <1>2, <2>1, <2>4 DEF TakeJob
  <2> QED BY <1>0, <2>2, <2>3, <2>5 DEF AgTypes
<1>3. ASSUME NEW w \in AgentWorker, AddToGroup(w) PROVE AgTypes'
  BY <1>0, <1>3 DEF AddToGroup, AgTypes
<1>4. ASSUME NEW w \in AgentWorker, RunEnded(w) PROVE AgTypes'
  <2>1. agJobOf[w] \in AgentJob
    BY <1>0, <1>4 DEF RunEnded, AgInv, PlacesInv, AgTypes
  <2> QED BY <1>0, <1>4, <2>1 DEF RunEnded, AgTypes
<1>5. ASSUME NEW j \in AgentJob, SubmitJobs(j) PROVE AgTypes'
  BY <1>0, <1>5 DEF SubmitJobs, AgTypes
<1>6. ASSUME UNCHANGED agJobs,
             agServer' \in {agServer, "closing", "closed"}, agRun' \in {agRun, "waits", "stopped"},
             agSignal' \in {agSignal, "shutting", "done"}, agLoop' \in {agLoop, "ticks", "posts", "ended"}
      PROVE  AgTypes'
  BY <1>0, <1>6 DEF AgTypes
<1>7. ASSUME RegisterTick \/ RegisterAnswered \/ RegistrationEnds PROVE AgTypes'
  <2>1. UNCHANGED <<agJobs, agStop>> /\ agLoop' \in {"ticks", "posts", "ended"}
    BY <1>7 DEF RegisterTick, RegisterAnswered, RegistrationEnds
  <2> QED BY <1>6, <2>1
<1>8. ASSUME SignalStop \/ ShutdownReturned \/ ListenReturns \/ RunReturns PROVE AgTypes'
  BY <1>6, <1>8 DEF SignalStop, ShutdownReturned, ListenReturns, RunReturns
<1>9. ASSUME UNCHANGED agVars PROVE AgTypes'
  <2>1. UNCHANGED <<agJobs, agStop, agLoop>>
    BY <1>9, Zenon DEF agVars
  <2> QED BY <1>6, <2>1
<1> QED BY <1>1, <1>2, <1>3, <1>4, <1>5, <1>7, <1>8, <1>9 DEF AgentNext

\* Every step keeps the counter of the group, and a process ends with no run.
LEMMA GroupStep ==
  ASSUME AgInv, [AgentNext]_agVars
  PROVE  agGroup' = Cardinality(AgRunning') /\ StopWaitsForRuns'
<1>0. /\ AgTypes /\ agGroup = Cardinality(AgRunning) /\ StopWaitsForRuns
      /\ IsFiniteSet(AgentWorker) /\ AgRunning \subseteq AgentWorker
  BY AgentAssumption DEF AgInv, AgRunning
<1>f. IsFiniteSet(AgRunning) /\ Cardinality(AgRunning) \in Nat
  BY <1>0, FS_Subset, FS_CardinalityType
<1> USE DEF agJobs, agStop, agReg
<1>1. CASE UNCHANGED <<agWorker, agGroup, agRun>>
  BY <1>0, <1>1 DEF AgRunning, StopWaitsForRuns, Up
<1>2. ASSUME NEW w \in AgentWorker, TakeJob(w)
      PROVE  agGroup' = Cardinality(AgRunning') /\ StopWaitsForRuns'
  <2>1. AgRunning' = AgRunning
    BY <1>0, <1>2 DEF TakeJob, AgRunning, AgTypes
  <2> QED BY <1>0, <1>2, <2>1 DEF TakeJob, StopWaitsForRuns, Up
<1>3. ASSUME NEW w \in AgentWorker, AddToGroup(w)
      PROVE  agGroup' = Cardinality(AgRunning') /\ StopWaitsForRuns'
  <2>1. AgRunning' = AgRunning \cup {w} /\ w \notin AgRunning
    BY <1>0, <1>3 DEF AddToGroup, AgRunning, AgTypes
  <2>2. Cardinality(AgRunning') = Cardinality(AgRunning) + 1
    BY <1>f, <2>1, FS_AddElement
  <2> QED BY <1>0, <1>3, <2>2 DEF AddToGroup, StopWaitsForRuns, Up
<1>4. ASSUME NEW w \in AgentWorker, RunEnded(w)
      PROVE  agGroup' = Cardinality(AgRunning') /\ StopWaitsForRuns'
  <2>1. AgRunning' = AgRunning \ {w} /\ w \in AgRunning
    BY <1>0, <1>4 DEF RunEnded, AgRunning, AgTypes
  <2>2. Cardinality(AgRunning') = Cardinality(AgRunning) - 1
    BY <1>f, <2>1, FS_RemoveElement
  <2> QED BY <1>0, <1>4, <2>2 DEF RunEnded, StopWaitsForRuns, Up
<1>5. ASSUME ListenReturns \/ RunReturns
      PROVE  agGroup' = Cardinality(AgRunning') /\ StopWaitsForRuns'
  <2>1. AgRunning' = AgRunning /\ agGroup' = agGroup /\ agWorker' = agWorker
    BY <1>5 DEF ListenReturns, RunReturns, AgRunning
  <2>2. ListenReturns => Up'
    BY DEF ListenReturns, Up
  <2>3. RunReturns => AgRunning = {}
    BY <1>0, <1>f, FS_EmptySet DEF RunReturns, GroupIsEmpty
  <2>4. ~Up' => \A w \in AgentWorker : agWorker'[w] # "runs"
    BY <1>5, <2>1, <2>2, <2>3 DEF AgRunning
  <2> QED BY <1>0, <2>1, <2>4 DEF StopWaitsForRuns
<1>6. ASSUME NEW j \in AgentJob, SubmitJobs(j) \/ HandleJob(j) PROVE UNCHANGED <<agWorker, agGroup, agRun>>
  BY <1>6 DEF SubmitJobs, HandleJob
<1>7. ASSUME RegisterTick \/ RegisterAnswered \/ RegistrationEnds PROVE UNCHANGED <<agWorker, agGroup, agRun>>
  BY <1>7 DEF RegisterTick, RegisterAnswered, RegistrationEnds
<1>8. ASSUME SignalStop \/ ShutdownReturned PROVE UNCHANGED <<agWorker, agGroup, agRun>>
  BY <1>8 DEF SignalStop, ShutdownReturned
<1>9. ASSUME UNCHANGED agVars PROVE UNCHANGED <<agWorker, agGroup, agRun>>
  BY <1>9, Zenon DEF agVars
<1> QED BY <1>1, <1>2, <1>3, <1>4, <1>5, <1>6, <1>7, <1>8, <1>9 DEF AgentNext

\* Every step keeps a job in one place.
LEMMA PlacesStep ==
  ASSUME AgInv, [AgentNext]_agVars
  PROVE  PlacesInv'
<1>0. AgTypes /\ PlacesInv /\ NoAgentJob \notin AgentJob
  BY AgentAssumption DEF AgInv, NoAgentJob
<1> USE DEF agJobs, agStop, agReg
<1>1. CASE UNCHANGED <<agQueue, agReply, agWorker, agJobOf, agEnded>>
  BY <1>0, <1>1 DEF PlacesInv, JobQueued, JobInHand
<1>2. ASSUME NEW j \in AgentJob, SubmitJobs(j) PROVE PlacesInv'
  <2>1. /\ UNCHANGED <<agQueue, agWorker, agJobOf, agEnded>>
        /\ \A i \in AgentJob : agReply'[i] = "accepted" <=> agReply[i] = "accepted"
    BY <1>0, <1>2 DEF SubmitJobs, AgTypes
  <2> QED BY <1>0, <2>1 DEF PlacesInv, JobQueued, JobInHand
<1>3. ASSUME NEW j \in AgentJob, HandleJob(j), ~RoomInQueue PROVE PlacesInv'
  <2>1. /\ UNCHANGED <<agQueue, agWorker, agJobOf, agEnded>>
        /\ \A i \in AgentJob : agReply'[i] = "accepted" <=> agReply[i] = "accepted"
    BY <1>0, <1>3 DEF HandleJob, Enqueued, Answered, AgTypes
  <2> QED BY <1>0, <2>1 DEF PlacesInv, JobQueued, JobInHand
<1>4. ASSUME NEW j \in AgentJob, HandleJob(j), RoomInQueue PROVE PlacesInv'
  <2>1. PICK q : q = Append(agQueue, j)
    OBVIOUS
  <2>2. PICK n \in Nat : n = Len(agQueue)
    BY <1>0 DEF AgTypes
  <2>3. /\ Len(q) = n + 1 /\ q[n + 1] = j
        /\ \A k \in 1..n : q[k] = agQueue[k]
    BY <1>0, <2>1, <2>2 DEF AgTypes
  <2>4. /\ agQueue' = q /\ UNCHANGED <<agWorker, agJobOf, agEnded>>
        /\ agReply[j] = "open" /\ agReply'[j] = "accepted"
        /\ \A i \in AgentJob \ {j} : agReply'[i] = agReply[i]
    BY <1>0, <1>4, <2>1 DEF HandleJob, Enqueued, Answered, AgTypes
  <2>5. ~JobQueued(j) /\ ~JobInHand(j) /\ j \notin agEnded
    BY <1>0, <2>4 DEF PlacesInv
  <2>6. \A k \in 1..Len(q) : k = n + 1 \/ k \in 1..n
    BY <2>2, <2>3
  <2>7. \A i : JobQueued(i)' <=> JobQueued(i) \/ i = j
    <3>1. \A k \in 1..n : k \in 1..Len(q)
      BY <2>2, <2>3
    <3>2. n + 1 \in 1..Len(q)
      BY <2>2, <2>3
    <3> QED BY <2>2, <2>3, <2>4, <2>6, <3>1, <3>2 DEF JobQueued
  <2>8. \A k, l \in 1..Len(q) : q[k] = q[l] => k = l
    <3>1. \A k \in 1..n : q[k] # j
      BY <2>2, <2>3, <2>5 DEF JobQueued
    <3>2. \A k, l \in 1..n : q[k] = q[l] => k = l
      BY <1>0, <2>2, <2>3 DEF PlacesInv
    <3> QED BY <2>3, <2>6, <3>1, <3>2
  <2>9. \A i : JobInHand(i)' <=> JobInHand(i)
    BY <2>4 DEF JobInHand
  <2> QED BY <1>0, <2>4, <2>5, <2>7, <2>8, <2>9 DEF PlacesInv
<1>5. ASSUME NEW w \in AgentWorker, TakeJob(w) PROVE PlacesInv'
  <2>1. PICK q : q = Tail(agQueue)
    OBVIOUS
  <2>2. PICK n \in Nat : n = Len(agQueue)
    BY <1>0 DEF AgTypes
  <2>3. PICK j \in AgentJob : j = agQueue[1] /\ j = Head(agQueue) /\ n # 0
    BY <1>0, <1>5, <2>2 DEF TakeJob, AgTypes
  <2>4. Len(q) = n - 1 /\ \A k \in 1..Len(q) : q[k] = agQueue[k + 1]
    BY <1>0, <1>5, <2>1, <2>2 DEF TakeJob, AgTypes
  <2>5. /\ agQueue' = q /\ agWorker[w] = "waits" /\ agJobOf'[w] = j /\ agWorker'[w] = "took"
        /\ \A v \in AgentWorker \ {w} : agJobOf'[v] = agJobOf[v] /\ agWorker'[v] = agWorker[v]
        /\ UNCHANGED <<agReply, agEnded>>
    BY <1>0, <1>5, <2>1, <2>3 DEF TakeJob, AgTypes
  <2>6. \A k \in 1..n : k = 1 \/ (k - 1 \in 1..Len(q) /\ q[k - 1] = agQueue[k])
    <3> SUFFICES ASSUME NEW k \in 1..n, k # 1 PROVE k - 1 \in 1..Len(q) /\ q[k - 1] = agQueue[k]
      OBVIOUS
    <3>1. k - 1 \in 1..Len(q) /\ (k - 1) + 1 = k
      BY <2>2, <2>4
    <3> QED BY <2>4, <3>1
  <2>7. \A k \in 1..Len(q) : k + 1 \in 1..n /\ k + 1 # 1
    BY <2>2, <2>4
  <2>8. JobQueued(j) /\ ~JobInHand(j) /\ j \notin agEnded
    <3>1. 1 \in 1..n
      BY <2>2, <2>3
    <3>2. JobQueued(j)
      BY <2>2, <2>3, <3>1 DEF JobQueued
    <3> QED BY <1>0, <3>2 DEF PlacesInv
  <2>9. \A i : JobQueued(i)' <=> JobQueued(i) /\ i # j
    <3>1. \A k \in 1..n : agQueue[k] = j => k = 1
      BY <1>0, <2>2, <2>3 DEF PlacesInv
    <3>2. \A k \in 1..Len(q) : q[k] # j
      BY <2>4, <2>7, <3>1
    <3>3. \A i : JobQueued(i)' => JobQueued(i) /\ i # j
      BY <2>2, <2>4, <2>5, <2>7, <3>2 DEF JobQueued
    <3>4. \A i : JobQueued(i) /\ i # j => JobQueued(i)'
      BY <2>2, <2>3, <2>5, <2>6 DEF JobQueued
    <3> QED BY <3>3, <3>4
  <2>10. \A k, l \in 1..Len(q) : q[k] = q[l] => k = l
    <3> SUFFICES ASSUME NEW k \in 1..Len(q), NEW l \in 1..Len(q), q[k] = q[l] PROVE k = l
      OBVIOUS
    <3>1. k + 1 = l + 1
      BY <1>0, <2>2, <2>4, <2>7 DEF PlacesInv
    <3> QED BY <3>1
  <2>11. \A i \in AgentJob : JobInHand(i)' <=> JobInHand(i) \/ i = j
    <3>1. agJobOf[w] = NoAgentJob
      BY <1>0, <2>5 DEF PlacesInv
    <3> QED BY <1>0, <2>5, <3>1 DEF JobInHand
  <2>12. \A v \in AgentWorker : agJobOf'[v] = NoAgentJob <=> agWorker'[v] = "waits"
    BY <1>0, <2>3, <2>5 DEF PlacesInv
  <2>13. \A u, v \in AgentWorker : agJobOf'[u] = agJobOf'[v] /\ agJobOf'[u] # NoAgentJob => u = v
    <3>1. \A v \in AgentWorker : agJobOf[v] # j
      BY <2>8 DEF JobInHand
    <3> QED BY <1>0, <2>5, <3>1 DEF PlacesInv
  <2>14. \A i \in AgentJob :
           /\ ~(JobQueued(i)' /\ JobInHand(i)') /\ ~(JobQueued(i)' /\ i \in agEnded')
           /\ ~(JobInHand(i)' /\ i \in agEnded')
           /\ agReply'[i] = "accepted" <=> JobQueued(i)' \/ JobInHand(i)' \/ i \in agEnded'
    BY <1>0, <2>5, <2>8, <2>9, <2>11 DEF PlacesInv
  <2> QED BY <2>5, <2>10, <2>12, <2>13, <2>14 DEF PlacesInv
<1>6. ASSUME NEW w \in AgentWorker, AddToGroup(w) PROVE PlacesInv'
  <2>1. /\ UNCHANGED <<agQueue, agReply, agJobOf, agEnded>>
        /\ \A v \in AgentWorker : agWorker'[v] = "waits" <=> agWorker[v] = "waits"
    BY <1>0, <1>6 DEF AddToGroup, AgTypes
  <2> QED BY <1>0, <2>1 DEF PlacesInv, JobQueued, JobInHand
<1>7. ASSUME NEW w \in AgentWorker, RunEnded(w) PROVE PlacesInv'
  <2>1. PICK j \in AgentJob : j = agJobOf[w]
    BY <1>0, <1>7 DEF RunEnded, PlacesInv, AgTypes
  <2>2. /\ UNCHANGED <<agQueue, agReply>> /\ agEnded' = agEnded \cup {j}
        /\ agJobOf'[w] = NoAgentJob /\ agWorker'[w] = "waits"
        /\ \A v \in AgentWorker \ {w} : agJobOf'[v] = agJobOf[v] /\ agWorker'[v] = agWorker[v]
    BY <1>0, <1>7, <2>1 DEF RunEnded, AgTypes
  <2>3. JobInHand(j)
    BY <2>1 DEF JobInHand
  <2>4. \A i : JobQueued(i)' <=> JobQueued(i)
    BY <2>2 DEF JobQueued
  <2>5. \A i \in AgentJob : JobInHand(i)' <=> JobInHand(i) /\ i # j
    <3>1. \A v \in AgentWorker \ {w} : agJobOf[v] # j
      BY <1>0, <2>1 DEF PlacesInv
    <3> QED BY <1>0, <2>1, <2>2, <3>1 DEF JobInHand
  <2>6. \A v \in AgentWorker : agJobOf'[v] = NoAgentJob <=> agWorker'[v] = "waits"
    BY <1>0, <2>2 DEF PlacesInv
  <2>7. \A u, v \in AgentWorker : agJobOf'[u] = agJobOf'[v] /\ agJobOf'[u] # NoAgentJob => u = v
    BY <1>0, <2>2 DEF PlacesInv
  <2>8. \A i \in AgentJob :
           /\ ~(JobQueued(i)' /\ JobInHand(i)') /\ ~(JobQueued(i)' /\ i \in agEnded')
           /\ ~(JobInHand(i)' /\ i \in agEnded')
           /\ agReply'[i] = "accepted" <=> JobQueued(i)' \/ JobInHand(i)' \/ i \in agEnded'
    BY <1>0, <2>2, <2>3, <2>4, <2>5 DEF PlacesInv
  <2> QED BY <1>0, <2>2, <2>6, <2>7, <2>8 DEF PlacesInv
<1>8. ASSUME \/ RegisterTick \/ RegisterAnswered \/ RegistrationEnds
             \/ SignalStop \/ ShutdownReturned \/ ListenReturns \/ RunReturns
      PROVE  UNCHANGED <<agQueue, agReply, agWorker, agJobOf, agEnded>>
  BY <1>8 DEF RegisterTick, RegisterAnswered, RegistrationEnds, SignalStop, ShutdownReturned,
              ListenReturns, RunReturns
<1>9. ASSUME UNCHANGED agVars PROVE UNCHANGED <<agQueue, agReply, agWorker, agJobOf, agEnded>>
  BY <1>9, Zenon DEF agVars
<1> QED BY <1>1, <1>2, <1>3, <1>4, <1>5, <1>6, <1>7, <1>8, <1>9 DEF AgentNext

\* The invariant is kept, and says all that is claimed of the agent.
LEMMA AgentStep ==
  ASSUME AgInv, [AgentNext]_agVars
  PROVE  AgInv'
<1>1. agKnown' \in BOOLEAN
  <2>1. agKnown \in BOOLEAN
    BY Zenon DEF AgInv
  <2>2. RegisterAnswered => agKnown' \in BOOLEAN
    BY <2>1, Zenon DEF RegisterAnswered
  <2>3. ~RegisterAnswered => agKnown' = agKnown
    BY DEF AgentNext, SubmitJobs, HandleJob, TakeJob, AddToGroup, RunEnded, RegisterTick,
           RegistrationEnds, SignalStop, ShutdownReturned, ListenReturns, RunReturns, agReg, agVars
  <2> QED BY <2>1, <2>2, <2>3, Zenon
<1> QED BY <1>1, AgTypesStep, GroupStep, PlacesStep DEF AgInv

\* A job has one place, since queue, workers and finished jobs do not meet.
LEMMA OnePlaceOfAgent == AgInv => AcceptedInOnePlace
<1> SUFFICES ASSUME AgInv, NEW j \in AgentJob
             PROVE  Cardinality({k \in DOMAIN agQueue : agQueue[k] = j})
                    + Cardinality({w \in AgentWorker : agJobOf[w] = j})
                    + (IF j \in agEnded THEN 1 ELSE 0) = (IF agReply[j] = "accepted" THEN 1 ELSE 0)
  BY DEF AcceptedInOnePlace
<1> DEFINE ks == {k \in DOMAIN agQueue : agQueue[k] = j}
           ws == {w \in AgentWorker : agJobOf[w] = j}
<1>0. PlacesInv /\ DOMAIN agQueue = 1..Len(agQueue) /\ j # NoAgentJob
  BY AgentAssumption DEF AgInv, AgTypes, NoAgentJob
<1>1. (~JobQueued(j) /\ ks = {}) \/ (JobQueued(j) /\ \E k : ks = {k})
  <2>1. CASE JobQueued(j)
    <3>1. PICK k \in 1..Len(agQueue) : agQueue[k] = j
      BY <2>1 DEF JobQueued
    <3>2. ks = {k}
      BY <1>0, <3>1 DEF PlacesInv
    <3> QED BY <2>1, <3>2
  <2>2. CASE ~JobQueued(j)
    BY <1>0, <2>2 DEF JobQueued
  <2> QED BY <2>1, <2>2
<1>2. (~JobInHand(j) /\ ws = {}) \/ (JobInHand(j) /\ \E w : ws = {w})
  <2>1. CASE JobInHand(j)
    <3>1. PICK w \in AgentWorker : agJobOf[w] = j
      BY <2>1 DEF JobInHand
    <3>2. ws = {w}
      BY <1>0, <3>1 DEF PlacesInv
    <3> QED BY <2>1, <3>2
  <2>2. CASE ~JobInHand(j)
    BY <2>2 DEF JobInHand
  <2> QED BY <2>1, <2>2
<1>3. Cardinality(ks) = IF JobQueued(j) THEN 1 ELSE 0
  BY <1>1, FS_EmptySet, FS_Singleton
<1>4. Cardinality(ws) = IF JobInHand(j) THEN 1 ELSE 0
  BY <1>2, FS_EmptySet, FS_Singleton
<1> HIDE DEF ks, ws
<1>5. Cardinality(ks) + Cardinality(ws) + (IF j \in agEnded THEN 1 ELSE 0) =
        (IF agReply[j] = "accepted" THEN 1 ELSE 0)
  BY <1>0, <1>3, <1>4 DEF PlacesInv
<1> QED BY <1>5 DEF ks, ws

\* The invariant of the agent says what WorkKept asks of it.
LEMMA AgentHolds == AgInv => AgentTypeOK /\ AcceptedInOnePlace /\ StopWaitsForRuns
<1> SUFFICES ASSUME AgInv PROVE AgentTypeOK
  BY OnePlaceOfAgent DEF AgInv
<1>0. AgTypes /\ AgentQueueSize \in Nat
  BY AgentAssumption DEF AgInv
<1>1. agQueue \in UNION {[1..k -> AgentJob] : k \in 0..AgentQueueSize}
  <2>1. PICK n \in 0..AgentQueueSize : n = Len(agQueue)
    BY <1>0 DEF AgTypes
  <2>2. agQueue \in [1..n -> AgentJob]
    BY <1>0, <2>1 DEF AgTypes
  <2> QED BY <2>2
<1>2. agGroup = Cardinality({w \in AgentWorker : agWorker[w] = "runs"})
  BY DEF AgInv, AgRunning
<1>3. agKnown \in BOOLEAN
  BY Zenon DEF AgInv
<1> QED BY <1>0, <1>1, <1>2, <1>3, Zenon DEF AgTypes, AgentTypeOK

-----------------------------------------------------------------------------
(* The tasks that are kept and shown.                                      *)

TsEvent == [root : StoreRoot, progress : 1..MaxProgress]
TsState == [dags : [StoreRoot -> Absent..MaxProgress], log : Seq(TsEvent)]
TsAsking == [step : {"found", "set"}, root : StoreRoot, object : 1..MaxObject]

TsTypes ==
  /\ tsHeap \in Seq(0..MaxProgress) /\ Len(tsHeap) <= MaxObject
  /\ tsDags \in [StoreRoot -> 0..Len(tsHeap)]
  /\ tsLog \in Seq(TsEvent)
  /\ tsHolder \in [1..MaxObject -> Updater \cup {Nobody}]
  /\ tsUpdate \in [Updater -> {NoUpdate} \cup TsAsking]
  /\ tsWriter \in [call : {"none", "create", "enable", "load"}, read : TsState]
  /\ tsSaver \in [Saves -> [step : {"idle", "copying", "writing"}, todo : SUBSET StoreRoot, state : TsState]]
  /\ tsShow = NotShowing \/ tsShow \subseteq StoreRoot
  /\ tsConfig \in {"off", "once", "loop"} /\ tsFile \in TsState /\ tsFaults \in 0..MaxFault

\* Who waits for m.mu has its room, who saves has only roots with a DAG to copy,
\* and who has set a progress has an event to log.
RoomInv ==
  /\ tsWriter.call = "create" => Len(tsHeap) + 1 <= MaxObject
  /\ tsWriter.call = "load" => Len(tsHeap) + Cardinality(StoreRoot) <= MaxObject
  /\ \A s \in Saves : tsSaver[s].step = "copying" => \A r \in tsSaver[s].todo : tsDags[r] # 0
  /\ \A g \in Updater :
       /\ tsUpdate[g].step # "idle" => tsUpdate[g].object <= Len(tsHeap)
       /\ tsUpdate[g].step = "set" => tsHeap[tsUpdate[g].object] # 0

\* An event is in the log, or the log has been cut.
Logged(e, log) == e \in Range(log) \/ Len(log) >= LogKeep
EventOf(r, n) == [root |-> r, progress |-> n]
Covers(shown, log) == \A r \in StoreRoot : shown[r] > 0 => Logged(EventOf(r, shown[r]), log)

\* What has been copied is logged already; and so is what may be copied: the
\* progress of every DAG nobody has locked.
LogInv ==
  /\ Covers(tsFile.dags, tsFile.log) /\ Covers(tsWriter.read.dags, tsWriter.read.log)
  /\ \A s \in Saves :
       /\ tsSaver[s].step = "writing" => Covers(tsSaver[s].state.dags, tsSaver[s].state.log)
       /\ tsSaver[s].step = "copying" => Covers(tsSaver[s].state.dags, tsLog)
  /\ \A r \in StoreRoot :
       tsDags[r] # 0 /\ tsHolder[tsDags[r]] = Nobody /\ tsHeap[tsDags[r]] > 0 =>
         Logged(EventOf(r, tsHeap[tsDags[r]]), tsLog)

\* A DAG object is of one root, and who updates it logs that one.
OwnerInv ==
  /\ \A r, q \in StoreRoot : tsDags[r] = tsDags[q] /\ tsDags[r] # 0 => r = q
  /\ \A g \in Updater : \A r \in StoreRoot :
       tsUpdate[g].step # "idle" /\ tsDags[r] = tsUpdate[g].object => r = tsUpdate[g].root

TsInv == TsTypes /\ tsDone \in BOOLEAN /\ RoomInv /\ LogInv /\ OwnerInv

\* The empty state, and what starts without a DAG.
LEMMA NoStateIsState == NoState \in TsState /\ NoState.dags = [r \in StoreRoot |-> Absent]
                        /\ Covers(NoState.dags, NoState.log)
<1>1. <<>> \in Seq(TsEvent) /\ Absent \in Absent..MaxProgress
  BY TaskStoreAssumption DEF Absent
<1>2. NoState.dags = [r \in StoreRoot |-> Absent] /\ NoState.log = <<>>
  BY DEF NoState
<1>3. NoState \in TsState
  BY <1>1, <1>2 DEF NoState, TsState
<1>4. Covers(NoState.dags, NoState.log)
  BY <1>2 DEF Covers, Absent
<1> QED BY <1>2, <1>3, <1>4

\* What a process starts with.
TsFresh ==
  /\ tsHeap = TaskStoreStart.heap /\ tsDags = TaskStoreStart.dags /\ tsLog = <<>>
  /\ tsHolder = TaskStoreStart.holder /\ tsUpdate = TaskStoreStart.update
  /\ tsWriter = NoWriter /\ tsSaver = TaskStoreStart.saver /\ tsShow = NotShowing /\ tsConfig = "off"
  /\ tsFile \in TsState /\ Covers(tsFile.dags, tsFile.log) /\ tsFaults \in 0..MaxFault

\* A process starts right, whatever the file holds that was right.
LEMMA TsStart == TsFresh => TsTypes /\ RoomInv /\ LogInv /\ OwnerInv
<1> SUFFICES ASSUME TsFresh PROVE TsTypes /\ RoomInv /\ LogInv /\ OwnerInv
  OBVIOUS
<1> USE DEF TsFresh
<1>0. /\ MaxObject \in Nat \ {0} /\ MaxProgress \in Nat \ {0} /\ MaxFault \in Nat
      /\ NoState \in TsState /\ Covers(NoState.dags, NoState.log)
  BY TaskStoreAssumption, NoStateIsState
<1>1. /\ tsHeap = <<>> /\ tsDags = [r \in StoreRoot |-> 0] /\ tsHolder = [o \in 1..MaxObject |-> Nobody]
      /\ tsUpdate = [g \in Updater |-> NoUpdate] /\ tsSaver = [s \in Saves |-> NoSave]
  BY DEF TaskStoreStart
<1>2. /\ NoSave.step = "idle" /\ NoSave \in [step : {"idle", "copying", "writing"}, todo : SUBSET StoreRoot, state : TsState]
  BY <1>0 DEF NoSave
<1>3. NoWriter \in [call : {"none", "create", "enable", "load"}, read : TsState] /\ NoWriter.call = "none"
      /\ NoWriter.read = NoState
  BY <1>0 DEF NoWriter
<1>4. TsTypes
  BY <1>0, <1>1, <1>2, <1>3 DEF TsTypes
<1>5. RoomInv
  BY <1>1, <1>2, <1>3 DEF RoomInv, NoUpdate
<1>6. LogInv
  BY <1>0, <1>1, <1>2, <1>3 DEF LogInv
<1>7. OwnerInv
  BY <1>1 DEF OwnerInv, NoUpdate
<1> QED BY <1>4, <1>5, <1>6, <1>7

\* The store starts empty, on disk as well.
LEMMA TaskStoreInitInv == TaskStoreInit => TsInv
<1> SUFFICES ASSUME TaskStoreInit PROVE TsInv
  OBVIOUS
<1>1. tsDone \in BOOLEAN
  BY Zenon DEF TaskStoreInit
<1>2. /\ tsHeap = TaskStoreStart.heap /\ tsDags = TaskStoreStart.dags /\ tsLog = <<>>
      /\ tsHolder = TaskStoreStart.holder /\ tsUpdate = TaskStoreStart.update
      /\ tsWriter = NoWriter /\ tsSaver = TaskStoreStart.saver /\ tsShow = NotShowing
      /\ tsConfig = "off" /\ tsFile = NoState /\ tsFaults = 0
  BY Zenon DEF TaskStoreInit
<1>3. tsFaults \in 0..MaxFault /\ tsFile \in TsState /\ Covers(tsFile.dags, tsFile.log)
  BY <1>2, NoStateIsState, TaskStoreAssumption
<1>4. TsFresh
  BY <1>2, <1>3, Zenon DEF TsFresh
<1> QED BY <1>1, <1>4, TsStart DEF TsInv

\* A crash loses all but the file.
LEMMA CrashStep ==
  ASSUME TsInv, StoreCrash
  PROVE  TsTypes' /\ RoomInv' /\ LogInv' /\ OwnerInv'
<1>1. /\ tsHeap' = TaskStoreStart.heap /\ tsDags' = TaskStoreStart.dags /\ tsLog' = <<>>
      /\ tsHolder' = TaskStoreStart.holder /\ tsUpdate' = TaskStoreStart.update
      /\ tsWriter' = NoWriter /\ tsSaver' = TaskStoreStart.saver /\ tsShow' = NotShowing
      /\ tsConfig' = "off" /\ tsFile' = tsFile
  BY Zenon DEF StoreCrash
<1>2. tsFile' \in TsState /\ Covers(tsFile'.dags, tsFile'.log)
  BY <1>1 DEF TsInv, TsTypes, LogInv
<1>3. tsFaults' \in 0..MaxFault
  <2>1. tsFaults < MaxFault /\ tsFaults' = tsFaults + 1
    BY Zenon DEF StoreCrash
  <2>2. tsFaults \in 0..MaxFault
    BY Zenon DEF TsInv, TsTypes
  <2> QED BY <2>1, <2>2, TaskStoreAssumption
<1>4. TsFresh'
  BY <1>1, <1>2, <1>3, Zenon DEF TsFresh
<1> QED BY <1>4, TsStart, PTL

\* A call that asks for the lock has its room, and a load has read a file that
\* covers what it shows.
LEMMA AskStep ==
  ASSUME TsInv, NEW ask \in {"create", "enable", "load"}, AskLock(ask)
  PROVE  TsTypes' /\ RoomInv' /\ LogInv' /\ OwnerInv'
<1>0. TsTypes /\ RoomInv /\ LogInv /\ OwnerInv
  BY DEF TsInv
<1>1. /\ UNCHANGED <<tsMemory, tsHolder, tsUpdate, tsSaver, tsShow, tsConfig, tsFile, tsFaults>>
  BY DEF AskLock, tsControl
<1>2. PICK st \in TsState : /\ tsWriter' = [call |-> ask, read |-> st]
                            /\ Covers(st.dags, st.log)
  <2>1. tsFile \in TsState /\ NoState \in TsState /\ Covers(tsFile.dags, tsFile.log)
        /\ Covers(NoState.dags, NoState.log)
    BY <1>0, NoStateIsState DEF TsTypes, LogInv
  <2>2. tsWriter' = [call |-> ask, read |-> IF ask = "load" THEN tsFile ELSE NoState]
    BY DEF AskLock
  <2>3. CASE ask = "load"
    BY <2>1, <2>2, <2>3
  <2>4. CASE ask # "load"
    BY <2>1, <2>2, <2>4
  <2> QED BY <2>3, <2>4
<1>a. /\ ask = "create" => NewObjects(1)
      /\ ask = "load" => NewObjects(Cardinality(StoreRoot))
  BY DEF AskLock
<1>3. TsTypes'
  BY <1>0, <1>1, <1>2 DEF TsTypes, tsMemory
<1>4. tsWriter'.call = ask /\ tsWriter'.read = st
  BY <1>2
<1>5. RoomInv'
  BY <1>0, <1>1, <1>a, <1>4 DEF RoomInv, NewObjects, tsMemory
<1>6. LogInv'
  BY <1>0, <1>1, <1>2, <1>4 DEF LogInv, tsMemory
<1>7. OwnerInv'
  BY <1>0, <1>1 DEF OwnerInv, tsMemory
<1> QED BY <1>3, <1>5, <1>6, <1>7

\* A new object is nobody's yet, and has no progress to log.
LEMMA CreateStep ==
  ASSUME TsInv, NEW r \in StoreRoot, CreateDag(r)
  PROVE  TsTypes' /\ RoomInv' /\ LogInv' /\ OwnerInv'
<1>0. TsTypes /\ RoomInv /\ LogInv /\ OwnerInv /\ MaxObject \in Nat \ {0} /\ MaxProgress \in Nat \ {0}
  BY TaskStoreAssumption DEF TsInv
<1>1. PICK q : q = Append(tsHeap, 0)
  OBVIOUS
<1>2. PICK n \in Nat : n = Len(tsHeap)
  BY <1>0 DEF TsTypes
<1>3. /\ q \in Seq(0..MaxProgress) /\ Len(q) = n + 1 /\ q[n + 1] = 0 /\ n + 1 <= MaxObject
      /\ \A o \in 1..n : q[o] = tsHeap[o]
  <2>1. tsHeap \in Seq(0..MaxProgress) /\ 0 \in 0..MaxProgress
    BY <1>0 DEF TsTypes
  <2>2. n + 1 <= MaxObject
    BY <1>0, <1>2 DEF CreateDag, RoomInv
  <2> QED BY <1>1, <1>2, <2>1, <2>2
<1>4. /\ tsHeap' = q /\ tsDags' = [tsDags EXCEPT ![r] = n + 1] /\ tsWriter' = NoWriter
      /\ UNCHANGED <<tsLog, tsHolder, tsUpdate, tsSaver, tsShow, tsConfig, tsFile, tsFaults>>
      /\ \A s \in Saves : tsSaver[s].step # "copying"
  <2>1. tsHeap' = q
    BY <1>1 DEF CreateDag
  <2>2. Len(tsHeap') = n + 1
    BY <1>3, <2>1
  <2>3. \A s \in Saves : tsSaver[s].step # "copying"
    BY DEF CreateDag, MayWriteDags, SavesReading
  <2> QED BY <2>1, <2>2, <2>3 DEF CreateDag, tsControl
<1>5. /\ NoWriter \in [call : {"none", "create", "enable", "load"}, read : TsState]
      /\ NoWriter.call = "none" /\ NoWriter.read = NoState /\ Covers(NoState.dags, NoState.log)
  BY NoStateIsState DEF NoWriter
<1>6. /\ tsDags' \in [StoreRoot -> 0..(n + 1)] /\ tsDags'[r] = n + 1
      /\ \A p \in StoreRoot \ {r} : tsDags'[p] = tsDags[p]
      /\ \A p \in StoreRoot : tsDags[p] \in 0..n
  BY <1>0, <1>2, <1>4 DEF TsTypes
<1>7. TsTypes'
  BY <1>0, <1>3, <1>4, <1>5, <1>6 DEF TsTypes
<1>8. RoomInv'
  <2>1. ASSUME NEW g \in Updater, tsUpdate[g].step # "idle"
        PROVE  tsUpdate[g].object \in 1..n
    BY <1>0, <1>2, <2>1 DEF RoomInv, TsTypes, TsAsking, NoUpdate
  <2>2. \A g \in Updater : /\ tsUpdate'[g].step # "idle" => tsUpdate'[g].object <= n + 1
                           /\ tsUpdate'[g].step = "set" => q[tsUpdate'[g].object] # 0
    <3> SUFFICES ASSUME NEW g \in Updater, tsUpdate[g].step # "idle"
                 PROVE  /\ tsUpdate[g].object <= n + 1
                        /\ tsUpdate[g].step = "set" => q[tsUpdate[g].object] # 0
      BY <1>4
    <3>1. tsUpdate[g].object \in 1..n
      BY <2>1
    <3>2. q[tsUpdate[g].object] = tsHeap[tsUpdate[g].object]
      BY <1>3, <3>1
    <3> QED BY <1>0, <3>1, <3>2 DEF RoomInv
  <2>3. \A s \in Saves : tsSaver'[s].step # "copying"
    BY <1>4
  <2> QED BY <1>3, <1>4, <1>5, <2>2, <2>3 DEF RoomInv
<1>9. LogInv'
  <2>1. ASSUME NEW p \in StoreRoot, tsDags'[p] # 0, tsHolder'[tsDags'[p]] = Nobody, tsHeap'[tsDags'[p]] > 0
        PROVE  Logged(EventOf(p, tsHeap'[tsDags'[p]]), tsLog')
    <3>1. p # r
      BY <1>3, <1>4, <1>6, <2>1
    <3>2. tsDags'[p] = tsDags[p] /\ tsDags[p] \in 1..n
      BY <1>6, <2>1, <3>1
    <3>3. tsHeap'[tsDags'[p]] = tsHeap[tsDags[p]]
      BY <1>3, <1>4, <3>2
    <3> QED BY <1>0, <1>4, <2>1, <3>2, <3>3 DEF LogInv
  <2> QED BY <1>0, <1>4, <1>5, <2>1 DEF LogInv
<1>10. OwnerInv'
  <2>1. \A g \in Updater : tsUpdate[g].step # "idle" => tsUpdate[g].object # n + 1
    BY <1>0, <1>2 DEF RoomInv, TsTypes, TsAsking, NoUpdate
  <2>2. \A p \in StoreRoot : tsDags[p] # n + 1
    BY <1>6
  <2> QED BY <1>0, <1>4, <1>6, <2>1, <2>2 DEF OwnerInv
<1> QED BY <1>7, <1>8, <1>9, <1>10

\* EnablePersistence changes what is saved from then on, not what is known.
LEMMA EnableStep ==
  ASSUME TsInv, NEW mode \in {"once", "loop"}, Enable(mode)
  PROVE  TsTypes' /\ RoomInv' /\ LogInv' /\ OwnerInv'
<1>0. TsTypes /\ RoomInv /\ LogInv /\ OwnerInv
  BY DEF TsInv
<1>1. /\ UNCHANGED <<tsHeap, tsDags, tsLog, tsHolder, tsUpdate, tsSaver, tsShow, tsFile, tsFaults>>
      /\ tsConfig' = mode /\ tsWriter' = NoWriter
  BY DEF Enable, tsMemory
<1>2. /\ NoWriter \in [call : {"none", "create", "enable", "load"}, read : TsState]
      /\ NoWriter.call = "none" /\ NoWriter.read = NoState /\ Covers(NoState.dags, NoState.log)
  BY NoStateIsState DEF NoWriter
<1>3. TsTypes'
  BY <1>0, <1>1, <1>2 DEF TsTypes
<1>4. RoomInv'
  BY <1>0, <1>1, <1>2 DEF RoomInv
<1>5. LogInv'
  BY <1>0, <1>1, <1>2 DEF LogInv
<1>6. OwnerInv'
  BY <1>0, <1>1 DEF OwnerInv
<1> QED BY <1>3, <1>4, <1>5, <1>6

\* A sequence of a finite set's elements has each of them at one place.
LEMMA SetInSeq ==
  ASSUME NEW S, IsFiniteSet(S)
  PROVE  /\ SetToSeq(S) \in Seq(S) /\ Len(SetToSeq(S)) = Cardinality(S) /\ Cardinality(S) \in Nat
         /\ \A a, b \in 1..Cardinality(S) : SetToSeq(S)[a] = SetToSeq(S)[b] => a = b
         /\ \A x \in S : \E k \in 1..Cardinality(S) : SetToSeq(S)[k] = x
<1> DEFINE n == Cardinality(S)
<1>1. n \in Nat /\ ExistsBijection(1..n, S)
  BY FS_CardinalityType
<1> HIDE DEF n
<1>2. PICK g \in [1..n -> S] : IsInjective(g)
  BY <1>1, Zenon DEF ExistsBijection, Bijection, Injection
<1>3. PICK f \in [1..n -> S] : f = SetToSeq(S) /\ IsInjective(f)
  <2>1. SetToSeq(S) = CHOOSE f \in [1..n -> S] : IsInjective(f)
    BY Zenon DEF SetToSeq, n
  <2> QED BY <1>2, <2>1, Zenon
<1>4. IsFiniteSet(1..n) /\ Cardinality(1..n) = n
  BY <1>1, FS_Interval
<1>5. f \in Injection(1..n, S)
  BY <1>3, Zenon DEF Injection
<1>6. f \in Surjection(1..n, S)
  BY <1>4, <1>5, FS_Injection, Zenon DEF n
<1>7. \A x \in S : \E k \in 1..n : f[k] = x
  BY <1>6, Zenon DEF Surjection
<1>8. \A a, b \in 1..n : f[a] = f[b] => a = b
  BY <1>3 DEF IsInjective
<1>9. f \in Seq(S) /\ Len(f) = n
  BY <1>1
<1> QED BY <1>1, <1>3, <1>7, <1>8, <1>9, Zenon DEF n

\* A function on an initial interval is a sequence, and what two sequences give
\* together.
LEMMA FunctionIsSeq ==
  ASSUME NEW X, NEW n \in Nat, NEW t \in [1..n -> X]
  PROVE  t \in Seq(X) /\ Len(t) = n
OBVIOUS

\* The concatenation of two sequences over one set is one over it, as long as both.
LEMMA SeqsTogether ==
  ASSUME NEW X, NEW s \in Seq(X), NEW t \in Seq(X)
  PROVE  s \o t \in Seq(X) /\ Len(s \o t) = Len(s) + Len(t)
OBVIOUS

\* A load gives every root of the file an object of its own, with what the file
\* shows of it.
LEMMA LoadedObjects ==
  ASSUME TsInv, LoadState
  PROVE  \E n \in Nat, m \in Nat :
           /\ n = Len(tsHeap) /\ n + m <= MaxObject /\ Len(tsHeap') = n + m
           /\ tsHeap' \in Seq(0..MaxProgress)
           /\ \A o \in 1..n : tsHeap'[o] = tsHeap[o]
           /\ tsDags' \in [StoreRoot -> 0..(n + m)]
           /\ \A r \in StoreRoot : tsDags'[r] = 0 \/
                (tsDags'[r] > n /\ tsHeap'[tsDags'[r]] = tsWriter.read.dags[r])
           /\ \A r, q \in StoreRoot : tsDags'[r] = tsDags'[q] /\ tsDags'[r] # 0 => r = q
<1>0. TsTypes /\ RoomInv /\ MaxObject \in Nat \ {0} /\ MaxProgress \in Nat \ {0} /\ IsFiniteSet(StoreRoot)
  BY TaskStoreAssumption DEF TsInv
<1>1. PICK shown \in [StoreRoot -> Absent..MaxProgress] : shown = tsWriter.read.dags
  BY <1>0 DEF TsTypes, TsState
<1>2. PICK S \in SUBSET StoreRoot : S = {r \in StoreRoot : shown[r] # Absent}
  OBVIOUS
<1>3. PICK roots : roots = SetToSeq(S)
  OBVIOUS
<1>4. IsFiniteSet(S) /\ Cardinality(S) <= Cardinality(StoreRoot) /\ Cardinality(StoreRoot) \in Nat
  BY <1>0, <1>2, FS_Subset, FS_CardinalityType
<1>5. PICK m \in Nat : m = Cardinality(S)
  BY <1>4, FS_CardinalityType
<1>6. /\ roots \in Seq(S) /\ Len(roots) = m
      /\ \A a, b \in 1..m : roots[a] = roots[b] => a = b
      /\ \A x \in S : \E k \in 1..m : roots[k] = x
  BY <1>3, <1>4, <1>5, SetInSeq
<1>7. PICK t : t = [k \in 1..m |-> shown[roots[k]]]
  OBVIOUS
<1>8. DOMAIN roots = 1..m /\ \A k \in 1..m : roots[k] \in S
  BY <1>5, <1>6
<1>9. \A r \in S : shown[r] \in 0..MaxProgress
  BY <1>0, <1>2 DEF Absent
<1>10. t \in Seq(0..MaxProgress) /\ Len(t) = m
  <2>1. \A k \in 1..m : shown[roots[k]] \in 0..MaxProgress
    BY <1>8, <1>9
  <2>2. t \in [1..m -> 0..MaxProgress]
    BY <1>7, <2>1
  <2> QED BY <1>5, <2>2, FunctionIsSeq
<1>11. PICK n \in Nat : n = Len(tsHeap)
  BY <1>0 DEF TsTypes
<1>12. PICK h : h = tsHeap \o t
  OBVIOUS
<1>13. /\ h \in Seq(0..MaxProgress) /\ Len(h) = n + m
       /\ \A o \in 1..n : h[o] = tsHeap[o]
       /\ \A k \in 1..m : h[n + k] = t[k]
  <2>1. tsHeap \in Seq(0..MaxProgress)
    BY <1>0 DEF TsTypes
  <2>2. h \in Seq(0..MaxProgress) /\ Len(h) = n + m
    <3>1. tsHeap \o t \in Seq(0..MaxProgress) /\ Len(tsHeap \o t) = Len(tsHeap) + Len(t)
      BY <1>10, <2>1, SeqsTogether, Zenon
    <3> QED BY <1>10, <1>11, <1>12, <3>1, Zenon
  <2>3. \A o \in 1..n : h[o] = tsHeap[o]
    BY <1>10, <1>11, <1>12, <2>1
  <2>4. ASSUME NEW k \in 1..m PROVE h[n + k] = t[k]
    <3>1. n + k \in 1..(Len(tsHeap) + Len(t)) /\ n + k > Len(tsHeap) /\ (n + k) - Len(tsHeap) = k
      BY <1>5, <1>10, <1>11
    <3>2. PICK s : s = tsHeap
      OBVIOUS
    <3>3. /\ s \in Seq(0..MaxProgress) /\ h = s \o t /\ t \in Seq(0..MaxProgress)
          /\ n + k \in 1..(Len(s) + Len(t)) /\ n + k > Len(s) /\ (n + k) - Len(s) = k
      BY <1>10, <1>12, <2>1, <3>1, <3>2
    <3> QED BY <3>3
  <2> QED BY <2>2, <2>3, <2>4
<1>14. n + m <= MaxObject
  <2>1. tsWriter.call = "load"
    BY Zenon DEF LoadState
  <2>2. n + Cardinality(StoreRoot) <= MaxObject
    BY <1>0, <1>11, <2>1 DEF RoomInv
  <2> QED BY <1>0, <1>4, <1>5, <2>2
<1> DEFINE PlaceOf(r) == CHOOSE k \in 1..m : roots[k] = r
<1>15. \A r \in S : PlaceOf(r) \in 1..m /\ roots[PlaceOf(r)] = r
  BY <1>6
<1>16. /\ tsHeap' = h
       /\ tsDags' = [r \in StoreRoot |-> IF r \notin S THEN 0 ELSE n + PlaceOf(r)]
  <2>1. SetToSeq({r \in StoreRoot : tsWriter.read.dags[r] # Absent}) = roots
    BY <1>1, <1>2, <1>3
  <2>2. /\ tsHeap' = tsHeap \o [k \in DOMAIN roots |-> shown[roots[k]]]
        /\ tsDags' = [r \in StoreRoot |-> IF shown[r] = Absent THEN 0
                                 ELSE Len(tsHeap) + (CHOOSE k \in DOMAIN roots : roots[k] = r)]
    <3> DEFINE loaded == SetToSeq({r \in StoreRoot : tsWriter.read.dags[r] # Absent})
    <3>1. /\ tsHeap' = tsHeap \o [k \in DOMAIN loaded |-> tsWriter.read.dags[loaded[k]]]
          /\ tsDags' = [r \in StoreRoot |-> IF tsWriter.read.dags[r] = Absent THEN 0
                                   ELSE Len(tsHeap) + (CHOOSE k \in DOMAIN loaded : loaded[k] = r)]
      BY Zenon DEF LoadState
    <3>2. loaded = roots
      BY <2>1
    <3> HIDE DEF loaded
    <3> QED BY <1>1, <3>1, <3>2
  <2>3. tsHeap' = h
    BY <1>7, <1>8, <1>12, <2>2, Zenon
  <2>4. \A r \in StoreRoot : shown[r] = Absent <=> r \notin S
    BY <1>2
  <2> QED BY <1>8, <1>11, <2>2, <2>3, <2>4
<1> HIDE DEF PlaceOf
<1>17. \A r \in S : n + PlaceOf(r) \in 1..(n + m) /\ n + PlaceOf(r) > n /\ h[n + PlaceOf(r)] = shown[r]
  <2> SUFFICES ASSUME NEW r \in S
               PROVE  n + PlaceOf(r) \in 1..(n + m) /\ n + PlaceOf(r) > n /\ h[n + PlaceOf(r)] = shown[r]
    OBVIOUS
  <2>1. PICK k \in 1..m : k = PlaceOf(r) /\ roots[k] = r
    BY <1>15
  <2>2. h[n + k] = shown[r]
    BY <1>7, <1>13, <2>1
  <2> QED BY <1>5, <1>11, <2>1, <2>2
<1>18. \A r, q \in S : n + PlaceOf(r) = n + PlaceOf(q) => r = q
  <2> SUFFICES ASSUME NEW r \in S, NEW q \in S, n + PlaceOf(r) = n + PlaceOf(q) PROVE r = q
    OBVIOUS
  <2>1. PlaceOf(r) \in 1..m /\ PlaceOf(q) \in 1..m
    BY <1>15
  <2>2. PlaceOf(r) = PlaceOf(q)
    BY <1>11, <2>1
  <2> QED BY <1>15, <2>2
<1>19. tsDags' \in [StoreRoot -> 0..(n + m)]
  BY <1>16, <1>17
<1>20. \A r \in StoreRoot : tsDags'[r] = 0 \/
         (tsDags'[r] > n /\ tsHeap'[tsDags'[r]] = tsWriter.read.dags[r])
  <2>1. \A r \in StoreRoot : r \notin S => tsDags'[r] = 0
    BY <1>16
  <2>2. ASSUME NEW r \in S PROVE tsDags'[r] > n /\ tsHeap'[tsDags'[r]] = tsWriter.read.dags[r]
    <3>1. PICK o : o = n + PlaceOf(r)
      OBVIOUS
    <3>2. o > n /\ h[o] = shown[r]
      BY <1>17, <3>1
    <3>3. tsDags'[r] = o /\ tsHeap' = h
      BY <1>16, <3>1
    <3> QED BY <1>1, <3>2, <3>3
  <2> QED BY <2>1, <2>2
<1>21. \A r, q \in StoreRoot : tsDags'[r] = tsDags'[q] /\ tsDags'[r] # 0 => r = q
  <2> SUFFICES ASSUME NEW r \in StoreRoot, NEW q \in StoreRoot, tsDags'[r] = tsDags'[q], tsDags'[r] # 0
               PROVE  r = q
    OBVIOUS
  <2>1. r \in S /\ q \in S
    BY <1>16
  <2>2. n + PlaceOf(r) = n + PlaceOf(q)
    BY <1>16, <2>1
  <2> QED BY <1>18, <2>1, <2>2
<1> QED BY <1>11, <1>13, <1>14, <1>16, <1>19, <1>20, <1>21

\* What a load puts in memory is what the file it has read covers.
LEMMA LoadStep ==
  ASSUME TsInv, LoadState
  PROVE  TsTypes' /\ RoomInv' /\ LogInv' /\ OwnerInv'
<1>0. TsTypes /\ RoomInv /\ LogInv /\ OwnerInv /\ MaxObject \in Nat \ {0} /\ MaxProgress \in Nat \ {0}
  BY TaskStoreAssumption DEF TsInv
<1>1. PICK n \in Nat, m \in Nat :
           /\ n = Len(tsHeap) /\ n + m <= MaxObject /\ Len(tsHeap') = n + m
           /\ tsHeap' \in Seq(0..MaxProgress)
           /\ \A o \in 1..n : tsHeap'[o] = tsHeap[o]
           /\ tsDags' \in [StoreRoot -> 0..(n + m)]
           /\ \A r \in StoreRoot : tsDags'[r] = 0 \/
                (tsDags'[r] > n /\ tsHeap'[tsDags'[r]] = tsWriter.read.dags[r])
           /\ \A r, q \in StoreRoot : tsDags'[r] = tsDags'[q] /\ tsDags'[r] # 0 => r = q
  BY LoadedObjects
<1>2. /\ tsLog' = tsWriter.read.log /\ tsWriter' = NoWriter
      /\ UNCHANGED <<tsHolder, tsUpdate, tsSaver, tsShow, tsConfig, tsFile, tsFaults>>
      /\ \A s \in Saves : tsSaver[s].step # "copying"
  <2>1. \A s \in Saves : tsSaver[s].step # "copying"
    BY DEF LoadState, MayWriteDags, SavesReading
  <2> QED BY <2>1 DEF LoadState, tsControl
<1>3. /\ NoWriter \in [call : {"none", "create", "enable", "load"}, read : TsState]
      /\ NoWriter.call = "none" /\ NoWriter.read = NoState /\ Covers(NoState.dags, NoState.log)
  BY NoStateIsState DEF NoWriter
<1>4. tsWriter.read.log \in Seq(TsEvent) /\ tsWriter.read \in TsState
  BY <1>0 DEF TsTypes, TsState
<1>5. TsTypes'
  BY <1>0, <1>1, <1>2, <1>3, <1>4 DEF TsTypes
<1>6. \A g \in Updater : tsUpdate[g].step # "idle" => tsUpdate[g].object \in 1..n
  BY <1>0, <1>1 DEF RoomInv, TsTypes, TsAsking, NoUpdate
<1>7. RoomInv'
  <2>1. \A g \in Updater : /\ tsUpdate'[g].step # "idle" => tsUpdate'[g].object <= n + m
                           /\ tsUpdate'[g].step = "set" => tsHeap'[tsUpdate'[g].object] # 0
    <3> SUFFICES ASSUME NEW g \in Updater, tsUpdate[g].step # "idle"
                 PROVE  /\ tsUpdate[g].object <= n + m
                        /\ tsUpdate[g].step = "set" => tsHeap'[tsUpdate[g].object] # 0
      BY <1>2
    <3>1. tsUpdate[g].object \in 1..n
      BY <1>6
    <3>2. tsHeap'[tsUpdate[g].object] = tsHeap[tsUpdate[g].object]
      BY <1>1, <3>1
    <3> QED BY <1>0, <3>1, <3>2 DEF RoomInv
  <2>2. \A s \in Saves : tsSaver'[s].step # "copying"
    BY <1>2
  <2>3. tsWriter'.call = "none" /\ Len(tsHeap') = n + m
    BY <1>1, <1>2, <1>3
  <2> QED BY <2>1, <2>2, <2>3 DEF RoomInv
<1>8. LogInv'
  <2>1. ASSUME NEW p \in StoreRoot, tsDags'[p] # 0, tsHeap'[tsDags'[p]] > 0
        PROVE  Logged(EventOf(p, tsHeap'[tsDags'[p]]), tsLog')
    <3>1. tsHeap'[tsDags'[p]] = tsWriter.read.dags[p]
      BY <1>1, <2>1
    <3>2. tsWriter.read.dags[p] > 0
      BY <2>1, <3>1
    <3> QED BY <1>0, <1>2, <3>1, <3>2 DEF LogInv, Covers
  <2> QED BY <1>0, <1>2, <1>3, <2>1 DEF LogInv
<1>9. OwnerInv'
  <2>1. \A g \in Updater : \A r \in StoreRoot : tsUpdate[g].step # "idle" => tsDags'[r] # tsUpdate[g].object
    <3> SUFFICES ASSUME NEW g \in Updater, NEW r \in StoreRoot, tsUpdate[g].step # "idle"
                 PROVE  tsDags'[r] # tsUpdate[g].object
      OBVIOUS
    <3>1. tsUpdate[g].object \in 1..n
      BY <1>6
    <3>2. tsDags'[r] = 0 \/ tsDags'[r] > n
      BY <1>1
    <3> QED BY <1>1, <3>1, <3>2
  <2> QED BY <1>1, <1>2, <2>1 DEF OwnerInv
<1> QED BY <1>5, <1>7, <1>8, <1>9

\* Every step of the call that waits for m.mu.
LEMMA WriterStep ==
  ASSUME TsInv, WriterGoesOn
  PROVE  TsTypes' /\ RoomInv' /\ LogInv' /\ OwnerInv'
BY CreateStep, EnableStep, LoadStep DEF WriterGoesOn

\* What is logged stays logged, until the log has been cut.
LEMMA CutKeeps ==
  ASSUME NEW log \in Seq(TsEvent), NEW e \in TsEvent
  PROVE  /\ Cut(Append(log, e)) \in Seq(TsEvent) /\ Logged(e, Cut(Append(log, e)))
         /\ \A x : Logged(x, log) => Logged(x, Cut(Append(log, e)))
<1>0. LogLimit \in Nat /\ LogKeep \in Nat \ {0} /\ LogKeep <= LogLimit
  BY TaskStoreAssumption
<1>1. PICK q : q = Append(log, e)
  OBVIOUS
<1>2. PICK n \in Nat : n = Len(log)
  OBVIOUS
<1>3. q \in Seq(TsEvent) /\ Len(q) = n + 1 /\ q[n + 1] = e /\ \A k \in 1..n : q[k] = log[k]
  BY <1>1, <1>2
<1>4. CASE n + 1 > LogLimit
  <2>1. PICK a \in Nat \ {0} : a = n + 1 - LogKeep + 1
    BY <1>0, <1>4
  <2>2. PICK t : t = SubSeq(q, a, n + 1)
    OBVIOUS
  <2>3. Cut(q) = t
    <3>1. Len(q) > LogLimit
      BY <1>3, <1>4
    <3>2. Cut(q) = SubSeq(q, Len(q) - LogKeep + 1, Len(q))
      BY <3>1, Zenon DEF Cut
    <3>3. Len(q) - LogKeep + 1 = a /\ Len(q) = n + 1
      BY <1>0, <1>3, <2>1
    <3> QED BY <2>2, <3>2, <3>3, Zenon
  <2>4. t \in Seq(TsEvent) /\ Len(t) = LogKeep
    <3>1. \A k \in a..(n + 1) : k \in 1..Len(q)
      BY <1>3, <2>1
    <3>2. Len(t) = n + 1 - a + 1
      BY <1>0, <1>3, <1>4, <2>1, <2>2
    <3>3. t \in Seq(TsEvent)
      BY <1>3, <2>1, <2>2, <3>1
    <3> QED BY <1>0, <2>1, <3>2, <3>3
  <2>5. \A x : Logged(x, t)
    BY <1>0, <2>4 DEF Logged
  <2> QED BY <1>1, <2>3, <2>4, <2>5
<1>5. CASE ~(n + 1 > LogLimit)
  <2>1. Cut(q) = q
    BY <1>3, <1>5 DEF Cut
  <2>2. DOMAIN q = 1..(n + 1) /\ DOMAIN log = 1..n
    BY <1>2, <1>3
  <2>3. e \in Range(q)
    <3>1. n + 1 \in DOMAIN q
      BY <2>2
    <3> QED BY <1>3, <3>1 DEF Range
  <2>4. Range(log) \subseteq Range(q)
    <3>1. \A k \in DOMAIN log : k \in DOMAIN q /\ log[k] = q[k]
      BY <1>3, <2>2
    <3> QED BY <3>1 DEF Range
  <2>5. \A x : Logged(x, log) => Logged(x, q)
    BY <1>0, <1>2, <1>3, <2>4 DEF Logged
  <2> QED BY <1>1, <1>3, <2>1, <2>3, <2>5 DEF Logged
<1> QED BY <1>4, <1>5

\* An update finds an object of the root it asks for.
LEMMA FindStep ==
  ASSUME TsInv, NEW g \in Updater, NEW r \in StoreRoot, FindDag(g, r)
  PROVE  TsTypes' /\ RoomInv' /\ LogInv' /\ OwnerInv'
<1>0. TsTypes /\ RoomInv /\ LogInv /\ OwnerInv /\ MaxObject \in Nat
  BY TaskStoreAssumption DEF TsInv
<1>1. PICK o : o = tsDags[r]
  OBVIOUS
<1>2. o \in 1..MaxObject /\ o <= Len(tsHeap)
  BY <1>0, <1>1 DEF FindDag, TsTypes
<1>3. PICK u \in TsAsking : u = [step |-> "found", root |-> r, object |-> o]
  BY <1>2 DEF TsAsking
<1>4. /\ tsUpdate' = [tsUpdate EXCEPT ![g] = u]
      /\ UNCHANGED <<tsMemory, tsHolder, tsWriter, tsSaver, tsShow, tsConfig, tsFile, tsFaults>>
  BY <1>1, <1>3 DEF FindDag, tsControl
<1>5. tsUpdate'[g] = u /\ \A v \in Updater \ {g} : tsUpdate'[v] = tsUpdate[v]
  BY <1>0, <1>4 DEF TsTypes
<1>6. TsTypes'
  BY <1>0, <1>4 DEF TsTypes, tsMemory
<1>7. RoomInv'
  BY <1>0, <1>2, <1>3, <1>4, <1>5 DEF RoomInv, tsMemory
<1>8. LogInv'
  BY <1>0, <1>4 DEF LogInv, tsMemory
<1>9. OwnerInv'
  <2>1. \A q \in StoreRoot : tsDags[q] = o => q = r
    BY <1>0, <1>1, <1>2 DEF OwnerInv
  <2>2. u.root = r /\ u.object = o
    BY <1>3
  <2> QED BY <1>0, <1>4, <1>5, <2>1, <2>2 DEF OwnerInv, tsMemory
<1> QED BY <1>6, <1>7, <1>8, <1>9

\* A progress that is set is of a locked object.
LEMMA SetStep ==
  ASSUME TsInv, NEW g \in Updater, SetProgress(g)
  PROVE  TsTypes' /\ RoomInv' /\ LogInv' /\ OwnerInv'
<1>0. /\ TsTypes /\ RoomInv /\ LogInv /\ OwnerInv
      /\ MaxObject \in Nat /\ MaxProgress \in Nat /\ Nobody \notin Updater
  BY TaskStoreAssumption DEF TsInv, Nobody
<1>1. tsUpdate[g] \in TsAsking /\ tsUpdate[g].step = "found"
  BY <1>0 DEF SetProgress, TsTypes, NoUpdate
<1>2. PICK o \in 1..MaxObject : o = tsUpdate[g].object /\ o <= Len(tsHeap)
  BY <1>0, <1>1 DEF TsAsking, RoomInv
<1>3. PICK n \in Nat : n = Len(tsHeap) /\ o \in 1..n
  BY <1>0, <1>2 DEF TsTypes
<1>4. PICK h : h = [tsHeap EXCEPT ![o] = tsHeap[o] + 1]
  OBVIOUS
<1>5. /\ tsHeap' = h /\ tsHolder' = [tsHolder EXCEPT ![o] = g]
      /\ tsUpdate' = [tsUpdate EXCEPT ![g].step = "set"] /\ tsHeap[o] < MaxProgress
      /\ UNCHANGED <<tsDags, tsLog, tsWriter, tsSaver, tsShow, tsConfig, tsFile, tsFaults>>
  BY <1>2, <1>4 DEF SetProgress, tsControl
<1>6. tsHeap \in [1..n -> 0..MaxProgress]
  BY <1>0, <1>3 DEF TsTypes
<1>7. /\ h \in [1..n -> 0..MaxProgress] /\ h[o] # 0 /\ \A i \in 1..n \ {o} : h[i] = tsHeap[i]
  <2>1. tsHeap[o] \in 0..MaxProgress
    BY <1>3, <1>6
  <2>2. tsHeap[o] + 1 \in 0..MaxProgress /\ tsHeap[o] + 1 # 0
    BY <1>0, <1>5, <2>1
  <2> QED BY <1>3, <1>4, <1>6, <2>2
<1>8. h \in Seq(0..MaxProgress) /\ Len(h) = n
  BY <1>7, FunctionIsSeq
<1>9. /\ tsUpdate'[g] = [step |-> "set", root |-> tsUpdate[g].root, object |-> o]
      /\ \A v \in Updater \ {g} : tsUpdate'[v] = tsUpdate[v]
  BY <1>0, <1>1, <1>2, <1>5 DEF TsTypes, TsAsking
<1>10. tsUpdate' \in [Updater -> {NoUpdate} \cup TsAsking]
  <2>1. [step |-> "set", root |-> tsUpdate[g].root, object |-> o] \in TsAsking
    BY <1>1, <1>2 DEF TsAsking
  <2>2. [tsUpdate[g] EXCEPT !.step = "set"] \in TsAsking
    BY <1>1 DEF TsAsking
  <2> QED BY <1>0, <1>5, <2>2 DEF TsTypes
<1>11. TsTypes'
  BY <1>0, <1>3, <1>5, <1>8, <1>10 DEF TsTypes
<1>12. RoomInv'
  <2>1. ASSUME NEW v \in Updater, tsUpdate'[v].step # "idle"
        PROVE  /\ tsUpdate'[v].object <= n
               /\ tsUpdate'[v].step = "set" => h[tsUpdate'[v].object] # 0
    <3>1. CASE v = g
      BY <1>3, <1>7, <1>9, <3>1
    <3>2. CASE v # g
      <4>1. tsUpdate'[v] = tsUpdate[v] /\ tsUpdate[v] \in TsAsking
        BY <1>0, <1>9, <2>1, <3>2 DEF TsTypes, NoUpdate
      <4>2. tsUpdate[v].object \in 1..n
        BY <1>0, <1>3, <2>1, <4>1 DEF RoomInv, TsAsking
      <4>3. tsUpdate[v].step = "set" => tsHeap[tsUpdate[v].object] # 0
        BY <1>0 DEF RoomInv
      <4> QED BY <1>3, <1>7, <4>1, <4>2, <4>3
    <3> QED BY <3>1, <3>2
  <2> QED BY <1>0, <1>3, <1>5, <1>8, <2>1 DEF RoomInv
<1>13. LogInv'
  <2>1. ASSUME NEW p \in StoreRoot, tsDags[p] # 0, tsHolder'[tsDags[p]] = Nobody, h[tsDags[p]] > 0
        PROVE  Logged(EventOf(p, h[tsDags[p]]), tsLog)
    <3>1. tsDags[p] \in 1..n
      BY <1>0, <1>3, <2>1 DEF TsTypes
    <3>2. tsDags[p] # o
      BY <1>0, <1>5, <2>1 DEF TsTypes
    <3>3. h[tsDags[p]] = tsHeap[tsDags[p]]
      BY <1>7, <3>1, <3>2
    <3>4. tsHolder'[tsDags[p]] = tsHolder[tsDags[p]]
      BY <1>0, <1>5, <3>1, <3>2 DEF TsTypes
    <3> QED BY <1>0, <2>1, <3>3, <3>4 DEF LogInv
  <2> QED BY <1>0, <1>5, <2>1 DEF LogInv
<1>14. OwnerInv'
  <2>1. \A v \in Updater : /\ tsUpdate'[v].step # "idle" => tsUpdate[v].step # "idle"
                           /\ tsUpdate'[v].root = tsUpdate[v].root /\ tsUpdate'[v].object = tsUpdate[v].object
    BY <1>1, <1>2, <1>9
  <2> QED BY <1>0, <1>5, <2>1 DEF OwnerInv
<1> QED BY <1>11, <1>12, <1>13, <1>14

\* An update of a task the DAG does not have changes nothing.
LEMMA UnknownStep ==
  ASSUME TsInv, NEW g \in Updater, UnknownTask(g)
  PROVE  TsTypes' /\ RoomInv' /\ LogInv' /\ OwnerInv'
<1>0. TsTypes /\ RoomInv /\ LogInv /\ OwnerInv
  BY DEF TsInv
<1>1. /\ tsUpdate' = [tsUpdate EXCEPT ![g] = NoUpdate]
      /\ UNCHANGED <<tsMemory, tsHolder, tsWriter, tsSaver, tsShow, tsConfig, tsFile, tsFaults>>
  BY DEF UnknownTask, AfterUnknown, tsControl
<1>2. tsUpdate'[g] = NoUpdate /\ NoUpdate.step = "idle"
      /\ \A v \in Updater \ {g} : tsUpdate'[v] = tsUpdate[v]
  BY <1>0, <1>1 DEF TsTypes, NoUpdate
<1>3. TsTypes'
  BY <1>0, <1>1 DEF TsTypes, tsMemory
<1>4. RoomInv'
  BY <1>0, <1>1, <1>2 DEF RoomInv, tsMemory
<1>5. LogInv'
  BY <1>0, <1>1 DEF LogInv, tsMemory
<1>6. OwnerInv'
  BY <1>0, <1>1, <1>2 DEF OwnerInv, tsMemory
<1> QED BY <1>3, <1>4, <1>5, <1>6

\* The event of a progress is in the log before its DAG is free again.
LEMMA LogStep ==
  ASSUME TsInv, NEW g \in Updater, LogProgress(g)
  PROVE  TsTypes' /\ RoomInv' /\ LogInv' /\ OwnerInv'
<1>0. TsTypes /\ RoomInv /\ LogInv /\ OwnerInv /\ MaxObject \in Nat /\ MaxProgress \in Nat
  BY TaskStoreAssumption DEF TsInv
<1>1. tsUpdate[g] \in TsAsking /\ tsUpdate[g].step = "set"
  BY <1>0 DEF LogProgress, TsTypes, NoUpdate
<1>2. PICK o \in 1..MaxObject, r \in StoreRoot :
        o = tsUpdate[g].object /\ o <= Len(tsHeap) /\ r = tsUpdate[g].root
  BY <1>0, <1>1 DEF TsAsking, RoomInv
<1>3. PICK p \in 1..MaxProgress : p = tsHeap[o]
  BY <1>0, <1>1, <1>2 DEF RoomInv, TsTypes
<1>4. PICK e \in TsEvent : e = [root |-> r, progress |-> p]
  BY DEF TsEvent
<1>5. PICK log \in Seq(TsEvent) : /\ log = Cut(Append(tsLog, e)) /\ Logged(e, log)
                                  /\ \A x : Logged(x, tsLog) => Logged(x, log)
  BY <1>0, CutKeeps DEF TsTypes
<1>6. /\ tsLog' = log /\ tsHolder' = [tsHolder EXCEPT ![o] = Nobody]
      /\ tsUpdate' = [tsUpdate EXCEPT ![g] = NoUpdate]
      /\ UNCHANGED <<tsHeap, tsDags, tsWriter, tsSaver, tsShow, tsConfig, tsFile, tsFaults>>
  BY <1>2, <1>3, <1>4, <1>5 DEF LogProgress, tsControl
<1>7. tsUpdate'[g] = NoUpdate /\ NoUpdate.step = "idle"
      /\ \A v \in Updater \ {g} : tsUpdate'[v] = tsUpdate[v]
  BY <1>0, <1>6 DEF TsTypes, NoUpdate
<1>8. TsTypes'
  BY <1>0, <1>6 DEF TsTypes
<1>9. RoomInv'
  BY <1>0, <1>6, <1>7 DEF RoomInv
<1>10. LogInv'
  <2>1. \A shown : Covers(shown, tsLog) => Covers(shown, log)
    BY <1>5 DEF Covers
  <2>2. ASSUME NEW q \in StoreRoot, tsDags[q] # 0, tsHolder'[tsDags[q]] = Nobody, tsHeap[tsDags[q]] > 0
        PROVE  Logged(EventOf(q, tsHeap[tsDags[q]]), log)
    <3>1. CASE tsDags[q] = o
      <4>1. q = r
        BY <1>0, <1>1, <1>2, <3>1 DEF OwnerInv
      <4> QED BY <1>3, <1>4, <1>5, <3>1, <4>1 DEF EventOf
    <3>2. CASE tsDags[q] # o
      <4>1. tsDags[q] \in 1..MaxObject
        BY <1>0, <2>2 DEF TsTypes
      <4>2. tsHolder'[tsDags[q]] = tsHolder[tsDags[q]]
        BY <1>0, <1>6, <3>2, <4>1 DEF TsTypes
      <4> QED BY <1>0, <1>5, <2>2, <4>2 DEF LogInv
    <3> QED BY <3>1, <3>2
  <2> QED BY <1>0, <1>6, <2>1, <2>2 DEF LogInv
<1>11. OwnerInv'
  BY <1>0, <1>6, <1>7 DEF OwnerInv
<1> QED BY <1>8, <1>9, <1>10, <1>11

\* A save that begins has the roots with a DAG to copy, and nothing copied.
LEMMA SaveBegins ==
  ASSUME TsInv, LoopSaves \/ CallerSaves
  PROVE  TsTypes' /\ RoomInv' /\ LogInv' /\ OwnerInv'
<1>0. TsTypes /\ RoomInv /\ LogInv /\ OwnerInv
  BY DEF TsInv
<1>1. PICK roots \in SUBSET StoreRoot : roots = {r \in StoreRoot : tsDags[r] # 0}
  OBVIOUS
<1>2. PICK save : save = [step |-> "copying", todo |-> roots, state |-> NoState]
  OBVIOUS
<1>2a. save \in [step : {"idle", "copying", "writing"}, todo : SUBSET StoreRoot, state : TsState]
  <2>1. roots \in SUBSET StoreRoot /\ NoState \in TsState
    BY NoStateIsState
  <2> QED BY <1>2, <2>1
<1>3. [NoSave EXCEPT !.step = "copying", !.todo = roots] = save
  <2>1. PICK none : none = NoState
    OBVIOUS
  <2>2. PICK idle : idle = [step |-> "idle", todo |-> {}, state |-> none]
    OBVIOUS
  <2>3. NoSave = idle
    BY <2>1, <2>2 DEF NoSave
  <2>4. PICK half : half = [idle EXCEPT !.step = "copying"]
    OBVIOUS
  <2>5. half = [step |-> "copying", todo |-> {}, state |-> none]
    BY <2>2, <2>4
  <2>6. [half EXCEPT !.todo = roots] = save
    BY <1>2, <2>1, <2>5
  <2> QED BY <2>3, <2>4, <2>6
<1>4. \E s \in Saves : /\ tsSaver' = [tsSaver EXCEPT ![s] = save]
                       /\ UNCHANGED <<tsMemory, tsHolder, tsUpdate, tsWriter, tsShow, tsConfig, tsFile, tsFaults>>
  BY <1>1, <1>3 DEF LoopSaves, CallerSaves, SaverTo, Saves, tsControl
<1>5. PICK s \in Saves : /\ tsSaver' = [tsSaver EXCEPT ![s] = save]
                        /\ UNCHANGED <<tsMemory, tsHolder, tsUpdate, tsWriter, tsShow, tsConfig, tsFile, tsFaults>>
  BY <1>4
<1>6. tsSaver'[s] = save /\ \A c \in Saves \ {s} : tsSaver'[c] = tsSaver[c]
  BY <1>0, <1>5 DEF TsTypes
<1>7. TsTypes'
  BY <1>0, <1>2a, <1>5 DEF TsTypes, tsMemory
<1>8. RoomInv'
  BY <1>0, <1>1, <1>2, <1>5, <1>6 DEF RoomInv, tsMemory
<1>9. LogInv'
  <2>1. \A log : Covers(NoState.dags, log)
    BY NoStateIsState DEF Covers, Absent
  <2> QED BY <1>0, <1>2, <1>5, <1>6, <2>1 DEF LogInv, tsMemory
<1>10. OwnerInv'
  BY <1>0, <1>5 DEF OwnerInv, tsMemory
<1> QED BY <1>7, <1>8, <1>9, <1>10

\* What is copied of a DAG that nobody has locked is logged.
LEMMA CopyStep ==
  ASSUME TsInv, NEW s \in Saves, NEW r \in StoreRoot, CopyDag(s, r)
  PROVE  TsTypes' /\ RoomInv' /\ LogInv' /\ OwnerInv'
<1>0. TsTypes /\ RoomInv /\ LogInv /\ OwnerInv /\ MaxProgress \in Nat
  BY TaskStoreAssumption DEF TsInv
<1>1. PICK todo \in SUBSET StoreRoot, shown \in [StoreRoot -> Absent..MaxProgress], log \in Seq(TsEvent) :
        tsSaver[s] = [step |-> "copying", todo |-> todo, state |-> [dags |-> shown, log |-> log]]
  BY <1>0 DEF CopyDag, TsTypes, TsState
<1>2. PICK n \in 0..MaxProgress : n = tsHeap[tsDags[r]]
  <2>1. tsDags[r] # 0
    BY <1>0 DEF CopyDag, RoomInv
  <2> QED BY <1>0, <2>1 DEF TsTypes
<1>3. tsDags[r] # 0 /\ tsHolder[tsDags[r]] = Nobody
  BY <1>0 DEF CopyDag, RoomInv, MayCopy
<1>4. PICK save : save = [step |-> "copying", todo |-> todo \ {r},
                          state |-> [dags |-> [shown EXCEPT ![r] = n], log |-> log]]
  OBVIOUS
<1>5. /\ tsSaver' = [tsSaver EXCEPT ![s] = save]
      /\ UNCHANGED <<tsMemory, tsHolder, tsUpdate, tsWriter, tsShow, tsConfig, tsFile, tsFaults>>
  <2>1. PICK T, others : tsSaver \in [Saves -> T] /\ others = tsSaver[s].todo \ {r}
    BY <1>0 DEF TsTypes
  <2>2. tsSaver' = [tsSaver EXCEPT ![s].todo = others, ![s].state.dags[r] = n]
    BY <1>2, <2>1 DEF CopyDag
  <2>3. tsSaver' = [tsSaver EXCEPT ![s] = [step |-> "copying", todo |-> others,
                                           state |-> [dags |-> [shown EXCEPT ![r] = n], log |-> log]]]
    <3>1. tsSaver \in [Saves -> T]
      BY <2>1
    <3>2. PICK word, list, more, seen, past, root, p :
            /\ word = "copying" /\ list = todo /\ more = others /\ seen = shown /\ past = log /\ root = r /\ p = n
      OBVIOUS
    <3>3. tsSaver[s] = [step |-> word, todo |-> list, state |-> [dags |-> seen, log |-> past]]
      BY <1>1, <3>2
    <3>4. PICK old, dags2, new : /\ old = [dags |-> seen, log |-> past] /\ dags2 = [seen EXCEPT ![root] = p]
                                 /\ new = [dags |-> dags2, log |-> past]
      OBVIOUS
    <3>5. PICK half, done : /\ half = [step |-> word, todo |-> more, state |-> old]
                            /\ done = [step |-> word, todo |-> more, state |-> new]
      OBVIOUS
    <3>6. PICK was : was = [step |-> word, todo |-> list, state |-> old] /\ tsSaver[s] = was
      BY <3>3, <3>4
    <3>7. [was EXCEPT !.todo = more] = half
      BY <3>5, <3>6
    <3>8. PICK first : first = [tsSaver EXCEPT ![s] = half]
      OBVIOUS
    <3>9. first = [tsSaver EXCEPT ![s].todo = more]
      BY <3>6, <3>7, <3>8
    <3>10. first[s] = half
      BY <3>1, <3>8
    <3>11. [first EXCEPT ![s].state.dags[root] = p] = [first EXCEPT ![s] = [half EXCEPT !.state.dags[root] = p]]
      BY <3>1, <3>8, <3>10
    <3>12. [half EXCEPT !.state.dags[root] = p] = [half EXCEPT !.state = [old EXCEPT !.dags[root] = p]]
      BY <3>5
    <3>13. [old EXCEPT !.dags[root] = p] = [old EXCEPT !.dags = dags2]
      BY <3>4
    <3>14. [old EXCEPT !.dags = dags2] = new
      BY <3>4
    <3>15. [half EXCEPT !.state = new] = done
      BY <3>5
    <3>16. [first EXCEPT ![s] = done] = [tsSaver EXCEPT ![s] = done]
      BY <3>1, <3>8
    <3>17. tsSaver' = [first EXCEPT ![s].state.dags[root] = p]
      BY <2>2, <3>2, <3>9
    <3>18. [half EXCEPT !.state.dags[root] = p] = done
      BY <3>12, <3>13, <3>14, <3>15, Zenon
    <3>19. tsSaver' = [tsSaver EXCEPT ![s] = done]
      BY <3>11, <3>16, <3>17, <3>18, Zenon
    <3>20. done = [step |-> "copying", todo |-> others, state |-> [dags |-> [shown EXCEPT ![r] = n], log |-> log]]
      BY <3>2, <3>4, <3>5
    <3> QED BY <3>19, <3>20, Zenon
  <2>4. others = todo \ {r}
    BY <1>1, <2>1
  <2>8. UNCHANGED <<tsMemory, tsHolder, tsUpdate, tsWriter, tsShow, tsConfig, tsFile, tsFaults>>
    BY DEF CopyDag, tsControl
  <2> QED BY <1>4, <2>3, <2>4, <2>8
<1>6. tsSaver'[s] = save /\ \A c \in Saves \ {s} : tsSaver'[c] = tsSaver[c]
  BY <1>0, <1>5 DEF TsTypes
<1>7. save \in [step : {"idle", "copying", "writing"}, todo : SUBSET StoreRoot, state : TsState]
  <2>1. n \in Absent..MaxProgress
    BY <1>0 DEF Absent
  <2> QED BY <1>4, <2>1 DEF TsState
<1>8. TsTypes'
  BY <1>0, <1>5, <1>7 DEF TsTypes, tsMemory
<1>9. RoomInv'
  <2>1. save.todo \subseteq tsSaver[s].todo /\ tsSaver[s].step = "copying"
    BY <1>1, <1>4
  <2> QED BY <1>0, <1>5, <1>6, <2>1 DEF RoomInv, tsMemory
<1>10. LogInv'
  <2>1. Covers(save.state.dags, tsLog)
    <3>1. Covers(shown, tsLog)
      BY <1>0, <1>1 DEF LogInv
    <3>2. n > 0 => Logged(EventOf(r, n), tsLog)
      BY <1>0, <1>2, <1>3 DEF LogInv
    <3>3. save.state.dags = [shown EXCEPT ![r] = n]
      BY <1>4
    <3> QED BY <3>1, <3>2, <3>3 DEF Covers
  <2>2. save.step = "copying"
    BY <1>4
  <2> QED BY <1>0, <1>5, <1>6, <2>1, <2>2 DEF LogInv, tsMemory
<1>11. OwnerInv'
  BY <1>0, <1>5 DEF OwnerInv, tsMemory
<1> QED BY <1>8, <1>9, <1>10, <1>11

\* The log that is copied behind the DAGs has their events.
LEMMA CopyLogStep ==
  ASSUME TsInv, NEW s \in Saves, CopyLog(s)
  PROVE  TsTypes' /\ RoomInv' /\ LogInv' /\ OwnerInv'
<1>0. TsTypes /\ RoomInv /\ LogInv /\ OwnerInv
  BY DEF TsInv
<1>1. PICK todo \in SUBSET StoreRoot, shown \in [StoreRoot -> Absent..MaxProgress], log \in Seq(TsEvent) :
        tsSaver[s] = [step |-> "copying", todo |-> todo, state |-> [dags |-> shown, log |-> log]]
  BY <1>0 DEF CopyLog, TsTypes, TsState
<1>2. PICK save : save = [step |-> "writing", todo |-> todo, state |-> [dags |-> shown, log |-> tsLog]]
  OBVIOUS
<1>3. /\ tsSaver' = [tsSaver EXCEPT ![s] = save]
      /\ UNCHANGED <<tsMemory, tsHolder, tsUpdate, tsWriter, tsShow, tsConfig, tsFile, tsFaults>>
  <2>1. PICK half : half = [tsSaver[s] EXCEPT !.step = "writing"]
    OBVIOUS
  <2>1a. half = [step |-> "writing", todo |-> todo, state |-> [dags |-> shown, log |-> log]]
    BY <1>1, <2>1
  <2>2. PICK first : first = [tsSaver EXCEPT ![s] = half]
    OBVIOUS
  <2>3. first = [tsSaver EXCEPT ![s].step = "writing"]
    BY <1>0, <2>1, <2>2 DEF TsTypes
  <2>4. first[s] = half /\ DOMAIN first = Saves
    BY <1>0, <2>2 DEF TsTypes
  <2>5. [first EXCEPT ![s].state.log = tsLog] = [first EXCEPT ![s] = save]
    <3>1. [first EXCEPT ![s].state.log = tsLog] = [first EXCEPT ![s] = [half EXCEPT !.state.log = tsLog]]
      BY <2>4
    <3>2. PICK copied : copied = [dags |-> shown, log |-> tsLog]
      OBVIOUS
    <3>3. [half EXCEPT !.state.log = tsLog] = [half EXCEPT !.state = copied]
      <4>1. half.state = [dags |-> shown, log |-> log]
        BY <2>1a
      <4> QED BY <2>1a, <3>2, <4>1
    <3>4. [half EXCEPT !.state = copied] = save
      BY <1>2, <2>1a, <3>2
    <3> QED BY <3>1, <3>3, <3>4
  <2>6. [first EXCEPT ![s] = save] = [tsSaver EXCEPT ![s] = save]
    BY <1>0, <2>2 DEF TsTypes
  <2>7. tsSaver' = [first EXCEPT ![s].state.log = tsLog]
    BY <2>3 DEF CopyLog
  <2>8. UNCHANGED <<tsMemory, tsHolder, tsUpdate, tsWriter, tsShow, tsConfig, tsFile, tsFaults>>
    BY DEF CopyLog, tsControl
  <2> QED BY <2>5, <2>6, <2>7, <2>8
<1>4. tsSaver'[s] = save /\ \A c \in Saves \ {s} : tsSaver'[c] = tsSaver[c]
  BY <1>0, <1>3 DEF TsTypes
<1>5. save \in [step : {"idle", "copying", "writing"}, todo : SUBSET StoreRoot, state : TsState]
  BY <1>0, <1>2 DEF TsTypes, TsState
<1>6. TsTypes'
  BY <1>0, <1>3, <1>5 DEF TsTypes, tsMemory
<1>7. RoomInv'
  BY <1>0, <1>2, <1>3, <1>4 DEF RoomInv, tsMemory
<1>8. LogInv'
  <2>1. Covers(save.state.dags, save.state.log) /\ save.step = "writing"
    BY <1>0, <1>1, <1>2 DEF LogInv
  <2> QED BY <1>0, <1>3, <1>4, <2>1 DEF LogInv, tsMemory
<1>9. OwnerInv'
  BY <1>0, <1>3 DEF OwnerInv, tsMemory
<1> QED BY <1>6, <1>7, <1>8, <1>9

\* A save ends with the file it has written, or with the file as it was.
LEMMA SaveEnds ==
  ASSUME TsInv, NEW s \in Saves, SaveFile(s) \/ SaveFails(s)
  PROVE  TsTypes' /\ RoomInv' /\ LogInv' /\ OwnerInv'
<1>0. TsTypes /\ RoomInv /\ LogInv /\ OwnerInv /\ MaxFault \in Nat
  BY TaskStoreAssumption DEF TsInv
<1>1. /\ tsSaver' = [tsSaver EXCEPT ![s] = NoSave] /\ tsFile' \in {tsFile, tsSaver[s].state}
      /\ tsSaver[s].step = "writing"
      /\ UNCHANGED <<tsMemory, tsHolder, tsUpdate, tsWriter, tsShow, tsConfig>>
  BY DEF SaveFile, SaveFails, SaverTo, AfterFailure
<1>2. NoSave.step = "idle"
      /\ NoSave \in [step : {"idle", "copying", "writing"}, todo : SUBSET StoreRoot, state : TsState]
  BY NoStateIsState DEF NoSave
<1>3. tsSaver'[s] = NoSave /\ \A c \in Saves \ {s} : tsSaver'[c] = tsSaver[c]
  BY <1>0, <1>1 DEF TsTypes
<1>4. tsFaults' \in 0..MaxFault
  BY <1>0 DEF SaveFile, SaveFails, TsTypes
<1>5. tsFile' \in TsState /\ Covers(tsFile'.dags, tsFile'.log)
  <2>1. tsFile \in TsState /\ tsSaver[s].state \in TsState
    BY <1>0 DEF TsTypes
  <2>2. Covers(tsFile.dags, tsFile.log) /\ Covers(tsSaver[s].state.dags, tsSaver[s].state.log)
    BY <1>0, <1>1 DEF LogInv
  <2> QED BY <1>1, <2>1, <2>2
<1>6. TsTypes'
  BY <1>0, <1>1, <1>2, <1>4, <1>5 DEF TsTypes, tsMemory
<1>7. RoomInv'
  BY <1>0, <1>1, <1>2, <1>3 DEF RoomInv, tsMemory
<1>8. LogInv'
  BY <1>0, <1>1, <1>2, <1>3, <1>5 DEF LogInv, tsMemory
<1>9. OwnerInv'
  BY <1>0, <1>1 DEF OwnerInv, tsMemory
<1> QED BY <1>6, <1>7, <1>8, <1>9

\* The loop's end, Stop and Snapshot leave what is known and saved alone.
LEMMA ShowStep ==
  ASSUME TsInv, LoopEnds \/ StopStore \/ SnapshotBegins \/ SnapshotStep \/ UNCHANGED tsVars
  PROVE  TsTypes' /\ RoomInv' /\ LogInv' /\ OwnerInv'
<1>0. TsTypes /\ RoomInv /\ LogInv /\ OwnerInv
  BY DEF TsInv
<1>1. UNCHANGED <<tsHeap, tsDags, tsLog, tsHolder, tsUpdate, tsWriter, tsSaver, tsFile, tsFaults>>
  BY DEF LoopEnds, StopStore, SnapshotBegins, SnapshotStep, tsVars, tsMemory, tsControl
<1>2. tsConfig' \in {tsConfig, "once"}
  BY DEF LoopEnds, StopStore, SnapshotBegins, SnapshotStep, tsVars, tsControl
<1>3. tsShow' = NotShowing \/ tsShow' \subseteq StoreRoot
  <2>1. tsShow = NotShowing \/ tsShow \subseteq StoreRoot
    BY <1>0 DEF TsTypes
  <2>2. CASE SnapshotBegins
    BY <2>2 DEF SnapshotBegins
  <2>3. CASE SnapshotStep
    BY <2>1, <2>3 DEF SnapshotStep
  <2>4. CASE tsShow' = tsShow
    BY <2>1, <2>4
  <2> QED BY <2>2, <2>3, <2>4 DEF LoopEnds, StopStore, tsVars
<1>4. TsTypes'
  BY <1>0, <1>1, <1>2, <1>3 DEF TsTypes
<1>5. RoomInv'
  BY <1>0, <1>1 DEF RoomInv
<1>6. LogInv'
  BY <1>0, <1>1 DEF LogInv
<1>7. OwnerInv'
  BY <1>0, <1>1 DEF OwnerInv
<1> QED BY <1>4, <1>5, <1>6, <1>7

\* The invariant is kept, and says all that is claimed of the store.
LEMMA TaskStoreStep ==
  ASSUME TsInv, [TaskStoreNext]_tsVars
  PROVE  TsInv'
<1>1. tsDone' \in {tsDone, TRUE, FALSE}
  BY DEF TaskStoreNext, AskLock, WriterGoesOn, CreateDag, Enable, LoadState, UpdateStep, SetProgress,
         UnknownTask, LogProgress, FindDag, LoopSaves, LoopEnds, CallerSaves, SaverGoesOn, CopyDag,
         CopyLog, SaveFile, SaveFails, StopStore, SnapshotBegins, SnapshotStep, StoreCrash, tsControl, tsVars
<1>2. tsDone' \in BOOLEAN
  BY <1>1, Zenon DEF TsInv
<1>3. TsTypes' /\ RoomInv' /\ LogInv' /\ OwnerInv'
  BY AskStep, WriterStep, FindStep, SetStep, UnknownStep, LogStep, SaveBegins, CopyStep,
     CopyLogStep, SaveEnds, ShowStep, CrashStep, Zenon
     DEF TaskStoreNext, UpdateStep, SaverGoesOn
<1> QED BY <1>2, <1>3 DEF TsInv

\* The invariant of the kept tasks says what WorkKept asks of them.
LEMMA TaskStoreHolds == TsInv => TaskStoreTypeOK /\ FileLogCoversDags
<1> SUFFICES ASSUME TsInv PROVE TaskStoreTypeOK /\ FileLogCoversDags
  OBVIOUS
<1>0. TsTypes /\ LogInv
  BY DEF TsInv
<1>1. tsDone \in BOOLEAN
  BY Zenon DEF TsInv
<1>2. \A k \in DOMAIN tsLog : tsLog[k] \in [root : StoreRoot, progress : 1..MaxProgress]
  <2>1. tsLog \in Seq(TsEvent)
    BY <1>0 DEF TsTypes
  <2>2. \A k \in DOMAIN tsLog : tsLog[k] \in TsEvent
    BY <2>1
  <2> QED BY <2>2 DEF TsEvent
<1>3. tsFile.dags \in [StoreRoot -> Absent..MaxProgress] /\ tsWriter.call \in {"none", "create", "enable", "load"}
      /\ \A s \in Saves : tsSaver[s].step \in {"idle", "copying", "writing"}
  BY <1>0 DEF TsTypes, TsState
<1>4. TaskStoreTypeOK
  BY <1>0, <1>1, <1>2, <1>3, Zenon DEF TsTypes, TaskStoreTypeOK
<1>5. FileLogCoversDags
  BY <1>0 DEF LogInv, Covers, Logged, EventOf, FileLogCoversDags
<1> QED BY <1>4, <1>5

\* No work is lost, doubled or torn in the microtask manager's types, the saved
\* DAGs, the agent, the trainer and the connectors' jobs, whoever saves, stops,
\* polls or starts beside it: the invariant of each component is kept by its own
\* steps and untouched by the others'.
THEOREM WorkKeptAlways == ServicesSpec => []WorkKept
<1> DEFINE Inv == TypeInv /\ TsInv /\ AgInv /\ TrainInv /\ AsyncInv
<1>1. ServicesInit => Inv
  BY TypeInit, TaskStoreInitInv, AgentInitInv, TrainInitInv, AsyncInitInv DEF ServicesInit
<1>2. Inv /\ [ServicesNext]_servicesVars => Inv'
  <2> SUFFICES ASSUME Inv, [ServicesNext]_servicesVars PROVE Inv'
    OBVIOUS
  <2>1. TypeInv' /\ TsInv'
    BY ServicesStep, TypeStep, TaskStoreStep
  <2>2. AgInv' /\ TrainInv' /\ AsyncInv'
    BY ServicesStep, AgentStep, TrainStep, AsyncStep
  <2> QED BY <2>1, <2>2
<1>3. Inv => WorkKept
  <2> SUFFICES ASSUME Inv PROVE WorkKept
    OBVIOUS
  <2>1. TypeOK
    BY DEF TypeInv
  <2> QED BY <2>1, TaskStoreHolds, AgentHolds, TrainHolds, AsyncHolds, Zenon DEF WorkKept
<1> QED BY <1>1, <1>2, <1>3, PTL DEF ServicesSpec

=============================================================================
