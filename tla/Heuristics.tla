----------------------------- MODULE Heuristics -----------------------------
(* The scheduling algorithms of internal/scheduler/advanced.go: one algorithm *)
(* object, chosen at the start, used by several calls at a time.  Schedule    *)
(* takes copies of tasks and nodes, tryFallbacks a single task, and           *)
(* SimulateAlgorithm the pending tasks; the objects are the same ones, so     *)
(* what an object keeps (the index of the round, the explanations) is shared. *)
(* Nodes come from a map: their order is any order.  Scores are compared      *)
(* exactly, scaled to integers.                                               *)
EXTENDS Integers, Sequences, FiniteSets, FiniteSetsExt, SequencesExt

CONSTANTS HrCall, HrTask, HrNode,
          FreeOn,     \* what the nodes may have free: functions on HrNode
          Watts,      \* TDP of a node
          HourCost,   \* meta "cost" of a node, 1 when it has none
          HomeOf,     \* the nodes in the region of a task
          Likes,      \* the nodes the affinity of a task admits
          Needs,      \* what a task asks for
          Urgency     \* the rank of a task under a sorting algorithm

ASSUME HeuristicsAssumption ==
  /\ IsFiniteSet(HrNode) /\ HrNode # {} /\ "none" \notin HrNode /\ IsFiniteSet(HrTask)
  /\ FreeOn \subseteq [HrNode -> Nat] /\ Watts \in [HrNode -> Nat]
  /\ HourCost \in [HrNode -> Nat \ {0}]
  /\ HomeOf \in [HrTask -> SUBSET HrNode] /\ Likes \in [HrTask -> SUBSET HrNode]
  /\ Needs \in [HrTask -> Nat] /\ Urgency \in [HrTask -> Nat]

VARIABLES hrAlgo,     \* the algorithm of the object
          hrIndex,    \* RoundRobinAlgo.idx
          hrExplain,  \* lastExplain: the node the explanation of a task names
          hrAt,       \* where a call is
          hrCopy,     \* the nodes, their free capacity and the tasks of a call
          hrTodo,     \* the tasks the loop of a call has left
          hrFrom,     \* the index a call has read for its task
          hrOut,      \* the decisions of a call
          hrToldOf,   \* the explanations SimulateAlgorithm has collected
          hrAlone     \* no other call has used the object since this one began

hrVars == <<hrAlgo, hrIndex, hrExplain, hrAt, hrCopy, hrTodo, hrFrom, hrOut,
            hrToldOf, hrAlone>>

Algorithm == {"round-robin", "cost-aware", "energy-aware", "fair-share",
              "throughput", "deadline-first", "learning-hot", "learning"}
Undecided == "none"
Orders(S) == {s \in [1..Cardinality(S) -> S] : Range(s) = S}
NoCopy == [free |-> CHOOSE f \in FreeOn : TRUE, nodes |-> <<>>]
NoDecision == [t \in HrTask |-> Undecided]

-----------------------------------------------------------------------------
(* One task on a list of nodes.                                               *)

(* aggregationMatchesAffinityShim *)
Matches(t, n) == n \in Likes[t]
(* every requirement is below the resources of the node *)
HasRoomFor(t, n, free) == free[n] >= Needs[t]

Admissible(t, copy) ==
  {i \in DOMAIN copy.nodes : Matches(t, copy.nodes[i])
                             /\ HasRoomFor(t, copy.nodes[i], copy.free)}

EnergyScore(n, free) == 20 * free[n] - Watts[n]
(* what the node does not change (usage of the owner, time to the deadline)   *)
(* adds the same to every node and decides nothing                            *)
FreeScore(n, free) == free[n]
RegionScore(t, n, free) == (IF n \in HomeOf[t] THEN 10 ELSE 0) + free[n]

Score(a, t, n, free) ==
  CASE a \in {"energy-aware", "learning-hot"} -> EnergyScore(n, free)
    [] a \in {"fair-share", "throughput"} -> FreeScore(n, free)
    [] a = "deadline-first" -> RegionScore(t, n, free)

(* score > bestScore keeps the first of the best *)
FirstBest(a, t, copy) ==
  LET A == Admissible(t, copy)
      s(i) == Score(a, t, copy.nodes[i], copy.free)
  IN  {copy.nodes[i] : i \in {i \in A : \A k \in A : s(k) < s(i)
                                        \/ (s(k) = s(i) /\ i <= k)}}

(* CostAwareAlgo sorts, and the sort keeps no order among equals *)
CheapestFree(t, copy) ==
  LET A == Admissible(t, copy)
  IN  {copy.nodes[i] : i \in {i \in A : \A k \in A :
         copy.free[copy.nodes[k]] * HourCost[copy.nodes[i]]
           <= copy.free[copy.nodes[i]] * HourCost[copy.nodes[k]]}}

NodesFor(a, t, copy) ==
  IF a = "cost-aware" THEN CheapestFree(t, copy) ELSE FirstBest(a, t, copy)

\* Faulty variant: the nodes of the first task are not there for the others.
DecidedTaking(a, tasks, copy) ==
  LET first == NodesFor(a, Head(tasks), copy)
      rest == [copy EXCEPT !.nodes = SelectSeq(copy.nodes, LAMBDA n : n \notin first)]
  IN  {d \in [HrTask -> HrNode \cup {Undecided}] : \A t \in HrTask :
         LET c == IF t = Head(tasks) THEN copy ELSE rest
         IN  IF t \in Range(tasks) /\ NodesFor(a, t, c) # {}
             THEN d[t] \in NodesFor(a, t, c) ELSE d[t] = Undecided}
(* the loop over the tasks: nothing is taken from a node between two of them  *)
Decided(a, tasks, copy) ==
  {d \in [HrTask -> HrNode \cup {Undecided}] : \A t \in HrTask :
     IF t \in Range(tasks) /\ NodesFor(a, t, copy) # {}
     THEN d[t] \in NodesFor(a, t, copy) ELSE d[t] = Undecided}

(* the steps along the round, from an index, to the nodes that match *)
Found(t, from, nodes) ==
  {k \in 0..Len(nodes)-1 : Matches(t, nodes[((from + k) % Len(nodes)) + 1])}

(* LearningAlgo below the limit: a round of its own, from the first node; the *)
(* index after each task, and the nodes the tasks get                         *)
Indices(tasks, nodes) ==
  LET idx[k \in 0..Len(tasks)] ==
        IF k = 0 THEN 0
        ELSE IF Found(tasks[k], idx[k-1], nodes) = {} THEN idx[k-1]
             ELSE (idx[k-1] + 1) % Len(nodes)
  IN  idx

LearnedRound(tasks, copy) ==
  LET nodes == copy.nodes
      idx == Indices(tasks, nodes)
  IN  [t \in HrTask |->
        LET K == {k \in DOMAIN tasks : tasks[k] = t /\ Found(t, idx[k-1], nodes) # {}}
            from == idx[Min(K)-1]
        IN  IF K = {} THEN Undecided
            ELSE nodes[((from + Min(Found(t, from, nodes))) % Len(nodes)) + 1]]

(* sort.Slice of the tasks *)
Sorted(tasks) == \A i, k \in DOMAIN tasks : i < k => Urgency[tasks[i]] <= Urgency[tasks[k]]
InOrder(a, tasks) == a \in {"throughput", "deadline-first"} => Sorted(tasks)

-----------------------------------------------------------------------------
HrInit ==
  /\ hrAlgo \in Algorithm /\ hrIndex = 0
  /\ hrExplain = NoDecision
  /\ hrAt = [c \in HrCall |-> "idle"]
  /\ hrCopy = [c \in HrCall |-> NoCopy]
  /\ hrTodo = [c \in HrCall |-> <<>>]
  /\ hrFrom = [c \in HrCall |-> 0]
  /\ hrOut = [c \in HrCall |-> NoDecision]
  /\ hrToldOf = [c \in HrCall |-> NoDecision]
  /\ hrAlone = [c \in HrCall |-> TRUE]

(* a call that is not between its copy and its explanations *)
Unused(c) == hrAt[c] \in {"idle", "returned"}

HrGoto(c, place) == hrAt' = [hrAt EXCEPT ![c] = place]

(* SimulateAlgorithm copies the pending tasks and the nodes *)
HrCopy(c) ==
  /\ hrAt[c] = "idle"
  /\ \E free \in FreeOn, nodes \in Orders(HrNode), tasks \in Orders(HrTask) :
       /\ InOrder(hrAlgo, tasks)
       /\ hrCopy' = [hrCopy EXCEPT ![c] = [free |-> free, nodes |-> nodes]]
       /\ hrTodo' = [hrTodo EXCEPT ![c] = tasks]
       /\ HrGoto(c, IF hrAlgo = "round-robin" /\ tasks # <<>> THEN "read" ELSE "decide")
  /\ hrOut' = [hrOut EXCEPT ![c] = NoDecision]
  /\ hrToldOf' = [hrToldOf EXCEPT ![c] = NoDecision]
  /\ hrAlone' = [d \in HrCall |->
       IF d = c THEN \A e \in HrCall \ {c} : Unused(e) ELSE hrAlone[d] /\ Unused(d)]
  /\ UNCHANGED <<hrAlgo, hrIndex, hrExplain, hrFrom>>

(* each decision is explained under the lock of the object; a task that gets  *)
(* no node keeps the explanation of an earlier call                           *)
Explained(old, out) == [t \in HrTask |-> IF out[t] # Undecided THEN out[t] ELSE old[t]]

HrDecide(c) ==
  /\ hrAt[c] = "decide" /\ HrGoto(c, "told")
  /\ \E d \in IF hrAlgo = "learning" THEN {LearnedRound(hrTodo[c], hrCopy[c])}
              ELSE Decided(hrAlgo, hrTodo[c], hrCopy[c]) :
       /\ hrOut' = [hrOut EXCEPT ![c] = d]
       /\ hrExplain' = Explained(hrExplain, d)
  /\ hrTodo' = [hrTodo EXCEPT ![c] = <<>>]
  /\ UNCHANGED <<hrAlgo, hrIndex, hrCopy, hrFrom, hrToldOf, hrAlone>>

(* RoundRobinAlgo reads idx before it takes its lock *)
RoundRead(c) ==
  /\ hrAt[c] = "read"
  /\ hrFrom' = [hrFrom EXCEPT ![c] = hrIndex % Len(hrCopy[c].nodes)]
  /\ HrGoto(c, "write")
  /\ UNCHANGED <<hrAlgo, hrIndex, hrExplain, hrCopy, hrTodo, hrOut, hrToldOf, hrAlone>>

(* the first node of the round that matches, or the next one if none does *)
RoundAt(t, from, nodes) ==
  LET F == Found(t, from, nodes)
  IN  (IF F = {} THEN hrIndex ELSE from + Min(F)) % Len(nodes)
NextIndex(i, n) == (i + 1) % n

RoundWrite(c) ==
  /\ hrAt[c] = "write"
  /\ LET t == Head(hrTodo[c]) nodes == hrCopy[c].nodes
         i == RoundAt(t, hrFrom[c], nodes)
     IN  /\ hrIndex' = NextIndex(i, Len(nodes))
         /\ hrOut' = [hrOut EXCEPT ![c][t] = nodes[i + 1]]
         /\ hrExplain' = [hrExplain EXCEPT ![t] = nodes[i + 1]]
  /\ hrTodo' = [hrTodo EXCEPT ![c] = Tail(@)]
  /\ HrGoto(c, IF Len(hrTodo[c]) = 1 THEN "told" ELSE "read")
  /\ UNCHANGED <<hrAlgo, hrCopy, hrFrom, hrToldOf, hrAlone>>

(* ExplainDecision of every task, and the return *)
HrTold(c) ==
  /\ hrAt[c] = "told" /\ HrGoto(c, "returned")
  /\ hrToldOf' = [hrToldOf EXCEPT ![c] = hrExplain]
  /\ UNCHANGED <<hrAlgo, hrIndex, hrExplain, hrCopy, hrTodo, hrFrom, hrOut, hrAlone>>

HrAgain(c) ==
  /\ hrAt[c] = "returned" /\ HrGoto(c, "idle")
  /\ hrOut' = [hrOut EXCEPT ![c] = NoDecision]
  /\ hrToldOf' = [hrToldOf EXCEPT ![c] = NoDecision]
  /\ hrCopy' = [hrCopy EXCEPT ![c] = NoCopy]
  /\ hrFrom' = [hrFrom EXCEPT ![c] = 0]
  /\ hrAlone' = [hrAlone EXCEPT ![c] = TRUE]
  /\ UNCHANGED <<hrAlgo, hrIndex, hrExplain, hrTodo>>

HrNext ==
  \E c \in HrCall :
    HrCopy(c) \/ HrDecide(c) \/ RoundRead(c) \/ RoundWrite(c) \/ HrTold(c) \/ HrAgain(c)

HrSpec == HrInit /\ [][HrNext]_hrVars

-----------------------------------------------------------------------------
(* Types; the index of the round stays below the number of nodes. *)
HrTypeOK ==
  /\ hrAlgo \in Algorithm
  /\ hrIndex \in 0..Cardinality(HrNode)-1
  /\ hrExplain \in [HrTask -> HrNode \cup {Undecided}]
  /\ hrAt \in [HrCall -> {"idle", "decide", "read", "write", "told", "returned"}]
  /\ \A c \in HrCall : hrCopy[c] = NoCopy
                       \/ (hrCopy[c].free \in FreeOn /\ hrCopy[c].nodes \in Orders(HrNode))
  /\ hrTodo \in [HrCall -> UNION {[1..k -> HrTask] : k \in 0..Cardinality(HrTask)}]
  /\ hrFrom \in [HrCall -> 0..Cardinality(HrNode)-1]
  /\ hrOut \in [HrCall -> [HrTask -> HrNode \cup {Undecided}]]
  /\ hrToldOf \in [HrCall -> [HrTask -> HrNode \cup {Undecided}]]
  /\ hrAlone \in [HrCall -> BOOLEAN]

Done(c) == hrAt[c] \in {"told", "returned"}

(* The algorithms that look at the capacity decide for a task exactly when    *)
(* some node fits it, on a node that fits, and as they would decide for that  *)
(* task alone: the order of the tasks (priority, deadline, expected runtime)  *)
(* and what the batch already gives to a node change nothing.  tryFallbacks,  *)
(* which asks for one task, can rely on that; a batch may overbook a node.    *)
Fitting(t, free) == {n \in Likes[t] : free[n] >= Needs[t]}
DecidesAsAlone ==
  \A c \in HrCall : Done(c) /\ hrAlgo \notin {"round-robin", "learning"} =>
    \A t \in HrTask :
      IF Fitting(t, hrCopy[c].free) = {} THEN hrOut[c][t] = Undecided
      ELSE /\ hrOut[c][t] \in Fitting(t, hrCopy[c].free)
           /\ hrOut[c][t] \in NodesFor(hrAlgo, t, hrCopy[c])

(* A round-robin call that had the object to itself, with tasks that go       *)
(* anywhere, gives no node two tasks more than another.                       *)
TasksOn(out, n) == {t \in HrTask : out[t] = n}
RoundsAreEven ==
  \A c \in HrCall :
    Done(c) /\ hrAlgo = "round-robin" /\ hrAlone[c] /\ (\A t \in HrTask : Likes[t] = HrNode) =>
      \A m, n \in HrNode :
        Cardinality(TasksOn(hrOut[c], m)) <= Cardinality(TasksOn(hrOut[c], n)) + 1

(* A call that had the object to itself explains the decisions it returns,    *)
(* whatever earlier calls have left in lastExplain.                           *)
ExplainsItsDecision ==
  \A c \in HrCall : hrAt[c] = "returned" /\ hrAlone[c] =>
    \A t \in HrTask : hrOut[c][t] # Undecided => hrToldOf[c][t] = hrOut[c][t]
=============================================================================
