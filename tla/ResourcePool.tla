---------------------------- MODULE ResourcePool ----------------------------
(***************************************************************************)
(* ResourcePool of aggregation/resource_pool.go: nodes, reservations, the  *)
(* two halves of Allocate around the policy's choice, the allocator that   *)
(* works through the pending queue, rebalancing and deadlines.             *)
(*                                                                         *)
(* snapshotForExplain takes rp.Mu for reading.  Every operation that calls *)
(* it with rp.Mu locked stays there: poolBlocked says that one has, and    *)
(* nothing that needs the mutex happens after it.  Each operation is       *)
(* modelled with what it has changed by then.                              *)
(*                                                                         *)
(* Nodes and Reserves are exported: the pool starts with what its user has *)
(* put there.  One type of resource; which candidate a policy scores best  *)
(* is its own affair.                                                      *)
(***************************************************************************)
EXTENDS Naturals, Sequences, FiniteSets, Functions, SequencesExt

CONSTANTS PoolNode, PoolReq, PoolCall,
          PoolCapacity,        \* what a new node offers
          Demand,              \* [PoolReq -> amount]
          Affine,              \* [PoolReq -> nodes its (anti-)affinity allows]
          SoftReq, DueReq      \* reservations that are soft, near their deadline

ASSUME PoolAssumption ==
  /\ PoolCapacity \in Nat
  /\ Demand \in [PoolReq -> Nat \ {0}]
  /\ Affine \in [PoolReq -> SUBSET PoolNode]
  /\ SoftReq \subseteq PoolReq /\ DueReq \subseteq PoolReq
  /\ IsFiniteSet(PoolReq) /\ "none" \notin PoolNode

VARIABLES
  poolNodes,   \* present nodes
  online,      \* nodes whose status is online
  freeOf, allocatedOf,   \* [PoolNode -> Resources], [PoolNode -> Allocated]
  reserves,    \* [reservation -> NodeID, or "none" where Allocate left it empty]
  pendingQueue,
  poolPolicy,  \* the policy that requests name is in rp.Policies
  forecast,    \* a forecast hook is set
  poolBlocked,
  poolPc, poolReq, poolPick,  \* [PoolCall -> place, request, the policy's node]
  batch, left, allocPick,     \* processPendingOnce: queue, remaining, the node
  allocPc,
  answered,    \* history: [PoolReq -> "no", "queued", "error"]
  bookedAt,    \* history: [PoolReq -> node a nameless reservation is charged to]
  renewed      \* history: nodes added anew or given other resources

poolLedger == <<poolNodes, online, freeOf, allocatedOf, reserves, bookedAt, renewed>>
poolCalls == <<poolPc, poolReq, poolPick, answered>>
poolAllocator == <<batch, left, allocPick, allocPc>>
poolHooks == <<poolPolicy, forecast>>
rpVars == <<poolLedger, pendingQueue, poolHooks, poolBlocked, poolCalls, poolAllocator>>

PoolGoto(c, place) == poolPc' = [poolPc EXCEPT ![c] = place]
PoolReturns(c, r, answer) ==
  /\ PoolGoto(c, "idle")
  /\ answered' = [answered EXCEPT ![r] = answer]
  /\ poolPick' = [poolPick EXCEPT ![c] = "none"] /\ UNCHANGED poolReq

PoolInit ==
  /\ poolNodes \in SUBSET PoolNode /\ online \in SUBSET poolNodes
  /\ reserves = <<>>
  /\ freeOf = [n \in PoolNode |-> PoolCapacity] /\ allocatedOf = [n \in PoolNode |-> 0]
  /\ pendingQueue = <<>> /\ batch = <<>> /\ left = <<>> /\ allocPick = "none" /\ allocPc = "idle"
  /\ poolPolicy \in BOOLEAN /\ forecast \in BOOLEAN /\ poolBlocked = FALSE
  /\ poolPc = [c \in PoolCall |-> "idle"] /\ poolReq = [c \in PoolCall |-> "none"]
  /\ poolPick = [c \in PoolCall |-> "none"]
  /\ answered = [r \in PoolReq |-> "no"] /\ bookedAt = [r \in PoolReq |-> "none"]
  /\ renewed = {}

\* The reservations with r among them, under the name of n.
With(r, n) == [q \in DOMAIN reserves \cup {r} |-> IF q = r THEN n ELSE reserves[q]]

\* What the user of the pool fills in before it serves: a reservation of his
\* that is charged to its node.
Prefill(r, n) ==
  /\ answered[r] = "no" /\ \A c \in PoolCall : poolPc[c] = "idle"
  /\ \A q \in PoolReq : answered[q] \in {"no", "given"}
  /\ n \in poolNodes /\ freeOf[n] >= Demand[r] /\ ~poolBlocked /\ n \notin renewed
  /\ reserves' = With(r, n)
  /\ freeOf' = [freeOf EXCEPT ![n] = @ - Demand[r]]
  /\ allocatedOf' = [allocatedOf EXCEPT ![n] = @ + Demand[r]]
  /\ answered' = [answered EXCEPT ![r] = "given"]
  /\ UNCHANGED <<poolNodes, online, bookedAt, renewed, pendingQueue, poolHooks, poolBlocked,
                 poolPc, poolReq, poolPick, poolAllocator>>
-----------------------------------------------------------------------------
MatchesAffinity(n, r) == n \in Affine[r]

Capable(n, r) == n \in online /\ freeOf[n] >= Demand[r]

\* DefaultFairSharePolicy, CostAwarePolicy and ExprPolicy choose among these.
PoolCandidates(r) == {n \in poolNodes : Capable(n, r) /\ MatchesAffinity(n, r)}

Charge(n, r) ==
  /\ freeOf' = [freeOf EXCEPT ![n] = @ - Demand[r]]
  /\ allocatedOf' = [allocatedOf EXCEPT ![n] = @ + Demand[r]]

NotServed(c, r) ==
  \/ r \in SoftReq /\ pendingQueue' = Append(pendingQueue, r) /\ PoolReturns(c, r, "queued")
  \/ r \notin SoftReq /\ UNCHANGED pendingQueue /\ PoolReturns(c, r, "error")

\* Up to the unlock before the policy is asked.
Allocate(c, r) ==
  /\ ~poolBlocked /\ poolPc[c] = "idle" /\ answered[r] = "no"
  /\ \A d \in PoolCall : poolPc[d] # "idle" => poolReq[d] # r
  /\ IF ~poolPolicy \/ PoolCandidates(r) = {}
     THEN NotServed(c, r)
     ELSE /\ PoolGoto(c, "decide") /\ poolReq' = [poolReq EXCEPT ![c] = r]
          /\ UNCHANGED <<pendingQueue, poolPick, answered>>
  /\ UNCHANGED <<poolLedger, poolHooks, poolBlocked, poolAllocator>>

\* localPolicy.Allocate; the policy may have been removed since.
DecideNode(c) ==
  /\ ~poolBlocked /\ poolPc[c] = "decide"
  /\ \/ \E n \in PoolCandidates(poolReq[c]) :
          /\ poolPick' = [poolPick EXCEPT ![c] = n]
          /\ PoolGoto(c, "book")
     \/ /\ PoolCandidates(poolReq[c]) = {}
        /\ PoolGoto(c, "refused") /\ UNCHANGED poolPick
  /\ UNCHANGED <<poolLedger, pendingQueue, poolHooks, poolBlocked, poolReq, answered,
                 poolAllocator>>

PolicyFailed(c) ==
  /\ ~poolBlocked /\ poolPc[c] = "refused"
  /\ NotServed(c, poolReq[c])
  /\ UNCHANGED <<poolLedger, poolHooks, poolBlocked, poolAllocator>>

\* A request whose node has gone is refused, soft or not.
NodeDisappeared(c) ==
  /\ ~poolBlocked /\ poolPc[c] = "book" /\ poolPick[c] \notin poolNodes
  /\ PoolReturns(c, poolReq[c], "error")
  /\ UNCHANGED <<poolLedger, pendingQueue, poolHooks, poolBlocked, poolAllocator>>

\* The booking itself leaves NodeID as the caller gave it, and then sticks; with
\* a forecast hook, or too little left, nothing has been booked by then.
Book(c) ==
  LET r == poolReq[c]
      n == poolPick[c] IN
  /\ ~poolBlocked /\ poolPc[c] = "book" /\ n \in poolNodes
  /\ poolBlocked' = TRUE /\ PoolGoto(c, "stuck")
  /\ IF forecast \/ freeOf[n] < Demand[r]
     THEN UNCHANGED <<freeOf, allocatedOf, reserves, bookedAt>>
     ELSE /\ Charge(n, r)
          /\ reserves' = With(r, "none")
          /\ bookedAt' = [bookedAt EXCEPT ![r] = n]
  /\ UNCHANGED <<poolNodes, online, renewed, pendingQueue, poolHooks, poolReq, poolPick,
                 answered, poolAllocator>>
-----------------------------------------------------------------------------
Without(r) == [q \in DOMAIN reserves \ {r} |-> reserves[q]]

\* Faulty variant: a reservation gives nothing back to a node that is not online.
ReturnedOnline(n, r) ==
  LET back == IF n \in online THEN Demand[r] ELSE 0 IN
  /\ freeOf' = [freeOf EXCEPT ![n] = @ + back]
  /\ allocatedOf' = [allocatedOf EXCEPT ![n] = @ - back]

Returned(n, r) ==
  LET back == IF n \in poolNodes THEN Demand[r] ELSE 0 IN
  /\ freeOf' = [freeOf EXCEPT ![n] = @ + back]
  /\ allocatedOf' = [allocatedOf EXCEPT ![n] = IF @ > back THEN @ - back ELSE 0]

\* FreeMany sticks at its first reservation.
Free(r) ==
  /\ ~poolBlocked /\ r \in DOMAIN reserves
  /\ Returned(reserves[r], r)
  /\ reserves' = Without(r)
  /\ poolBlocked' = TRUE
  /\ UNCHANGED <<poolNodes, online, bookedAt, renewed, pendingQueue, poolHooks, poolCalls,
                 poolAllocator>>

\* The source gets its amount back where it still is in the pool.
Move(r, n) ==
  LET src == reserves[r]
      back == IF src \in poolNodes THEN Demand[r] ELSE 0 IN
  /\ freeOf' = [m \in PoolNode |-> IF m = n THEN freeOf[m] - Demand[r]
                                   ELSE IF m = src THEN freeOf[m] + back ELSE freeOf[m]]
  /\ allocatedOf' = [m \in PoolNode |-> IF m = n THEN allocatedOf[m] + Demand[r]
                                        ELSE IF m # src THEN allocatedOf[m]
                                        ELSE IF allocatedOf[m] > back THEN allocatedOf[m] - back ELSE 0]
  /\ reserves' = [reserves EXCEPT ![r] = n]
  /\ poolBlocked' = TRUE
  /\ UNCHANGED <<poolNodes, online, bookedAt, renewed, pendingQueue, poolHooks, poolCalls,
                 poolAllocator>>

\* At four fifths of its capacity.
Overloaded(n) ==
  n \in poolNodes /\ allocatedOf[n] > 0 /\ 5 * allocatedOf[n] >= 4 * (freeOf[n] + allocatedOf[n])

Rebalance ==
  /\ ~poolBlocked
  /\ \E r \in DOMAIN reserves \cap SoftReq :
       /\ Overloaded(reserves[r])
       /\ \E n \in PoolCandidates(r) \ {reserves[r]} : Move(r, n)

\* Affinity does not count here.
EnforceDeadlines ==
  /\ ~poolBlocked
  /\ \E r \in DOMAIN reserves \cap DueReq, n \in poolNodes :
       n # reserves[r] /\ Capable(n, r) /\ Move(r, n)
-----------------------------------------------------------------------------
\* The node that AddNode is given is a new one, with nothing allocated.
AddPoolNode(n) ==
  /\ ~poolBlocked
  /\ poolNodes' = poolNodes \cup {n} /\ online' = online \cup {n}
  /\ freeOf' = [freeOf EXCEPT ![n] = PoolCapacity]
  /\ allocatedOf' = [allocatedOf EXCEPT ![n] = 0]
  /\ renewed' = renewed \cup {n}
  /\ poolBlocked' = TRUE
  /\ UNCHANGED <<reserves, bookedAt, pendingQueue, poolHooks, poolCalls, poolAllocator>>

\* Its reservations stay.
RemoveNode(n) ==
  /\ ~poolBlocked /\ n \in poolNodes
  /\ poolNodes' = poolNodes \ {n} /\ online' = online \ {n}
  /\ UNCHANGED <<freeOf, allocatedOf, reserves, bookedAt, renewed, pendingQueue, poolHooks,
                 poolBlocked, poolCalls, poolAllocator>>

\* UpdateNodeStatus, the health check and CheckAndRepair.
UpdateNodeStatus(n) ==
  /\ ~poolBlocked /\ n \in poolNodes
  /\ online' \in {online \cup {n}, online \ {n}}
  /\ poolBlocked' = TRUE
  /\ UNCHANGED <<poolNodes, freeOf, allocatedOf, reserves, bookedAt, renewed, pendingQueue,
                 poolHooks, poolCalls, poolAllocator>>

UpdateNodeResources(n, amount) ==
  /\ ~poolBlocked /\ n \in poolNodes
  /\ freeOf' = [freeOf EXCEPT ![n] = amount]
  /\ renewed' = renewed \cup {n}
  /\ poolBlocked' = TRUE
  /\ UNCHANGED <<poolNodes, online, allocatedOf, reserves, bookedAt, pendingQueue, poolHooks,
                 poolCalls, poolAllocator>>

InjectOrRemovePolicy ==
  /\ ~poolBlocked
  /\ poolPolicy' = ~poolPolicy
  /\ UNCHANGED <<poolLedger, pendingQueue, forecast, poolBlocked, poolCalls, poolAllocator>>

SetForecastHook ==
  /\ ~poolBlocked
  /\ forecast' = ~forecast
  /\ UNCHANGED <<poolLedger, pendingQueue, poolPolicy, poolBlocked, poolCalls, poolAllocator>>
-----------------------------------------------------------------------------
TakePending ==
  /\ ~poolBlocked /\ allocPc = "idle" /\ pendingQueue # <<>>
  /\ batch' = pendingQueue /\ left' = <<>> /\ pendingQueue' = <<>>
  /\ allocPc' = "each"
  /\ UNCHANGED <<poolLedger, poolHooks, poolBlocked, poolCalls, allocPick>>

\* The policy chooses, or is missing, or finds no node.
DecidePending ==
  /\ ~poolBlocked /\ allocPc = "each" /\ batch # <<>>
  /\ \/ /\ poolPolicy
        /\ \E n \in PoolCandidates(Head(batch)) : allocPick' = n
        /\ allocPc' = "book" /\ UNCHANGED <<batch, left>>
     \/ /\ ~poolPolicy \/ PoolCandidates(Head(batch)) = {}
        /\ left' = Append(left, Head(batch)) /\ batch' = Tail(batch)
        /\ UNCHANGED <<allocPick, allocPc>>
  /\ UNCHANGED <<poolLedger, pendingQueue, poolHooks, poolBlocked, poolCalls>>

\* Here NodeID is filled in.
BookPending ==
  LET r == Head(batch)
      served == allocPick \in poolNodes /\ freeOf[allocPick] >= Demand[r] IN
  /\ ~poolBlocked /\ allocPc = "book"
  /\ allocPc' = "each" /\ batch' = Tail(batch) /\ allocPick' = "none"
  /\ IF served
     THEN /\ Charge(allocPick, r) /\ reserves' = With(r, allocPick)
          /\ poolBlocked' = TRUE /\ UNCHANGED left
     ELSE left' = Append(left, r) /\ UNCHANGED <<freeOf, allocatedOf, reserves, poolBlocked>>
  /\ UNCHANGED <<poolNodes, online, bookedAt, renewed, pendingQueue, poolHooks, poolCalls>>

QueueWithLeft == pendingQueue \o left

PutBack ==
  /\ ~poolBlocked /\ allocPc = "each" /\ batch = <<>>
  /\ pendingQueue' = QueueWithLeft
  /\ left' = <<>> /\ allocPc' = "idle"
  /\ UNCHANGED <<poolLedger, poolHooks, poolBlocked, poolCalls, batch, allocPick>>
-----------------------------------------------------------------------------
PoolNext ==
  \/ \E c \in PoolCall : (\E r \in PoolReq : Allocate(c, r)) \/ DecideNode(c) \/ PolicyFailed(c)
                         \/ NodeDisappeared(c) \/ Book(c)
  \/ \E r \in PoolReq : Free(r) \/ \E n \in PoolNode : Prefill(r, n)
  \/ Rebalance \/ EnforceDeadlines
  \/ \E n \in PoolNode : AddPoolNode(n) \/ RemoveNode(n) \/ UpdateNodeStatus(n)
                         \/ \E amount \in 0..PoolCapacity : UpdateNodeResources(n, amount)
  \/ InjectOrRemovePolicy \/ SetForecastHook
  \/ TakePending \/ DecidePending \/ BookPending \/ PutBack

PoolSpec == PoolInit /\ [][PoolNext]_rpVars
-----------------------------------------------------------------------------
PoolTypeOK ==
  /\ online \subseteq poolNodes /\ poolNodes \subseteq PoolNode
  /\ \A n \in PoolNode : freeOf[n] \in Nat /\ allocatedOf[n] \in Nat
  /\ DOMAIN reserves \subseteq PoolReq
  /\ \A r \in DOMAIN reserves : reserves[r] \in PoolNode \cup {"none"}
  /\ \A q \in {pendingQueue, batch, left} : Range(q) \subseteq PoolReq

At(n) == {r \in DOMAIN reserves : reserves[r] = n \/ bookedAt[r] = n}
ReservedOn(n) == [r \in PoolReq |-> IF r \in At(n) THEN Demand[r] ELSE 0]

\* What a node counts as allocated is what is reserved on it, and with the rest
\* it makes up its capacity, as long as the node is the one its reservations
\* were made on.  Allocate's own reservations do not name their node.
LedgerBalances ==
  \A n \in poolNodes \ renewed :
    /\ allocatedOf[n] = SumFunction(ReservedOn(n))
    /\ freeOf[n] + allocatedOf[n] = PoolCapacity

\* A request that was answered "request queued" is in the queue, in the
\* allocator's hands, or reserved, until somebody frees it.
QueuedStays ==
  \A r \in PoolReq : answered[r] = "queued" =>
    r \in Range(pendingQueue) \cup Range(batch) \cup Range(left) \cup DOMAIN reserves
=============================================================================
