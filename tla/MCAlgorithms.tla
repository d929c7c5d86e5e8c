--------------------------- MODULE MCAlgorithms -----------------------------
(* What decides and computes: microtasks, scheduling heuristics, the simulator *)
(* and its jobs, numeric features, the resource pool and account quotas.     *)
(* They share no state: algorithmPart tells which of them a behaviour is of, *)
(* and the others stay where they start.                                     *)
EXTENDS MicroTask, Heuristics, Quantum, CfeFeatures, ResourcePool, SRM

CONSTANTS ha, hb, ht1, ht2, q1, q2, q3

VARIABLE algorithmPart   \* the component that runs

MCFreeOn ==
  {[n \in HrNode |-> IF n = ha THEN 2 ELSE 1], [n \in HrNode |-> IF n = hb THEN 2 ELSE 0]}
MCWatts == [n \in HrNode |-> IF n = ha THEN 30 ELSE 1]
MCHourCost == [n \in HrNode |-> IF n = ha THEN 2 ELSE 1]
MCHomeOf == [t \in HrTask |-> IF t = ht1 THEN {hb} ELSE {}]
MCLikes == [t \in HrTask |-> HrNode]
MCNeeds == [t \in HrTask |-> IF t = ht2 THEN 2 ELSE 1]
MCUrgency == [t \in HrTask |-> IF t = ht2 THEN 1 ELSE 2]
MCNumbers == -40..140
MCDemand == q1 :> 4 @@ q2 :> 4 @@ q3 :> 2
MCAffine == q1 :> PoolNode @@ q2 :> PoolNode @@ q3 :> PoolNode

AlgorithmParts == {"microtask", "heuristics", "vector", "quantum", "features", "pool", "srm"}
algorithmsVars == <<algorithmPart, vars, hrVars, svVars, qjVars, cfVars, rpVars, srmVars>>

AlgorithmsInit ==
  /\ algorithmPart \in AlgorithmParts
  /\ Init
  /\ HrInit /\ (algorithmPart # "heuristics" => hrAlgo = CHOOSE a \in Algorithm : TRUE)
  /\ SvInit /\ (algorithmPart # "vector" => svBuilt = "anyone" /\ svSize = 1)
  /\ QjInit
  /\ CfeInit /\ (algorithmPart # "features" => cfNumber = 0)
  /\ PoolInit /\ (algorithmPart # "pool" => poolNodes = {} /\ ~poolPolicy /\ ~forecast)
  /\ SrmInit

OtherAlgorithms(p) ==
  /\ p # "microtask" => UNCHANGED vars
  /\ p # "heuristics" => UNCHANGED hrVars
  /\ p # "vector" => UNCHANGED svVars
  /\ p # "quantum" => UNCHANGED qjVars
  /\ p # "features" => UNCHANGED cfVars
  /\ p # "pool" => UNCHANGED rpVars
  /\ p # "srm" => UNCHANGED srmVars

AlgorithmsNext ==
  /\ algorithmPart' = algorithmPart
  /\ \/ algorithmPart = "microtask" /\ Next /\ OtherAlgorithms("microtask")
     \/ algorithmPart = "heuristics" /\ HrNext /\ OtherAlgorithms("heuristics")
     \/ algorithmPart = "vector" /\ SvNext /\ OtherAlgorithms("vector")
     \/ algorithmPart = "quantum" /\ QjNext /\ OtherAlgorithms("quantum")
     \/ algorithmPart = "features" /\ CfeNext /\ OtherAlgorithms("features")
     \/ algorithmPart = "pool" /\ PoolNext /\ OtherAlgorithms("pool")
     \/ algorithmPart = "srm" /\ SrmNext /\ OtherAlgorithms("srm")
AlgorithmsSpec == AlgorithmsInit /\ [][AlgorithmsNext]_algorithmsVars

\* What the scheduling algorithms decide: on fitting nodes as for one task alone,
\* in even rounds, each with its explanation; and what becomes of the simulator's
\* jobs: they are settled, and a late poll shows the result.
DecisionsRight ==
  /\ algorithmPart = "microtask" => TypeOK
  /\ algorithmPart = "heuristics" => HrTypeOK /\ DecidesAsAlone /\ RoundsAreEven /\ ExplainsItsDecision
  /\ algorithmPart = "quantum" => QjTypeOK /\ LatePollHasResult /\ EndedIsSettled

\* What is computed: the states of the simulator, the integer features of a number,
\* and, for a call of the account resources, whether it has a step.
ComputationsRight ==
  /\ algorithmPart = "vector" => SvTypeOK /\ NormKept /\ QftIsFourier /\ SwapIsThreeCnots /\ ShotsHaveWeight
  /\ algorithmPart = "features" => CfeTypeOK /\ BitsAreNumber /\ DigitsCounted
  /\ algorithmPart = "features" => ChunksRebuild /\ CandidatesComplete
  /\ algorithmPart = "srm" => WaitsForLocksOnly

\* Reservations and what is left add up, in the pool's ledger and in the accounts'
\* quotas, and a queued request is kept.
ReservationsHold ==
  /\ algorithmPart = "pool" => PoolTypeOK /\ LedgerBalances /\ QueuedStays
  /\ algorithmPart = "srm" => SrmTypeOK /\ WithinQuota /\ OfferHolds

\* An account call can go on, unless a refill and a reservation wait for each other.
AccountCallsGoOn == algorithmPart = "srm" => SomeCallGoesOn
=============================================================================
