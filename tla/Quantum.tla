------------------------------ MODULE Quantum ------------------------------
(* The quantum-inspired simulator, internal/quantum/qsa.go: its job engine,  *)
(* and its local backend.  They share no state: the engine sees of a backend *)
(* what it answers.                                                          *)
EXTENDS Integers, Sequences, FiniteSets, FiniteSetsExt, SequencesExt

-----------------------------------------------------------------------------
(* The job engine: SubmitJob stores a job under an id made from the clock and *)
(* starts runJob, which looks the job up again, chooses a backend and stores  *)
(* what it answers; GetJob hands out a pointer to the job, which HTTPBridge   *)
(* encodes without the engine's lock.  The context of a job that came over    *)
(* HTTP ends when its handler returns.                                        *)
CONSTANTS QuantumJob,   \* the submissions
          QuantumPoll,  \* the callers of GetJob
          BigJobs,      \* the jobs with more than 20 qubits
          SampledJobs,  \* the jobs that ask for shots
          MaxInstant    \* bound on the clock of the ids

ASSUME QuantumAssumption ==
  /\ MaxInstant \in Nat \ {0} /\ "none" \notin QuantumJob
  /\ BigJobs \subseteq QuantumJob /\ SampledJobs \subseteq QuantumJob

VARIABLES qjClock,     \* the clock the ids are made from
          qjId,        \* the id of a submission, 0 before it
          qjTable,     \* m.jobs: the job an id leads to
          qjContext,   \* the context of the job: live, ended
          qjStatus, qjResult, qjBackend,
          qjAt,        \* where the goroutine of a submission is
          qjOn,        \* the job it works on
          qjBackends,  \* m.backends
          qjPollOf, qjPollAt, qjPollResult, qjPollStatus,
          qjPollLate   \* the job was settled when GetJob looked it up

qjJobs == <<qjClock, qjId, qjTable>>
qjFields == <<qjStatus, qjResult, qjBackend>>
qjRun == <<qjAt, qjOn>>
qjPolls == <<qjPollOf, qjPollAt, qjPollResult, qjPollStatus, qjPollLate>>
qjVars == <<qjJobs, qjContext, qjFields, qjRun, qjBackends, qjPolls>>

NoQuantum == "none"
Local == "local-statevector"
Surrogate == "surrogate-inproc-surrogate"
Added == "accelerator"   \* a backend a caller registers
Settled(j) == qjStatus[j] \in {"done", "failed"}

(* NewMetaQuantumEngine registers the local backend and a surrogate *)
QjInit ==
  /\ qjClock = 1 /\ qjId = [j \in QuantumJob |-> 0]
  /\ qjTable = [i \in 1..MaxInstant |-> NoQuantum]
  /\ qjContext = [j \in QuantumJob |-> "live"]
  /\ qjStatus = [j \in QuantumJob |-> "pending"]
  /\ qjResult = [j \in QuantumJob |-> NoQuantum]
  /\ qjBackend = [j \in QuantumJob |-> NoQuantum]
  /\ qjAt = [j \in QuantumJob |-> "none"] /\ qjOn = [j \in QuantumJob |-> NoQuantum]
  /\ qjBackends = {Local, Surrogate}
  /\ qjPollOf = [p \in QuantumPoll |-> NoQuantum]
  /\ qjPollAt = [p \in QuantumPoll |-> "none"]
  /\ qjPollResult = [p \in QuantumPoll |-> NoQuantum]
  /\ qjPollStatus = [p \in QuantumPoll |-> NoQuantum]
  /\ qjPollLate = [p \in QuantumPoll |-> FALSE]

-----------------------------------------------------------------------------
NanosecondPasses ==
  /\ qjClock < MaxInstant /\ qjClock' = qjClock + 1
  /\ UNCHANGED <<qjId, qjTable, qjContext, qjFields, qjRun, qjBackends, qjPolls>>

(* a second job of the same instant takes the place of the first *)
SubmitJob(j) ==
  /\ qjId[j] = 0
  /\ qjId' = [qjId EXCEPT ![j] = qjClock]
  /\ qjTable' = [qjTable EXCEPT ![qjClock] = j]
  /\ qjAt' = [qjAt EXCEPT ![j] = "begins"]
  /\ UNCHANGED <<qjClock, qjContext, qjFields, qjOn, qjBackends, qjPolls>>

(* handleSubmit has answered, or the caller gives up *)
ContextCancelled(j) ==
  /\ qjId[j] # 0 /\ qjContext[j] = "live"
  /\ qjContext' = [qjContext EXCEPT ![j] = "ended"]
  /\ UNCHANGED <<qjJobs, qjFields, qjRun, qjBackends, qjPolls>>

RegisterBackend ==
  /\ Added \notin qjBackends /\ qjBackends' = qjBackends \cup {Added}
  /\ UNCHANGED <<qjJobs, qjContext, qjFields, qjRun, qjPolls>>

-----------------------------------------------------------------------------
(* runJob *)
FindJob(j) ==
  /\ qjAt[j] = "begins"
  /\ LET o == qjTable[qjId[j]]
     IN  /\ qjOn' = [qjOn EXCEPT ![j] = o]
         /\ qjStatus' = [qjStatus EXCEPT ![o] = "running"]
  /\ qjAt' = [qjAt EXCEPT ![j] = "chooses"]
  /\ UNCHANGED <<qjJobs, qjContext, qjResult, qjBackend, qjBackends, qjPolls>>

(* a big job goes to the surrogate; chooseBackend prefers any backend but the *)
(* local one that supports the size, and the surrogate supports every size    *)
BackendChoices(o) == IF o \in BigJobs THEN {Surrogate} ELSE qjBackends \ {Local}

ChooseBackend(j) ==
  /\ qjAt[j] = "chooses"
  /\ \E b \in BackendChoices(qjOn[j]) : qjBackend' = [qjBackend EXCEPT ![qjOn[j]] = b]
  /\ qjAt' = [qjAt EXCEPT ![j] = "runs"]
  /\ UNCHANGED <<qjJobs, qjContext, qjStatus, qjResult, qjOn, qjBackends, qjPolls>>

(* The surrogate looks at no context; it samples when it is confident, and    *)
(* has no state vector.  A big job is always sampled.                         *)
CanSucceed(j) ==
  LET o == qjOn[j]
  IN  IF qjBackend[o] = Surrogate THEN o \in SampledJobs \cup BigJobs
      ELSE qjContext[j] = "live"

(* the outcome is stored under the lock *)
Kept(o, outcome) == IF outcome = "done" THEN "result" ELSE NoQuantum
Stored(outcome) == outcome

Settle(j, outcome) ==
  LET o == qjOn[j]
  IN  /\ qjAt[j] = "runs" /\ (outcome = "done" => CanSucceed(j))
      /\ qjStatus' = [qjStatus EXCEPT ![o] = Stored(outcome)]
      /\ qjResult' = [qjResult EXCEPT ![o] = IF outcome = "done" THEN Kept(o, outcome) ELSE @]
      /\ qjAt' = [qjAt EXCEPT ![j] = "ended"]
      /\ UNCHANGED <<qjJobs, qjContext, qjBackend, qjOn, qjBackends, qjPolls>>

-----------------------------------------------------------------------------
(* GetJob, and the encoding: Result comes before Status in the structure      *)
PollQuantum(p, i) ==
  /\ qjPollAt[p] = "none" /\ qjTable[i] # NoQuantum
  /\ qjPollOf' = [qjPollOf EXCEPT ![p] = qjTable[i]]
  /\ qjPollLate' = [qjPollLate EXCEPT ![p] = Settled(qjTable[i])]
  /\ qjPollAt' = [qjPollAt EXCEPT ![p] = "result"]
  /\ UNCHANGED <<qjJobs, qjContext, qjFields, qjRun, qjBackends, qjPollResult, qjPollStatus>>

EncodeResult(p) ==
  /\ qjPollAt[p] = "result"
  /\ qjPollResult' = [qjPollResult EXCEPT ![p] = qjResult[qjPollOf[p]]]
  /\ qjPollAt' = [qjPollAt EXCEPT ![p] = "status"]
  /\ UNCHANGED <<qjJobs, qjContext, qjFields, qjRun, qjBackends, qjPollOf, qjPollStatus,
                 qjPollLate>>

EncodeStatus(p) ==
  /\ qjPollAt[p] = "status"
  /\ qjPollStatus' = [qjPollStatus EXCEPT ![p] = qjStatus[qjPollOf[p]]]
  /\ qjPollAt' = [qjPollAt EXCEPT ![p] = "ended"]
  /\ UNCHANGED <<qjJobs, qjContext, qjFields, qjRun, qjBackends, qjPollOf, qjPollResult,
                 qjPollLate>>

QjNext ==
  \/ NanosecondPasses \/ RegisterBackend
  \/ \E j \in QuantumJob : SubmitJob(j) \/ ContextCancelled(j)
  \/ \E j \in QuantumJob : FindJob(j) \/ ChooseBackend(j)
                           \/ Settle(j, "done") \/ Settle(j, "failed")
  \/ \E p \in QuantumPoll : (\E i \in 1..MaxInstant : PollQuantum(p, i))
                            \/ EncodeResult(p) \/ EncodeStatus(p)

QjSpec == QjInit /\ [][QjNext]_qjVars

-----------------------------------------------------------------------------
(* Types. *)
QjTypeOK ==
  /\ qjClock \in 1..MaxInstant /\ qjId \in [QuantumJob -> 0..MaxInstant]
  /\ qjTable \in [1..MaxInstant -> QuantumJob \cup {NoQuantum}]
  /\ qjContext \in [QuantumJob -> {"live", "ended"}]
  /\ qjStatus \in [QuantumJob -> {"pending", "running", "done", "failed"}]
  /\ qjResult \in [QuantumJob -> {NoQuantum, "result"}]
  /\ qjBackend \in [QuantumJob -> {NoQuantum, Surrogate, Added}]
  /\ qjAt \in [QuantumJob -> {"none", "begins", "chooses", "runs", "ended"}]
  /\ qjOn \in [QuantumJob -> QuantumJob \cup {NoQuantum}]
  /\ qjBackends \subseteq {Local, Surrogate, Added}
  /\ qjPollAt \in [QuantumPoll -> {"none", "result", "status", "ended"}]

Alone(j) == \A k \in QuantumJob \ {j} : qjId[k] # qjId[j]

(* An answer that shows a job done has its result when the job was settled    *)
(* before GetJob looked it up (the caller who polls once more), and no other  *)
(* job was submitted at its instant.                                          *)
LatePollHasResult ==
  \A p \in QuantumPoll :
    qjPollAt[p] = "ended" /\ qjPollLate[p] /\ qjPollStatus[p] = "done" /\ Alone(qjPollOf[p])
      => qjPollResult[p] = "result"

(* A job whose goroutine has ended is settled, whatever became of its context *)
(* and its backend, unless another one took its place under the id of the     *)
(* same instant.                                                              *)
EndedIsSettled ==
  \A j \in QuantumJob : qjAt[j] = "ended" => Settled(j) \/ ~Alone(j)

-----------------------------------------------------------------------------
(* The local backend and the circuit builders: a circuit is applied gate by    *)
(* gate to the vector of amplitudes, in place, and shots are drawn from it by *)
(* a binary search.  Qubit q is bit q of an index.                            *)
(* Amplitudes are exact: <<a, b, c, d>> stands for a + b z + c z^2 + d z^3,    *)
(* z = exp(i pi / 4).  Angles are multiples of pi / 4, and the factors         *)
(* 1/sqrt(2) and 1/N of H, RX and DIFFUSION are left out and kept in svScale. *)
CONSTANTS SvSizes,    \* the sizes of the registers
          SvLength    \* how long a circuit that no builder made may be

ASSUME StateVectorAssumption == SvSizes \subseteq 1..3 /\ SvLength \in Nat

VARIABLES svSize,     \* nQubits
          svCircuit,  \* the whole circuit
          svBuilt,    \* who made it: qft, vqe, qaoa, grover, anyone
          svNext,     \* the number of the next gate
          svState,    \* the amplitudes
          svScale,    \* the square of the factor left out so far
          svAt        \* runs, done, cancelled, error, panic

svVars == <<svSize, svCircuit, svBuilt, svNext, svState, svScale, svAt>>

-----------------------------------------------------------------------------
(* Arithmetic of amplitudes.                                                  *)
Zero == <<0, 0, 0, 0>>
One == <<1, 0, 0, 0>>
Plus(u, v) == [k \in 1..4 |-> u[k] + v[k]]
Turn(u, k) ==      \* u * z^k
  LET t[m \in 0..7] == IF m = 0 THEN u
                       ELSE LET v == t[m-1] IN <<-v[4], v[1], v[2], v[3]>>
  IN  t[k % 8]
Minus(u) == Turn(u, 4)
Times(u, v) == Plus(Plus([k \in 1..4 |-> u[1] * v[k]], [k \in 1..4 |-> u[2] * Turn(v, 1)[k]]),
                    Plus([k \in 1..4 |-> u[3] * Turn(v, 2)[k]], [k \in 1..4 |-> u[4] * Turn(v, 3)[k]]))
(* |u|^2 = Weight(u) + sqrt(2) Mixed(u) *)
Weight(u) == u[1]*u[1] + u[2]*u[2] + u[3]*u[3] + u[4]*u[4]
Mixed(u) == u[1]*u[2] + u[2]*u[3] + u[3]*u[4] - u[4]*u[1]

Dim(n) == 2^n
Bit(i, q) == (i \div 2^q) % 2
SumOf(f, S) == FoldSet(LAMBDA i, a : f[i] + a, 0, S)

-----------------------------------------------------------------------------
(* The gates.  A loop over pairs {i, j} touches each pair once, so that the   *)
(* update in place is one of the whole vector.                                *)

(* applySingleQubitUnitary writes both amplitudes of a pair from copies a, b  *)
Single(s, t, M) ==
  [i \in DOMAIN s |->
     IF Bit(i, t) = 0 THEN Plus(Times(M[1][1], s[i]), Times(M[1][2], s[i + 2^t]))
     ELSE Plus(Times(M[2][1], s[i - 2^t]), Times(M[2][2], s[i]))]

Flip(i, t) == IF Bit(i, t) = 0 THEN i + 2^t ELSE i - 2^t
CNot(s, c, t) == [i \in DOMAIN s |-> IF c # t /\ Bit(i, c) = 1 THEN s[Flip(i, t)] ELSE s[i]]
CPhase(s, c, t, k) ==
  [i \in DOMAIN s |-> IF Bit(i, c) = 1 /\ Bit(i, t) = 1 THEN Turn(s[i], k) ELSE s[i]]
Swap(s, a, b) ==
  [i \in DOMAIN s |-> IF Bit(i, a) # Bit(i, b) THEN s[Flip(Flip(i, a), b)] ELSE s[i]]
(* inversionAboutMean, times N *)
Inversion(s) ==
  LET sum == [k \in 1..4 |-> SumOf([i \in DOMAIN s |-> s[i][k]], DOMAIN s)]
  IN  [i \in DOMAIN s |-> [k \in 1..4 |-> 2 * sum[k] - Cardinality(DOMAIN s) * s[i][k]]]

G(name, qubits, angle) == [name |-> name, qubits |-> qubits, angle |-> angle]

(* the matrices of the switch in RunStatevector, RX at pi/2 and RZ at 2 k pi/4 *)
MatrixOf(g) ==
  CASE g.name = "H"  -> <<<<One, One>>, <<One, Minus(One)>>>>
    [] g.name = "X"  -> <<<<Zero, One>>, <<One, Zero>>>>
    [] g.name = "Z"  -> <<<<One, Zero>>, <<Zero, Minus(One)>>>>
    [] g.name = "RX" -> <<<<One, Turn(One, 6)>>, <<Turn(One, 6), One>>>>
    [] g.name = "RZ" -> <<<<Turn(One, -g.angle), Zero>>, <<Zero, Turn(One, g.angle)>>>>

SingleGates == {"H", "X", "Z", "RX", "RZ"}
PairGates == {"CNOT", "CPHASE", "SWAP"}

(* an unknown name is a placeholder, and changes nothing *)
Applied(s, g) ==
  CASE g.name \in SingleGates -> Single(s, g.qubits[1], MatrixOf(g))
    [] g.name = "CNOT"   -> CNot(s, g.qubits[1], g.qubits[2])
    [] g.name = "CPHASE" -> CPhase(s, g.qubits[1], g.qubits[2], g.angle)
    [] g.name = "SWAP"   -> Swap(s, g.qubits[1], g.qubits[2])
    [] g.name = "DIFFUSION" -> Inversion(s)
    [] OTHER -> s
ScaleOf(g) == IF g.name \in {"H", "RX"} THEN 2
              ELSE IF g.name = "DIFFUSION" THEN Dim(svSize) * Dim(svSize) ELSE 1

(* the wrong number of qubits is an error *)
WellFormed(g) ==
  /\ g.name \in SingleGates => Len(g.qubits) = 1
  /\ g.name \in PairGates => Len(g.qubits) = 2
(* a qubit outside the register makes an index outside the vector, except     *)
(* where no index has the bit: CPHASE never, CNOT for its control             *)
Indexed(g) ==
  CASE g.name \in SingleGates -> g.qubits[1] < svSize
    [] g.name = "CNOT" -> g.qubits[2] < svSize \/ g.qubits[1] >= svSize \/ g.qubits[1] = g.qubits[2]
    [] g.name = "SWAP" -> g.qubits[1] = g.qubits[2] \/ (g.qubits[1] < svSize /\ g.qubits[2] < svSize)
                          \/ (g.qubits[1] >= svSize /\ g.qubits[2] >= svSize)
    [] OTHER -> TRUE

-----------------------------------------------------------------------------
(* The builders.  BuildQFT lets k run while j + k - 1 < n + 1: the last phase *)
(* of each qubit is controlled by a qubit that is not there.                  *)
Phases(j, n) == [k \in 1..(n - j) |-> G("CPHASE", <<j, j + k>>, 4 \div 2^k)]
EndSwaps(n) == [i \in 1..(n \div 2) |-> G("SWAP", <<i - 1, n - i>>, 0)]
BuildQFT(n) ==
  FlattenSeq([j \in 1..n |-> <<G("H", <<j - 1>>, 0)>> \o Phases(j - 1, n)]) \o EndSwaps(n)
OnEach(n, name, angle) == [i \in 1..n |-> G(name, <<i - 1>>, angle)]
BuildGroverSkeleton(n) == OnEach(n, "H", 0) \o <<G("DIFFUSION", <<>>, 0)>>
BuildQAOASkeleton(n) ==
  OnEach(n, "H", 0) \o <<G("COST_LAYER", <<>>, 0)>> \o OnEach(n, "RX", 0)
BuildVQESkeleton(n) ==
  FlattenSeq([i \in 1..n |-> <<G("RX", <<i - 1>>, 0), G("RZ", <<i - 1>>, 1)>>])
    \o [i \in 1..n-1 |-> G("CNOT", <<i - 1, i>>, 0)]

(* X on the qubits of x before the circuit: the backend starts in |0...0>     *)
Prepared(x, n) ==
  SelectSeq([q \in 1..n |-> G("X", <<q - 1>>, 0)], LAMBDA g : Bit(x, g.qubits[1]) = 1)

(* circuits nobody's builder made, with qubits up to one outside the register *)
AnyGates(n) ==
  {G(m, <<q>>, 1) : m \in SingleGates, q \in 0..n}
  \cup {G(m, <<p, q>>, 1) : m \in PairGates, p \in 0..n, q \in 0..n}
  \cup {G("DIFFUSION", <<>>, 0), G("H", <<0, 0>>, 0)}

SvInit ==
  /\ svSize \in SvSizes
  /\ svBuilt \in {"qft", "grover", "qaoa", "vqe", "anyone"}
  /\ \/ svBuilt = "qft" /\ \E x \in 0..Dim(svSize)-1 : svCircuit = Prepared(x, svSize) \o BuildQFT(svSize)
     \/ svBuilt = "grover" /\ svCircuit = BuildGroverSkeleton(svSize)
     \/ svBuilt = "qaoa" /\ svCircuit = BuildQAOASkeleton(svSize)
     \/ svBuilt = "vqe" /\ svCircuit = BuildVQESkeleton(svSize)
     \/ svBuilt = "anyone" /\ svCircuit = <<>>
  /\ svNext = 1 /\ svScale = 1 /\ svAt = "runs"
  /\ svState = [i \in 0..Dim(svSize)-1 |-> IF i = 0 THEN One ELSE Zero]

(* the caller's next gate (the vector does not depend on what comes later)    *)
GateGiven ==
  /\ svAt = "runs" /\ svBuilt = "anyone" /\ svNext = Len(svCircuit) + 1
  /\ Len(svCircuit) < SvLength
  /\ \E g \in AnyGates(svSize) : svCircuit' = Append(svCircuit, g)
  /\ UNCHANGED <<svSize, svBuilt, svNext, svState, svScale, svAt>>

ApplyGate ==
  /\ svAt = "runs" /\ svNext <= Len(svCircuit)
  /\ LET g == svCircuit[svNext]
     IN  IF ~WellFormed(g) THEN svAt' = "error" /\ UNCHANGED <<svState, svScale>>
         ELSE IF ~Indexed(g) THEN svAt' = "panic" /\ UNCHANGED <<svState, svScale>>
         ELSE /\ svAt' = "runs"
              /\ svState' = Applied(svState, g) /\ svScale' = svScale * ScaleOf(g)
  /\ svNext' = svNext + 1
  /\ UNCHANGED <<svSize, svCircuit, svBuilt>>

CircuitCancelled ==
  /\ svAt = "runs" /\ svNext <= Len(svCircuit) /\ svAt' = "cancelled"
  /\ UNCHANGED <<svSize, svCircuit, svBuilt, svNext, svState, svScale>>

CircuitDone ==
  /\ svAt = "runs" /\ svNext = Len(svCircuit) + 1 /\ svAt' = "done"
  /\ UNCHANGED <<svSize, svCircuit, svBuilt, svNext, svState, svScale>>

SvNext == GateGiven \/ ApplyGate \/ CircuitCancelled \/ CircuitDone
SvSpec == SvInit /\ [][SvNext]_svVars

-----------------------------------------------------------------------------
(* RunCircuit: the cumulative weights, and the search for p, here 0 < p < 2 * *)
(* the sum, in halves of a unit                                               *)
Cumulative(s) ==
  LET c[i \in DOMAIN s] == Weight(s[i]) + (IF i = 0 THEN 0 ELSE c[i-1]) IN c
Below(mid) == mid + 1
SampleIndex(cum, p) ==
  LET n == Cardinality(DOMAIN cum)
      f[lo \in 0..n+1, hi \in 0..n+1] ==
        IF lo >= hi THEN lo
        ELSE LET mid == (lo + hi) \div 2
             IN  IF 2 * cum[mid] < p THEN f[Below(mid), hi] ELSE f[lo, mid]
  IN  f[0, n - 1]

-----------------------------------------------------------------------------
(* Types of the run. *)
SvTypeOK ==
  /\ svSize \in SvSizes /\ svNext \in 1..Len(svCircuit)+1
  /\ DOMAIN svState = 0..Dim(svSize)-1
  /\ svAt \in {"runs", "done", "cancelled", "error", "panic"}
  /\ svScale \in Nat \ {0}

(* Every gate is unitary, whatever circuit: the norm of the vector is that of *)
(* |0...0>, after the scale that was left out.                                *)
NormKept ==
  /\ SumOf([i \in DOMAIN svState |-> Weight(svState[i])], DOMAIN svState) = svScale
  /\ SumOf([i \in DOMAIN svState |-> Mixed(svState[i])], DOMAIN svState) = 0

(* BuildQFT is the Fourier transform, qubit 0 taken as the highest digit, for *)
(* every basis state, the phases on a qubit outside the register included;    *)
(* nothing a builder makes leaves the vector.                                 *)
Reversed(x, n) == SumOf([q \in 0..n-1 |-> Bit(x, q) * 2^(n - 1 - q)], 0..n-1)
QftIsFourier ==
  /\ svBuilt # "anyone" => svAt \notin {"panic", "error"}
  /\ svBuilt = "qft" /\ svAt = "done" =>
       LET x == SumOf([q \in 0..svSize-1 |-> IF \E k \in DOMAIN svCircuit :
                          svCircuit[k] = G("X", <<q>>, 0) THEN 2^q ELSE 0], 0..svSize-1)
       IN  \A y \in DOMAIN svState :
             svState[y] = Turn(One, Reversed(x, svSize) * Reversed(y, svSize) * (8 \div Dim(svSize)))

(* SWAP is three CNOTs, on every vector a circuit reaches. *)
SwapIsThreeCnots ==
  \A a, b \in 0..svSize-1 : a # b =>
    Swap(svState, a, b) = CNot(CNot(CNot(svState, a, b), b, a), a, b)

(* A shot never shows an outcome without amplitude, and every outcome with    *)
(* amplitude is shown for some p.                                             *)
ShotsHaveWeight ==
  svAt = "done" /\ (\A i \in DOMAIN svState : Mixed(svState[i]) = 0) =>
    LET cum == Cumulative(svState)
    IN  {SampleIndex(cum, p) : p \in 1..(2 * cum[Dim(svSize)-1] - 1)}
          = {i \in DOMAIN svState : Weight(svState[i]) > 0}
=============================================================================
