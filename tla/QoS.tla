-------------------------------- MODULE QoS --------------------------------
(***************************************************************************)
(* internal/qos/qos.go: policies and their token buckets, admission into   *)
(* the priority queues, the usage it adds up and the usage file.           *)
(*                                                                         *)
(* Time gives a bucket its tokens one by one, whether consume is called by *)
(* a request or by the refiller, which only calls it.  No code of the      *)
(* repository takes a task out of a queue.  One token is the unit of       *)
(* bandwidth.                                                              *)
(***************************************************************************)
EXTENDS Naturals, FiniteSets, Functions

CONSTANTS QosCall,    \* callers
          PolicyId, Owner, Level,  \* policies, what they apply to, queues
          MaxBuckets, \* bound: buckets made, one for each SetPolicy
          Bandwidth,  \* capacity and rate of a policy's bucket
          QosQueueSize,  \* capacity of a queue (1000 in the code)
          MaxGiven    \* bound: tokens the buckets are given in all

ASSUME QosAssumption ==
  /\ Bandwidth \in Nat \ {0} /\ QosQueueSize \in Nat /\ MaxBuckets \in Nat
  /\ IsFiniteSet(QosCall)

Bucket == 1..MaxBuckets

VARIABLES
  policies,   \* [PolicyId -> [to, mode]], mode "none" when there is no such policy
  bucketOf,   \* qm.buckets: [Owner -> Bucket], 0 when there is none
  tokens,     \* [Bucket -> tokens left]
  given,      \* history: [Bucket -> tokens it has had], 0 when it is not made
  madeFor,    \* history: [Bucket -> owner]
  usage,      \* [Owner -> consumed]
  queueLen,   \* [Level -> length]
  qosPc, qosArg,  \* [QosCall -> place of the call], [QosCall -> its variables]
  softSeen,   \* history: [QosCall -> a soft policy applied to the owner during the call]
  usageFile,  \* usage in the file of the day
  filesOverlap   \* history: two writers of the file have overlapped

qosBuckets == <<bucketOf, tokens, given, madeFor>>
qosFile == <<usageFile, filesOverlap>>
qosVars == <<policies, qosBuckets, usage, queueLen, qosPc, qosArg, softSeen, qosFile>>

NoUse == [o \in Owner |-> 0]
NoArg == [bucket |-> 0, to |-> "none", mode |-> "none", seen |-> "none", level |-> "none",
          req |-> 0, paid |-> FALSE, copy |-> NoUse]

QosInit ==
  /\ policies = [p \in PolicyId |-> [to |-> "none", mode |-> "none"]]
  /\ bucketOf = [o \in Owner |-> 0]
  /\ tokens = [b \in Bucket |-> 0] /\ given = [b \in Bucket |-> 0]
  /\ madeFor = [b \in Bucket |-> "none"]
  /\ usage = NoUse
  /\ queueLen = [l \in Level |-> 0]
  /\ qosPc = [c \in QosCall |-> "idle"] /\ qosArg = [c \in QosCall |-> NoArg]
  /\ softSeen = [c \in QosCall |-> FALSE]
  /\ usageFile = NoUse /\ filesOverlap = FALSE

QosGoto(c, place) == qosPc' = [qosPc EXCEPT ![c] = place]
Applies(o) == {p \in PolicyId : policies[p].mode # "none" /\ policies[p].to = o}
-----------------------------------------------------------------------------
\* The bucket of the owner starts anew, and full; then the usage is saved.
SetPolicy(c, p, o, mode, b) ==
  /\ qosPc[c] = "idle"
  /\ b = Cardinality({d \in Bucket : given[d] > 0}) + 1
  /\ policies' = [policies EXCEPT ![p] = [to |-> o, mode |-> mode]]
  /\ bucketOf' = [bucketOf EXCEPT ![o] = b]
  /\ tokens' = [tokens EXCEPT ![b] = Bandwidth]
  /\ given' = [given EXCEPT ![b] = Bandwidth]
  /\ madeFor' = [madeFor EXCEPT ![b] = o]
  /\ softSeen' = [d \in QosCall |->
                    softSeen[d] \/ (mode = "soft" /\ qosPc[d] # "idle" /\ qosArg[d].to = o)]
  /\ QosGoto(c, "copy")
  /\ UNCHANGED <<usage, queueLen, qosArg, qosFile>>

\* Drops the bucket of the owner, whatever other policies apply to it.
RemovePolicy(p) ==
  /\ policies[p].mode # "none"
  /\ bucketOf' = [bucketOf EXCEPT ![policies[p].to] = 0]
  /\ policies' = [policies EXCEPT ![p] = [to |-> "none", mode |-> "none"]]
  /\ UNCHANGED <<tokens, given, madeFor, usage, queueLen, qosPc, qosArg, softSeen, qosFile>>

\* EnqueueTaskWithQoS reads the policy it is given.
EnqueueTaskWithQoS(c, p, l, req) ==
  /\ qosPc[c] = "idle"
  /\ policies[p].mode # "none"
  /\ qosArg' = [qosArg EXCEPT ![c] = [NoArg EXCEPT !.to = policies[p].to, !.mode = policies[p].mode,
                                                   !.level = l, !.req = req]]
  /\ softSeen' = [softSeen EXCEPT ![c] =
                    \E q \in Applies(policies[p].to) : policies[q].mode = "soft"]
  /\ QosGoto(c, "check")
  /\ UNCHANGED <<policies, qosBuckets, usage, queueLen, qosFile>>

Modes(o) == IF Applies(o) = {} THEN {"none"} ELSE {policies[p].mode : p \in Applies(o)}

\* CheckAdmission reads the bucket and any policy of the owner.
CheckAdmission(c) ==
  LET o == qosArg[c].to IN
  /\ qosPc[c] = "check"
  /\ IF bucketOf[o] = 0
     THEN /\ QosGoto(c, "answer")
          /\ UNCHANGED qosArg
     ELSE /\ QosGoto(c, "consume")
          /\ \E m \in Modes(o) : qosArg' = [qosArg EXCEPT ![c].bucket = bucketOf[o], ![c].seen = m]
  /\ UNCHANGED <<policies, qosBuckets, usage, queueLen, softSeen, qosFile>>

\* consume of the bucket that was read, be it the owner's or not by now.
Consume(c) ==
  LET b == qosArg[c].bucket IN
  /\ qosPc[c] = "consume"
  /\ IF tokens[b] >= qosArg[c].req
     THEN /\ tokens' = [tokens EXCEPT ![b] = @ - qosArg[c].req]
          /\ qosArg' = [qosArg EXCEPT ![c].paid = TRUE, ![c].bucket = 0]
          /\ QosGoto(c, "count")
     ELSE /\ QosGoto(c, "answer")
          /\ qosArg' = [qosArg EXCEPT ![c].bucket = 0]
          /\ UNCHANGED tokens
  /\ UNCHANGED <<policies, bucketOf, given, madeFor, usage, queueLen, softSeen, qosFile>>

Counted(c) == [usage EXCEPT ![qosArg[c].to] = @ + qosArg[c].req]

CountUsage(c) ==
  /\ qosPc[c] = "count"
  /\ usage' = Counted(c)
  /\ QosGoto(c, "answer")
  /\ UNCHANGED <<policies, qosBuckets, queueLen, qosArg, softSeen, qosFile>>

\* Faulty variant: any policy of the owner says whether it is hard.
RefusedByOwner(c) == ~qosArg[c].paid /\ qosArg[c].seen = "hard"

\* Not admitted, by the policy CheckAdmission found, and the policy given is hard.
QosRefused(c) == ~qosArg[c].paid /\ qosArg[c].seen # "soft" /\ qosArg[c].mode = "hard"

\* Tokens a full queue turns away are gone.
QosEnqueue(c) ==
  LET l == qosArg[c].level
      refused == QosRefused(c) \/ queueLen[l] >= QosQueueSize IN
  /\ qosPc[c] = "answer"
  /\ queueLen' = IF refused THEN queueLen ELSE [queueLen EXCEPT ![l] = @ + 1]
  /\ QosGoto(c, IF refused THEN "end" ELSE "queued")
  /\ UNCHANGED <<policies, qosBuckets, usage, qosArg, softSeen, qosFile>>

\* persistUsageSnapshot: the copy, then the temporary file and its rename.
CopyUsage(c) ==
  /\ qosPc[c] = "copy"
  /\ qosArg' = [qosArg EXCEPT ![c].copy = usage]
  /\ filesOverlap' = (filesOverlap \/ \E d \in QosCall \ {c} : qosPc[d] = "rename")
  /\ QosGoto(c, "rename")
  /\ UNCHANGED <<policies, qosBuckets, usage, queueLen, softSeen, usageFile>>

Copied(c) == qosArg[c].copy

RenameUsage(c) ==
  /\ qosPc[c] = "rename"
  /\ usageFile' = Copied(c)
  /\ QosGoto(c, "end")
  /\ UNCHANGED <<policies, qosBuckets, usage, queueLen, qosArg, softSeen, filesOverlap>>

\* A call that is over, or fails to write the file.
QosReturn(c) ==
  /\ qosPc[c] \in {"end", "queued", "rename"}
  /\ QosGoto(c, "idle")
  /\ qosArg' = [qosArg EXCEPT ![c] = NoArg]
  /\ softSeen' = [softSeen EXCEPT ![c] = FALSE]
  /\ UNCHANGED <<policies, qosBuckets, usage, queueLen, qosFile>>

TimePasses(b) ==
  /\ given[b] > 0
  /\ SumFunction(given) < MaxGiven
  /\ tokens[b] < Bandwidth
  /\ tokens' = [tokens EXCEPT ![b] = @ + 1]
  /\ given' = [given EXCEPT ![b] = @ + 1]
  /\ UNCHANGED <<policies, bucketOf, madeFor, usage, queueLen, qosPc, qosArg, softSeen,
                 qosFile>>
-----------------------------------------------------------------------------
QosNext ==
  \/ \E c \in QosCall :
       \/ \E p \in PolicyId, o \in Owner, mode \in {"soft", "hard"}, b \in Bucket :
            SetPolicy(c, p, o, mode, b)
       \/ \E p \in PolicyId, l \in Level, req \in 1..Bandwidth : EnqueueTaskWithQoS(c, p, l, req)
       \/ CheckAdmission(c) \/ Consume(c) \/ CountUsage(c) \/ QosEnqueue(c)
       \/ CopyUsage(c) \/ RenameUsage(c) \/ QosReturn(c)
  \/ \E p \in PolicyId : RemovePolicy(p)
  \/ \E b \in Bucket : TimePasses(b)

QosSpec == QosInit /\ [][QosNext]_qosVars
-----------------------------------------------------------------------------
QosTypeOK ==
  /\ policies \in [PolicyId -> [to : Owner \cup {"none"}, mode : {"none", "soft", "hard"}]]
  /\ bucketOf \in [Owner -> Bucket \cup {0}]
  /\ tokens \in [Bucket -> 0..Bandwidth]
  /\ queueLen \in [Level -> 0..QosQueueSize]
  /\ usage \in [Owner -> Nat] /\ usageFile \in [Owner -> Nat]
  /\ qosPc \in [QosCall -> {"idle", "copy", "rename", "check", "consume", "count", "answer",
                            "queued", "end"}]

\* The usage of an owner and what calls have taken and not yet counted are the
\* tokens its buckets gave away, the replaced ones included.
TakenFrom(o) == [c \in QosCall |-> IF qosPc[c] = "count" /\ qosArg[c].to = o THEN qosArg[c].req ELSE 0]
GivenAway(o) == [b \in Bucket |-> IF madeFor[b] = o THEN given[b] - tokens[b] ELSE 0]
UsageIsConsumption ==
  \A o \in Owner : usage[o] + SumFunction(TakenFrom(o)) = SumFunction(GivenAway(o))

\* A hard policy lets a task in only against tokens, unless a soft policy applied
\* to the same owner at some time of the call.
HardPaid ==
  \A c \in QosCall : qosPc[c] = "queued" /\ qosArg[c].mode = "hard" => qosArg[c].paid \/ softSeen[c]

\* "atomic": while its writers do not overlap, the file never goes back.
UsageFileForward ==
  filesOverlap \/ \A o \in Owner : usageFile'[o] >= usageFile[o]
=============================================================================
