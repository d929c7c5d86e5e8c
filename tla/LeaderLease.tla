---------------------------- MODULE LeaderLease ----------------------------
(***************************************************************************)
(* RedisLeaderElector of scaling/predictive_scaling.go: replicas that      *)
(* share one key with a time to live.  Acquire sets the key if there is    *)
(* none and starts a renewer; the renewer reads the key at each tick and   *)
(* extends it, or drops its replica's flag; Release deletes the key if it  *)
(* is the replica's.  A replica may be slow: a key expires whenever no     *)
(* renewer has just extended it.                                           *)
(***************************************************************************)
EXTENDS Naturals

CONSTANTS Replica,
          Generations   \* bound: how often a replica acquires the key

ASSUME LeaseAssumption == Generations \in Nat /\ "none" \notin Replica

VARIABLES
  redisKey,    \* the owner, or "none"
  leaderFlag,  \* [Replica -> isLeader]
  acquiring,   \* [Replica -> "no", "set": the key is set, the flag is not]
  acquired,    \* [Replica -> acquisitions so far]
  renewer,     \* [Replica -> [1..Generations -> place]]
  canceled,    \* [Replica -> generations whose context is canceled]
  expiredFor   \* history: replicas whose key has gone under them

leaseVars == <<redisKey, leaderFlag, acquiring, acquired, renewer, canceled, expiredFor>>

LeaseInit ==
  /\ redisKey = "none"
  /\ leaderFlag = [r \in Replica |-> FALSE]
  /\ acquiring = [r \in Replica |-> "no"]
  /\ acquired = [r \in Replica |-> 0]
  /\ renewer = [r \in Replica |-> [g \in 1..Generations |-> "none"]]
  /\ canceled = [r \in Replica |-> {}]
  /\ expiredFor = {}

RenewerTo(r, g, place) == renewer' = [renewer EXCEPT ![r][g] = place]
-----------------------------------------------------------------------------
\* SetNX under lockMu; a replica whose own key is still there gets "no" as well.
Acquire(r) ==
  /\ acquiring[r] = "no" /\ acquired[r] < Generations
  /\ redisKey = "none"
  /\ redisKey' = r
  /\ acquiring' = [acquiring EXCEPT ![r] = "set"]
  /\ expiredFor' = expiredFor \ {r}
  /\ UNCHANGED <<leaderFlag, acquired, renewer, canceled>>

BecomeLeader(r) ==
  /\ acquiring[r] = "set"
  /\ acquiring' = [acquiring EXCEPT ![r] = "no"]
  /\ acquired' = [acquired EXCEPT ![r] = @ + 1]
  /\ leaderFlag' = [leaderFlag EXCEPT ![r] = TRUE]
  /\ RenewerTo(r, acquired[r] + 1, "wait")
  /\ UNCHANGED <<redisKey, canceled, expiredFor>>

Deleted(r) == IF redisKey = r THEN "none" ELSE redisKey

\* Cancels the last context only.
ReleaseLease(r) ==
  /\ acquiring[r] = "no" /\ acquired[r] > 0
  /\ canceled' = [canceled EXCEPT ![r] = @ \cup {acquired[r]}]
  /\ redisKey' = Deleted(r)
  /\ leaderFlag' = [leaderFlag EXCEPT ![r] = FALSE]
  /\ UNCHANGED <<acquiring, acquired, renewer, expiredFor>>
-----------------------------------------------------------------------------
RenewerStops(r, g) ==
  /\ renewer[r][g] = "wait" /\ g \in canceled[r]
  /\ RenewerTo(r, g, "gone")
  /\ UNCHANGED <<redisKey, leaderFlag, acquiring, acquired, canceled, expiredFor>>

\* The key, as the renewer reads it: its own, or another's, none, an error.
RenewerReads(r, g) ==
  /\ renewer[r][g] = "wait"
  /\ \/ redisKey = r /\ g \notin canceled[r] /\ RenewerTo(r, g, "extend")
     \/ /\ redisKey # r \/ g \in canceled[r]
        /\ RenewerTo(r, g, "lost")
  /\ UNCHANGED <<redisKey, leaderFlag, acquiring, acquired, canceled, expiredFor>>

\* Redis does not answer: the renewer gives up with its key still there.
ReadFails(r, g) ==
  /\ renewer[r][g] = "wait"
  /\ RenewerTo(r, g, "lost")
  /\ UNCHANGED <<redisKey, leaderFlag, acquiring, acquired, canceled, expiredFor>>

\* Expire: the key of another, if its own has gone in the meantime.
Extend(r, g) ==
  /\ renewer[r][g] = "extend"
  /\ RenewerTo(r, g, "wait")
  /\ UNCHANGED <<redisKey, leaderFlag, acquiring, acquired, canceled, expiredFor>>

AfterLoss == "gone"

DropFlag(r, g) ==
  /\ renewer[r][g] = "lost"
  /\ leaderFlag' = [leaderFlag EXCEPT ![r] = FALSE]
  /\ RenewerTo(r, g, AfterLoss)
  /\ UNCHANGED <<redisKey, acquiring, acquired, canceled, expiredFor>>

KeyExpires ==
  /\ redisKey # "none"
  /\ redisKey' = "none"
  /\ expiredFor' = expiredFor \cup {redisKey}
  /\ UNCHANGED <<leaderFlag, acquiring, acquired, renewer, canceled>>
-----------------------------------------------------------------------------
RenewerStep(r, g) ==
  RenewerStops(r, g) \/ RenewerReads(r, g) \/ Extend(r, g) \/ DropFlag(r, g)

LeaseNext ==
  \/ \E r \in Replica :
       \/ Acquire(r) \/ BecomeLeader(r) \/ ReleaseLease(r)
       \/ \E g \in 1..Generations : RenewerStep(r, g) \/ ReadFails(r, g)
  \/ KeyExpires

LeaseSpec == LeaseInit /\ [][LeaseNext]_leaseVars
-----------------------------------------------------------------------------
LeaseTypeOK ==
  /\ redisKey \in Replica \cup {"none"}
  /\ leaderFlag \in [Replica -> BOOLEAN] /\ acquiring \in [Replica -> {"no", "set"}]
  /\ acquired \in [Replica -> 0..Generations]
  /\ renewer \in [Replica -> [1..Generations -> {"none", "wait", "extend", "lost", "gone"}]]
  /\ canceled \in [Replica -> SUBSET (1..Generations)] /\ expiredFor \subseteq Replica

\* A replica that takes itself for the leader owns the key, unless the key has
\* expired under it: another's Release does not take it away.
FlagMeansKey == \A r \in Replica : leaderFlag[r] => redisKey = r \/ r \in expiredFor

\* A key whose owner no longer takes itself for the leader is left to expire: no
\* renewer extends it, unless its renewer has taken the flag of a later acquisition.
LostKeyUnrenewed ==
  \A r \in Replica :
    redisKey = r /\ ~leaderFlag[r] /\ acquired[r] = 1 =>
      renewer[r][1] \in {"lost", "gone"} \/ 1 \in canceled[r]
=============================================================================
