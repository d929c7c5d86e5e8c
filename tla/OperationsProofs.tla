--------------------------- MODULE OperationsProofs ---------------------------
(* Proofs about components of MCOperations, for any number of replicas,      *)
(* connections, users, callers, tools, targets, registrations and calls of   *)
(* the scaler: LeaderLease, FabricConns, ToolChain, CfePlugins, Scaling,     *)
(* AIMode and Monitor by themselves, and beside the other components.        *)
EXTENDS MCOperations, FiniteSetTheorems, TLAPS

(***************************************************************************)
(* LeaderLease                                                             *)
(***************************************************************************)
\* A replica between the SetNX and the flag has a generation left for it.
RoomToAcquire == \A r \in Replica : acquiring[r] = "set" => acquired[r] < Generations

\* FlagMeansKey from the SetNX on: the key may expire before the flag is set.
AcquiredMeansKey ==
  \A r \in Replica : leaderFlag[r] \/ acquiring[r] = "set" => redisKey = r \/ r \in expiredFor

\* The renewers a replica has: one for each acquisition.
RenewersStarted ==
  \A r \in Replica, g \in 1..Generations : g > acquired[r] => renewer[r][g] = "none"

\* The flag of the first acquisition is dropped by its renewer or by Release.
FirstFlagDropped ==
  \A r \in Replica : acquired[r] = 1 /\ ~leaderFlag[r] =>
    renewer[r][1] = "gone" \/ 1 \in canceled[r]

LeaseInv ==
  /\ LeaseTypeOK /\ RoomToAcquire
  /\ AcquiredMeansKey /\ RenewersStarted /\ FirstFlagDropped

\* The initial state has the invariant.
LEMMA LeaseInitInv == LeaseInit => LeaseInv
<1> SUFFICES ASSUME LeaseInit PROVE LeaseInv
  OBVIOUS
<1>1. LeaseTypeOK /\ RoomToAcquire
  BY LeaseAssumption DEF LeaseInit, LeaseTypeOK, RoomToAcquire
<1>2. AcquiredMeansKey /\ RenewersStarted /\ FirstFlagDropped
  BY LeaseAssumption DEF LeaseInit, AcquiredMeansKey, RenewersStarted, FirstFlagDropped
<1> QED BY <1>1, <1>2 DEF LeaseInv

\* Acquire, BecomeLeader and ReleaseLease keep it.
LEMMA LeaseCall ==
  ASSUME LeaseInv, NEW r \in Replica, Acquire(r) \/ BecomeLeader(r) \/ ReleaseLease(r)
  PROVE  LeaseInv'
<1> USE LeaseAssumption DEF LeaseInv, LeaseTypeOK
<1>1. CASE Acquire(r)
  <2>1. LeaseTypeOK' /\ RoomToAcquire'
    BY <1>1 DEF Acquire, RoomToAcquire
  <2>2. AcquiredMeansKey'
    BY <1>1 DEF Acquire, AcquiredMeansKey
  <2>3. RenewersStarted' /\ FirstFlagDropped'
    BY <1>1 DEF Acquire, RenewersStarted, FirstFlagDropped
  <2> QED BY <2>1, <2>2, <2>3
<1>2. CASE BecomeLeader(r)
  <2>1. acquired[r] + 1 \in 1..Generations
    BY <1>2 DEF BecomeLeader, RoomToAcquire
  <2>2. LeaseTypeOK' /\ RoomToAcquire'
    BY <1>2, <2>1 DEF BecomeLeader, RenewerTo, RoomToAcquire
  <2>3. AcquiredMeansKey'
    BY <1>2 DEF BecomeLeader, AcquiredMeansKey
  <2>4. RenewersStarted'
    BY <1>2, <2>1 DEF BecomeLeader, RenewerTo, RenewersStarted
  <2>5. FirstFlagDropped'
    BY <1>2, <2>1 DEF BecomeLeader, RenewerTo, FirstFlagDropped
  <2> QED BY <2>2, <2>3, <2>4, <2>5
<1>3. CASE ReleaseLease(r)
  <2>1. LeaseTypeOK' /\ RoomToAcquire'
    BY <1>3 DEF ReleaseLease, Deleted, RoomToAcquire
  <2>2. AcquiredMeansKey'
    BY <1>3 DEF ReleaseLease, Deleted, AcquiredMeansKey
  <2>3. RenewersStarted' /\ FirstFlagDropped'
    BY <1>3 DEF ReleaseLease, RenewersStarted, FirstFlagDropped
  <2> QED BY <2>1, <2>2, <2>3
<1> QED BY <1>1, <1>2, <1>3

\* So do the renewers: they touch no key, and only their own replica's flag.
LEMMA LeaseRenewer ==
  ASSUME LeaseInv, NEW r \in Replica, NEW g \in 1..Generations,
         RenewerStep(r, g) \/ ReadFails(r, g)
  PROVE  LeaseInv'
<1> USE LeaseAssumption DEF LeaseInv, LeaseTypeOK
<1>1. CASE RenewerStops(r, g) \/ RenewerReads(r, g) \/ Extend(r, g) \/ ReadFails(r, g)
  <2>1. PICK place \in {"wait", "extend", "lost", "gone"} :
          /\ renewer' = [renewer EXCEPT ![r][g] = place]
          /\ renewer[r][g] \in {"wait", "extend"}
    BY <1>1 DEF RenewerStops, RenewerReads, Extend, ReadFails, RenewerTo
  <2>2. UNCHANGED <<redisKey, leaderFlag, acquiring, acquired, canceled, expiredFor>>
    BY <1>1 DEF RenewerStops, RenewerReads, Extend, ReadFails
  <2>3. LeaseTypeOK' /\ RoomToAcquire' /\ AcquiredMeansKey'
    BY <2>1, <2>2 DEF RoomToAcquire, AcquiredMeansKey
  <2>4. RenewersStarted' /\ FirstFlagDropped'
    BY <2>1, <2>2 DEF RenewersStarted, FirstFlagDropped
  <2> QED BY <2>3, <2>4
<1>2. CASE DropFlag(r, g)
  <2>1. /\ renewer[r][g] = "lost" /\ renewer' = [renewer EXCEPT ![r][g] = "gone"]
        /\ leaderFlag' = [leaderFlag EXCEPT ![r] = FALSE]
        /\ UNCHANGED <<redisKey, acquiring, acquired, canceled, expiredFor>>
    BY <1>2 DEF DropFlag, RenewerTo, AfterLoss
  <2>2. LeaseTypeOK' /\ RoomToAcquire' /\ AcquiredMeansKey'
    BY <2>1 DEF RoomToAcquire, AcquiredMeansKey
  <2>3. RenewersStarted'
    BY <2>1 DEF RenewersStarted
  <2>4. acquired[r] = 1 => g = 1
    <3>1. ~(g > acquired[r])
      BY <2>1 DEF RenewersStarted
    <3> QED BY <3>1
  <2>5. FirstFlagDropped'
    BY <2>1, <2>4 DEF FirstFlagDropped
  <2> QED BY <2>2, <2>3, <2>5
<1> QED BY <1>1, <1>2 DEF RenewerStep

\* The invariant holds in every state.
THEOREM LeaseInvariant == LeaseSpec => []LeaseInv
<1>1. LeaseInv /\ [LeaseNext]_leaseVars => LeaseInv'
  <2> SUFFICES ASSUME LeaseInv, [LeaseNext]_leaseVars PROVE LeaseInv'
    OBVIOUS
  <2>1. CASE KeyExpires
    BY <2>1 DEF KeyExpires, LeaseInv, LeaseTypeOK, RoomToAcquire, AcquiredMeansKey,
                RenewersStarted, FirstFlagDropped
  <2>2. CASE UNCHANGED leaseVars
    BY <2>2 DEF leaseVars, LeaseInv, LeaseTypeOK, RoomToAcquire, AcquiredMeansKey,
                RenewersStarted, FirstFlagDropped
  <2> QED BY <2>1, <2>2, LeaseCall, LeaseRenewer DEF LeaseNext
<1> QED BY LeaseInitInv, <1>1, PTL DEF LeaseSpec

\* A replica that takes itself for the leader (isLeader) owns the key, unless
\* the key has expired under it: no other replica's Release takes it away.
THEOREM FlagMeansKeyAlways == LeaseSpec => []FlagMeansKey
<1>1. LeaseInv => FlagMeansKey
  BY DEF LeaseInv, AcquiredMeansKey, FlagMeansKey
<1> QED BY LeaseInvariant, <1>1, PTL

\* A renewer whose replica has lost the flag of its first acquisition extends
\* the key no more: the key of a replica that is no leader is left to expire.
THEOREM LostKeyUnrenewedAlways == LeaseSpec => []LostKeyUnrenewed
<1>1. LeaseInv => LostKeyUnrenewed
  BY DEF LeaseInv, FirstFlagDropped, LostKeyUnrenewed
<1> QED BY LeaseInvariant, <1>1, PTL

(***************************************************************************)
(* FabricConns                                                             *)
(***************************************************************************)
\* A user or a closer that is under way has a dialed connection in hand.
InHand ==
  /\ \A u \in LinkUser : usePc[u] # "idle" => useOf[u] \in Link
  /\ \A k \in Closer : closePc[k] # "idle" => closeOf[k] \in Link /\ linkDialed[closeOf[k]]

\* The write lock of MarkClosed keeps the users out that saw the flag before;
\* the connection below is closed behind the flag only.
FlagBeforeInner ==
  /\ \A u \in LinkUser : usePc[u] = "inside" => ~linkClosed[useOf[u]]
  /\ \A k \in Closer : closePc[k] = "inner" => linkClosed[closeOf[k]]
  /\ \A l \in Link : innerClosed[l] => linkClosed[l]

\* Who is behind the drop of a reference has dropped the only one.
RefsDropped ==
  /\ \A k \in Closer : closePc[k] \in {"lock", "inner", "uncache", "end"} =>
                         linkRefs[closeOf[k]] = 0
  /\ \A l \in Link : ~linkDialed[l] => linkRefs[l] = 0
  /\ lastDialed # "none" => linkDialed[lastDialed]
  /\ linkCache # "none" => linkDialed[linkCache]

\* While the keeper is at it nobody else changes the cache.
KeeperHolds ==
  closePc["keeper"] # "idle" => connLock = "keeper" /\ linkCache = closeOf["keeper"]

FabricInv ==
  /\ FabricTypeOK /\ InHand
  /\ FlagBeforeInner /\ RefsDropped /\ KeeperHolds /\ LatestStaysCached

\* The initial state has the invariant.
LEMMA FabricInitInv == FabricInit => FabricInv
<1> SUFFICES ASSUME FabricInit PROVE FabricInv
  OBVIOUS
<1>1. FabricTypeOK
  <2>1. /\ linkCache \in Link \cup {"none"} /\ lastDialed \in Link \cup {"none"}
        /\ connLock \in {"none", "keeper"} /\ keeperDeletes \in BOOLEAN
    BY DEF FabricInit
  <2>2. /\ linkRefs \in [Link -> 0..1] /\ linkDialed \in [Link -> BOOLEAN]
        /\ linkClosed \in [Link -> BOOLEAN] /\ innerClosed \in [Link -> BOOLEAN]
    BY DEF FabricInit
  <2> QED BY <2>1, <2>2 DEF FabricInit, FabricTypeOK
<1>2. InHand /\ FlagBeforeInner /\ RefsDropped
  BY DEF FabricInit, InHand, FlagBeforeInner, RefsDropped
<1>3. KeeperHolds /\ LatestStaysCached
  BY DEF FabricInit, KeeperHolds, LatestStaysCached, Closer
<1> QED BY <1>1, <1>2, <1>3 DEF FabricInv

\* Dialing keeps it: the connection is a new one.
LEMMA FabricDial ==
  ASSUME FabricInv, NEW l \in Link, Dial(l)
  PROVE  FabricInv'
<1> USE FabricAssumption DEF FabricInv, FabricTypeOK, useVars, closeVars
<1>1. FabricTypeOK' /\ InHand'
  BY DEF Dial, InHand
<1>2. FlagBeforeInner'
  BY DEF Dial, FlagBeforeInner
<1>3. RefsDropped'
  BY DEF Dial, InHand, RefsDropped
<1>4. KeeperHolds' /\ LatestStaysCached'
  BY DEF Dial, KeeperHolds, LatestStaysCached, Closer
<1> QED BY <1>1, <1>2, <1>3, <1>4

\* The users keep it: they change nothing but their own place.
LEMMA FabricUse ==
  ASSUME FabricInv, NEW u \in LinkUser,
         \/ LockUse(u) \/ EnterUse(u) \/ LeaveUse(u)
         \/ \E l \in Link : CallUse(u, l)
  PROVE  FabricInv'
<1> USE FabricAssumption DEF FabricInv, FabricTypeOK, closeVars
<1>1. /\ UNCHANGED <<linkCache, connLock, lastDialed, linkRefs, linkDialed, linkClosed,
                     innerClosed, closeVars, keeperDeletes>>
      /\ \E place \in {"idle", "called", "locked", "inside"} :
           /\ UseGoto(u, place)
           /\ place = "inside" => usePc[u] = "locked" /\ ~linkClosed[useOf[u]] /\ UNCHANGED useOf
           /\ place = "locked" => usePc[u] = "called" /\ UNCHANGED useOf
           /\ place = "called" => \E l \in Link : useOf' = [useOf EXCEPT ![u] = l]
           /\ place = "idle" => useOf' = [useOf EXCEPT ![u] = "none"]
  BY DEF LockUse, EnterUse, LeaveUse, CallUse, MayEnter
<1>2. FabricTypeOK' /\ InHand'
  BY <1>1 DEF UseGoto, InHand
<1>3. FlagBeforeInner'
  BY <1>1 DEF UseGoto, InHand, FlagBeforeInner
<1>4. RefsDropped' /\ KeeperHolds' /\ LatestStaysCached'
  BY <1>1 DEF RefsDropped, KeeperHolds, LatestStaysCached
<1> QED BY <1>2, <1>3, <1>4

\* The beginnings and the ends of Close, by the dialer and by the keeper.
LEMMA FabricCloser ==
  ASSUME FabricInv,
         \/ \E l \in Link : OwnerCloses(l) \/ OwnerClosed(l)
         \/ \E deletes \in BOOLEAN : KeeperBegins(deletes)
         \/ KeeperEnds
  PROVE  FabricInv'
<1> USE FabricAssumption DEF FabricInv, FabricTypeOK, useVars, Closer, CloseGoto
<1>1. ASSUME NEW l \in Link, OwnerCloses(l) \/ OwnerClosed(l) PROVE FabricInv'
  <2>1. FabricTypeOK' /\ InHand'
    BY <1>1 DEF OwnerCloses, OwnerClosed, InHand
  <2>2. FlagBeforeInner' /\ RefsDropped'
    BY <1>1 DEF OwnerCloses, OwnerClosed, FlagBeforeInner, RefsDropped
  <2>3. KeeperHolds' /\ LatestStaysCached'
    BY <1>1 DEF OwnerCloses, OwnerClosed, KeeperHolds, LatestStaysCached
  <2> QED BY <2>1, <2>2, <2>3
<1>2. ASSUME NEW deletes \in BOOLEAN, KeeperBegins(deletes) PROVE FabricInv'
  <2>0. linkCache \in Link /\ linkDialed[linkCache]
    BY <1>2 DEF KeeperBegins, RefsDropped
  <2>1. FabricTypeOK' /\ InHand'
    BY <1>2, <2>0 DEF KeeperBegins, InHand
  <2>2. FlagBeforeInner' /\ RefsDropped'
    BY <1>2, <2>0 DEF KeeperBegins, FlagBeforeInner, RefsDropped
  <2>3. KeeperHolds' /\ LatestStaysCached'
    BY <1>2 DEF KeeperBegins, KeeperHolds, LatestStaysCached
  <2> QED BY <2>1, <2>2, <2>3
<1>3. CASE KeeperEnds
  <2>1. FabricTypeOK' /\ InHand'
    BY <1>3 DEF KeeperEnds, InHand
  <2>2. FlagBeforeInner' /\ RefsDropped'
    BY <1>3 DEF KeeperEnds, FlagBeforeInner, RefsDropped
  <2>3. KeeperHolds'
    BY <1>3 DEF KeeperEnds, KeeperHolds
  <2>4. LatestStaysCached'
    BY <1>3 DEF KeeperEnds, KeeperHolds, RefsDropped, LatestStaysCached
  <2> QED BY <2>1, <2>2, <2>3, <2>4
<1> QED BY <1>1, <1>2, <1>3

\* The steps between: a reference is dropped, the flag set under the write lock,
\* the connection below closed and the entry taken from the cache.
LEMMA FabricClose ==
  ASSUME FabricInv, NEW k \in Closer,
         DropRef(k) \/ MarkClosed(k) \/ CloseInner(k) \/ Uncache(k)
  PROVE  FabricInv'
<1> USE FabricAssumption DEF FabricInv, FabricTypeOK, useVars, CloseGoto
<1>0. closeOf[k] \in Link
  BY DEF DropRef, MarkClosed, CloseInner, Uncache, InHand
<1>1. CASE DropRef(k)
  <2>1. FabricTypeOK' /\ InHand'
    BY <1>0, <1>1 DEF DropRef, InHand
  <2>2. FlagBeforeInner'
    BY <1>0, <1>1 DEF DropRef, FlagBeforeInner
  <2>3. RefsDropped'
    BY <1>0, <1>1 DEF DropRef, RefsDropped
  <2>4. KeeperHolds' /\ LatestStaysCached'
    BY <1>0, <1>1 DEF DropRef, KeeperHolds, LatestStaysCached, Closer
  <2> QED BY <2>1, <2>2, <2>3, <2>4
<1>2. CASE MarkClosed(k)
  <2>1. FabricTypeOK' /\ InHand'
    BY <1>0, <1>2 DEF MarkClosed, InHand
  <2>2. FlagBeforeInner'
    BY <1>0, <1>2 DEF MarkClosed, Reading, FlagBeforeInner
  <2>3. RefsDropped' /\ KeeperHolds' /\ LatestStaysCached'
    BY <1>0, <1>2 DEF MarkClosed, RefsDropped, KeeperHolds, LatestStaysCached, Closer
  <2> QED BY <2>1, <2>2, <2>3
<1>3. CASE CloseInner(k)
  <2>1. FabricTypeOK' /\ InHand'
    BY <1>0, <1>3 DEF CloseInner, InHand
  <2>2. FlagBeforeInner'
    BY <1>0, <1>3 DEF CloseInner, FlagBeforeInner
  <2>3. RefsDropped' /\ KeeperHolds' /\ LatestStaysCached'
    BY <1>0, <1>3 DEF CloseInner, RefsDropped, KeeperHolds, LatestStaysCached, Closer
  <2> QED BY <2>1, <2>2, <2>3
<1>4. CASE Uncache(k)
  <2>1. FabricTypeOK' /\ InHand'
    BY <1>0, <1>4 DEF Uncache, Uncached, InHand
  <2>2. FlagBeforeInner' /\ RefsDropped'
    BY <1>0, <1>4 DEF Uncache, Uncached, FlagBeforeInner, RefsDropped
  <2>3. KeeperHolds'
    BY <1>0, <1>4 DEF Uncache, KeeperHolds, Closer
  <2>4. LatestStaysCached'
    BY <1>0, <1>4 DEF Uncache, Uncached, RefsDropped, LatestStaysCached
  <2> QED BY <2>1, <2>2, <2>3, <2>4
<1> QED BY <1>1, <1>2, <1>3, <1>4

\* The invariant holds in every state.
THEOREM FabricInvariant == FabricSpec => []FabricInv
<1>1. FabricInv /\ [FabricNext]_fabricVars => FabricInv'
  <2> SUFFICES ASSUME FabricInv, [FabricNext]_fabricVars PROVE FabricInv'
    OBVIOUS
  <2>1. CASE UNCHANGED fabricVars
    BY <2>1 DEF fabricVars, useVars, closeVars, FabricInv, FabricTypeOK, InHand,
                FlagBeforeInner, RefsDropped, KeeperHolds, LatestStaysCached
  <2>2. CASE FabricNext
    BY <2>2, FabricDial, FabricUse, FabricCloser, FabricClose DEF FabricNext
  <2> QED BY <2>1, <2>2
<1> QED BY FabricInitInv, <1>1, PTL DEF FabricSpec

\* Nobody reads from or writes to a connection below that has been closed,
\* although SendChunks and RecvChunks look at the flag before they have the lock.
THEOREM NoUseAfterCloseAlways == FabricSpec => []NoUseAfterClose
<1>1. FabricInv => NoUseAfterClose
  BY DEF FabricInv, FabricTypeOK, InHand, FlagBeforeInner, NoUseAfterClose
<1> QED BY FabricInvariant, <1>1, PTL

\* The connection dialed last is the cached one until a reference of it is
\* dropped: Close of an older one does not take it away, whoever calls it.
THEOREM LatestStaysCachedAlways == FabricSpec => []LatestStaysCached
<1>1. FabricInv => LatestStaysCached
  BY DEF FabricInv
<1> QED BY FabricInvariant, <1>1, PTL

(***************************************************************************)
(* ToolChain                                                               *)
(***************************************************************************)
Locking == {"meta", "validate", "build", "register", "search"}
Building == Locking \cup {"lock"}
Deploying == {"quota", "open", "copy", "rename"}

ToolVariables == [tool : Tool \cup {"none"}, meta : Meta \cup {0}, lock : Lock \cup {0},
                  target : Target \cup {"none"}, hour : Hour \cup {0}]

ToolTypes ==
  /\ tools \in [Tool -> Meta \cup {0}]
  /\ metaSource \in [Meta -> Source \cup {"none"}]
  /\ metaBinary \in [Meta -> Source \cup {"none"}]
  /\ madeMetas \in 0..MaxMeta
  /\ binDir \in [Tool -> SUBSET (Source \cup {"none"})]
  /\ toolLocks \in [Tool -> Lock \cup {0}]
  /\ lockOwner \in [Lock -> ToolCall \cup {"none"}]
  /\ toolPc \in [ToolCall -> {"idle", "find"} \cup Building \cup Deploying]
  /\ toolArg \in [ToolCall -> ToolVariables]
  /\ recreatedIn \in [ToolCall -> BOOLEAN]
  /\ hour \in Hour
  /\ deployCounts \in [Hour -> 0..MaxDeploy] /\ admitted \in [Hour -> Nat]
  /\ tmpFile \in [Target -> Source \cup {"none", "part"}]
  /\ targetFile \in [Target -> Source \cup {"none", "part"}]
  /\ deploysOverlap \subseteq Target

\* A build has the lock of its tool, which stays the tool's for good.
HasLock ==
  \A c \in ToolCall :
    /\ toolPc[c] \in Building \cup {"find"} => toolArg[c].tool \in Tool
    /\ toolPc[c] \in Building => /\ toolArg[c].lock = toolLocks[toolArg[c].tool]
                                 /\ toolArg[c].lock \in Lock
    /\ toolPc[c] \in Locking => lockOwner[toolArg[c].lock] = c

\* The ToolMeta of a build has been made, and while it is validated it is the
\* tool's, unless the tool was created anew.
HasMeta ==
  /\ \A t \in Tool : tools[t] <= madeMetas
  /\ \A c \in ToolCall :
       /\ toolPc[c] \in {"validate", "build", "register", "search"} =>
            toolArg[c].meta \in 1..madeMetas
       /\ toolPc[c] = "validate" => recreatedIn[c] \/ tools[toolArg[c].tool] = toolArg[c].meta

\* A deployment knows its target and its binary, and the hour it began in.
HasTarget ==
  \A c \in ToolCall : toolPc[c] \in Deploying =>
    /\ toolArg[c].target \in Target /\ toolArg[c].meta \in Meta
    /\ toolArg[c].hour \in 1..hour

\* A target has one writer at a time or is on record as overlapped; behind the
\* copy of the one its temporary file is whole.
OneWriter ==
  \A x \in Target \ deploysOverlap :
    /\ \A c, d \in Writers(x) : c = d
    /\ \A c \in Writers(x) : toolPc[c] = "rename" => tmpFile[x] # "part"

\* The count of an hour is exact until the hour is over.
CountsAdmitted ==
  /\ \A h \in Hour : h >= hour => admitted[h] <= deployCounts[h]
  /\ \A h \in Hour : h > hour => admitted[h] = 0

ToolInv ==
  /\ ToolTypes /\ HasLock /\ HasMeta /\ HasTarget /\ OneWriter /\ CountsAdmitted
  /\ BuiltIsValid /\ TargetWhole /\ HourlyQuota

\* There is a lock left for a tool that has none: more locks than tools.
LEMMA FreshLockLeft ==
  ASSUME toolLocks \in [Tool -> Lock \cup {0}], NEW c \in ToolCall
  PROVE  FreshLock \in Lock
<1> DEFINE Taken == {toolLocks[t] : t \in Tool}
<1>1. toolLocks \in Surjection(Tool, Taken)
  BY DEF Surjection
<1>2. IsFiniteSet(Taken) /\ Cardinality(Taken) <= Cardinality(Tool)
  BY <1>1, ToolAssumption, FS_Surjection
<1>3. Cardinality(Tool) \in Nat /\ Cardinality(ToolCall) \in Nat \ {0}
  BY ToolAssumption, FS_CardinalityType, FS_EmptySet
<1>4. IsFiniteSet(Lock) /\ Cardinality(Lock) > Cardinality(Tool)
  <2> DEFINE n == Cardinality(Tool) + Cardinality(ToolCall)
  <2>1. n \in Int /\ n >= 1 /\ n > Cardinality(Tool)
    BY <1>3
  <2> HIDE DEF n
  <2>2. IsFiniteSet(1..n) /\ Cardinality(1..n) = n
    BY <2>1, FS_Interval
  <2>3. Lock = 1..n
    BY DEF Lock, n
  <2> QED BY <2>1, <2>2, <2>3
<1>5. ~(Lock \subseteq Taken)
  <2>1. Cardinality(Taken) \in Nat
    BY <1>2, FS_CardinalityType
  <2> SUFFICES ASSUME Lock \subseteq Taken PROVE FALSE
    OBVIOUS
  <2>2. Cardinality(Lock) <= Cardinality(Taken) /\ Cardinality(Lock) \in Nat
    BY <1>2, FS_Subset, FS_CardinalityType
  <2> QED BY <1>2, <1>3, <1>4, <2>1, <2>2
<1>6. PICK l \in Lock : \A t \in Tool : toolLocks[t] # l
  BY <1>5
<1> QED BY <1>6 DEF FreshLock

\* The initial state has the invariant.
LEMMA ToolInitInv == ToolInit => ToolInv
<1> SUFFICES ASSUME ToolInit PROVE ToolInv
  OBVIOUS
<1>1. ToolTypes
  BY ToolAssumption DEF ToolInit, ToolTypes, ToolVariables, NoToolArg, Meta, Hour
<1>2. HasLock /\ HasMeta /\ HasTarget /\ BuiltIsValid
  BY ToolAssumption
     DEF ToolInit, HasLock, HasMeta, HasTarget, BuiltIsValid, Locking, Building, Deploying
<1>3. OneWriter /\ TargetWhole
  BY DEF ToolInit, OneWriter, Writers, TargetWhole
<1>4. CountsAdmitted /\ HourlyQuota
  BY ToolAssumption DEF ToolInit, CountsAdmitted, HourlyQuota, Hour
<1> QED BY <1>1, <1>2, <1>3, <1>4 DEF ToolInv

\* A step of one call leaves the places and the variables of the others alone.
AloneInBuild(c) ==
  \A d \in ToolCall \ {c} :
    toolPc'[d] = toolPc[d] /\ toolArg'[d] = toolArg[d] /\ recreatedIn'[d] = recreatedIn[d]

\* A step of a build keeps what is known of deployments.
LEMMA BuildKeepsDeploys ==
  ASSUME ToolInv, ToolTypes', NEW c \in ToolCall, AloneInBuild(c),
         toolPc[c] \notin Deploying, toolPc'[c] \notin Deploying,
         UNCHANGED <<toolQuota, toolFiles>>
  PROVE  HasTarget' /\ OneWriter' /\ CountsAdmitted' /\ TargetWhole' /\ HourlyQuota'
<1> USE DEF ToolInv, toolQuota, toolFiles
<1>1. HasTarget'
  BY DEF AloneInBuild, HasTarget
<1>2. \A x : Writers(x)' = Writers(x)
  BY DEF AloneInBuild, Writers, Deploying
<1>3. OneWriter'
  <2>1. \A x : \A d \in Writers(x) : toolPc'[d] = toolPc[d]
    BY DEF AloneInBuild, Writers, Deploying
  <2> QED BY <1>2, <2>1 DEF OneWriter
<1> QED BY <1>1, <1>3 DEF CountsAdmitted, TargetWhole, HourlyQuota

\* A step of a deployment keeps what is known of builds.
LEMMA DeployKeepsBuilds ==
  ASSUME ToolInv, ToolTypes', NEW c \in ToolCall, AloneInBuild(c),
         toolPc[c] \notin Building \cup {"find"}, toolPc'[c] \notin Building \cup {"find"},
         UNCHANGED <<toolRegistry, toolLocking>>
  PROVE  HasLock' /\ HasMeta' /\ BuiltIsValid'
<1> USE DEF ToolInv, toolRegistry, toolLocking, AloneInBuild, Building, Locking
<1>1. HasLock'
  BY DEF HasLock
<1>2. HasMeta'
  BY DEF HasMeta
<1>3. BuiltIsValid'
  BY DEF BuiltIsValid
<1> QED BY <1>1, <1>2, <1>3

\* Two builds of one tool would both own its lock.
LEMMA LockExcludes == ToolInv => OneBuildPerTool
BY DEF ToolInv, HasLock, Building, Locking, OneBuildPerTool

\* The steps that belong to no call.
LEMMA ToolOutside ==
  ASSUME ToolInv,
         \/ \E t \in Tool, s \in Source : CreateTool(t, s)
         \/ \E t \in Tool, x \in Prod : ApproveDeploy(t, x) \/ ApprovalEnds(t, x)
         \/ ToolHourPasses \/ DeployCountsCleaner
  PROVE  ToolInv'
<1> USE ToolAssumption DEF ToolInv
<1>1. ASSUME NEW t \in Tool, NEW s \in Source, CreateTool(t, s) PROVE ToolInv'
  <2> USE DEF toolLocking, toolQuota, toolFiles
  <2>1. madeMetas + 1 \in Meta
    BY <1>1 DEF CreateTool, ToolTypes, Meta
  <2>2. ToolTypes'
    BY <1>1, <2>1 DEF CreateTool, ToolTypes, Meta
  <2>3. HasLock' /\ HasTarget'
    BY <1>1 DEF CreateTool, HasLock, HasTarget
  <2>4. HasMeta'
    <3>1. madeMetas \in Nat /\ madeMetas' = madeMetas + 1
      BY <1>1 DEF CreateTool, ToolTypes
    <3>2. ASSUME NEW u \in Tool PROVE tools'[u] <= madeMetas'
      <4>1. tools[u] \in Nat /\ tools[u] <= madeMetas
        BY DEF ToolTypes, HasMeta, Meta
      <4> QED BY <1>1, <3>1, <4>1 DEF CreateTool, ToolTypes
    <3>3. ASSUME NEW c \in ToolCall, toolPc'[c] \in {"validate", "build", "register", "search"}
          PROVE  toolArg'[c].meta \in 1..madeMetas'
      <4>1. toolArg[c].meta \in 1..madeMetas /\ toolArg'[c] = toolArg[c]
        BY <1>1, <3>3 DEF CreateTool, HasMeta
      <4> QED BY <3>1, <4>1
    <3>4. ASSUME NEW c \in ToolCall, toolPc'[c] = "validate"
          PROVE  recreatedIn'[c] \/ tools'[toolArg'[c].tool] = toolArg'[c].meta
      <4>1. toolPc[c] = "validate" /\ toolArg' = toolArg
        BY <1>1, <3>4 DEF CreateTool
      <4>2. toolArg[c].tool \in Tool
        BY <4>1 DEF HasLock, Building, Locking
      <4>3. recreatedIn[c] \/ tools[toolArg[c].tool] = toolArg[c].meta
        BY <4>1 DEF HasMeta
      <4>4. recreatedIn'[c] = (recreatedIn[c] \/ toolArg[c].tool = t)
        BY <1>1 DEF CreateTool
      <4>5. toolArg[c].tool # t => tools'[toolArg[c].tool] = tools[toolArg[c].tool]
        BY <1>1, <4>2 DEF CreateTool, ToolTypes
      <4> QED BY <4>1, <4>3, <4>4, <4>5
    <3> QED BY <3>2, <3>3, <3>4 DEF HasMeta
  <2>5. BuiltIsValid'
    <3>1. ASSUME NEW c \in ToolCall, toolPc[c] = "build"
          PROVE  recreatedIn'[c] \/ metaSource'[toolArg[c].meta] \notin Dangerous
      <4>1. toolArg[c].meta \in Meta /\ toolArg[c].meta # madeMetas + 1
        BY <3>1 DEF HasMeta, ToolTypes, Meta
      <4> QED BY <1>1, <3>1, <4>1 DEF CreateTool, BuiltIsValid, ToolTypes
    <3> QED BY <1>1, <3>1 DEF CreateTool, BuiltIsValid
  <2>6. OneWriter' /\ TargetWhole' /\ CountsAdmitted' /\ HourlyQuota'
    BY <1>1 DEF CreateTool, OneWriter, Writers, TargetWhole, CountsAdmitted, HourlyQuota
  <2> QED BY <2>2, <2>3, <2>4, <2>5, <2>6
<1>2. ASSUME UNCHANGED <<toolRegistry, toolLocking, toolPc, toolArg, recreatedIn, toolFiles>>
      PROVE  /\ HasLock' /\ HasMeta' /\ OneWriter' /\ BuiltIsValid' /\ TargetWhole'
             /\ hour' \in Hour /\ hour' >= hour => HasTarget'
             /\ hour' \in Hour /\ deployCounts' \in [Hour -> 0..MaxDeploy] /\ admitted' = admitted => ToolTypes'
  <2> USE <1>2 DEF toolRegistry, toolLocking, toolFiles
  <2>1. HasLock' /\ HasMeta' /\ BuiltIsValid'
    BY DEF HasLock, HasMeta, BuiltIsValid
  <2>2. OneWriter' /\ TargetWhole'
    BY DEF OneWriter, Writers, TargetWhole
  <2>3. hour' \in Hour /\ hour' >= hour => HasTarget'
    BY DEF HasTarget, ToolTypes, Hour
  <2>4. hour' \in Hour /\ deployCounts' \in [Hour -> 0..MaxDeploy] /\ admitted' = admitted
          => ToolTypes'
    BY DEF ToolTypes
  <2> QED BY <2>1, <2>2, <2>3, <2>4
<1>3. ASSUME NEW t \in Tool, NEW x \in Prod, ApproveDeploy(t, x) \/ ApprovalEnds(t, x)
      PROVE  ToolInv'
  <2>1. UNCHANGED <<hour, deployCounts, admitted>> /\ hour \in Hour
    BY <1>3 DEF ApproveDeploy, ApprovalEnds, toolQuota, ToolTypes
  <2>2. hour' >= hour
    BY <2>1 DEF Hour
  <2>3. CountsAdmitted' /\ HourlyQuota'
    BY <2>1 DEF CountsAdmitted, HourlyQuota
  <2>4. UNCHANGED <<toolRegistry, toolLocking, toolPc, toolArg, recreatedIn, toolFiles>>
    BY <1>3 DEF ApproveDeploy, ApprovalEnds
  <2> QED BY <1>2, <2>1, <2>2, <2>3, <2>4 DEF ToolTypes
<1>4. CASE ToolHourPasses
  <2>1. hour' = hour + 1 /\ hour' \in Hour /\ UNCHANGED <<deployCounts, admitted>>
    BY <1>4 DEF ToolHourPasses, ToolTypes, Hour
  <2>2. CountsAdmitted' /\ HourlyQuota'
    BY <2>1 DEF CountsAdmitted, HourlyQuota, ToolTypes, Hour
  <2>3. UNCHANGED <<toolRegistry, toolLocking, toolPc, toolArg, recreatedIn, toolFiles>>
    BY <1>4 DEF ToolHourPasses
  <2>4. hour' >= hour
    BY <2>1 DEF ToolTypes, Hour
  <2> QED BY <1>2, <2>1, <2>2, <2>3, <2>4 DEF ToolTypes
<1>5. CASE DeployCountsCleaner
  <2>1. /\ hour' = hour /\ hour \in Hour /\ admitted' = admitted
        /\ deployCounts' \in [Hour -> 0..MaxDeploy]
    BY <1>5 DEF DeployCountsCleaner, ToolTypes
  <2>2. CountsAdmitted' /\ HourlyQuota'
    BY <1>5, <2>1 DEF DeployCountsCleaner, PastHours, CountsAdmitted, HourlyQuota, ToolTypes, Hour
  <2>3. UNCHANGED <<toolRegistry, toolLocking, toolPc, toolArg, recreatedIn, toolFiles>>
    BY <1>5 DEF DeployCountsCleaner
  <2>4. hour' >= hour
    BY <2>1 DEF Hour
  <2> QED BY <1>2, <2>1, <2>2, <2>3, <2>4
<1> QED BY <1>1, <1>3, <1>4, <1>5

\* An assignment to one of the variables of a call.
LEMMA VariableSet ==
  ASSUME NEW c \in ToolCall, toolArg \in [ToolCall -> ToolVariables]
  PROVE  /\ \A t \in Tool : [toolArg EXCEPT ![c].tool = t] \in [ToolCall -> ToolVariables]
         /\ \A m \in Meta : [toolArg EXCEPT ![c].meta = m] \in [ToolCall -> ToolVariables]
         /\ \A l \in Lock : [toolArg EXCEPT ![c].lock = l] \in [ToolCall -> ToolVariables]
<1> DEFINE v == toolArg[c]
<1>1. v \in ToolVariables
  OBVIOUS
<1>2. /\ \A t \in Tool : [v EXCEPT !.tool = t] \in ToolVariables
      /\ \A m \in Meta : [v EXCEPT !.meta = m] \in ToolVariables
      /\ \A l \in Lock : [v EXCEPT !.lock = l] \in ToolVariables
  <2> HIDE DEF v
  <2> QED BY <1>1 DEF ToolVariables
<1> QED BY <1>2

\* The end of a build gives its lock back.
LEMMA EndBuildStep ==
  ASSUME ToolInv, NEW c \in ToolCall, toolPc[c] \in Locking, EndBuild(c),
         UNCHANGED <<toolRegistry, toolLocks, approvals, toolQuota, toolFiles>>
  PROVE  ToolInv'
<1> USE ToolAssumption DEF ToolInv, toolRegistry, toolQuota, toolFiles, EndBuild, ToolReturn, ToolGoto
<1>1. ToolTypes'
  BY DEF ToolTypes, ToolVariables, NoToolArg
<1>2. AloneInBuild(c) /\ toolPc'[c] = "idle"
  BY DEF AloneInBuild, ToolTypes
<1>3. HasLock'
  BY <1>2 DEF HasLock, AloneInBuild, ToolTypes, Building, Locking
<1>4. HasMeta' /\ BuiltIsValid'
  BY <1>2 DEF HasMeta, BuiltIsValid, AloneInBuild
<1> QED BY <1>1, <1>2, <1>3, <1>4, BuildKeepsDeploys DEF Locking, Deploying

\* The steps of a build up to the validation.
LEMMA ToolLockStep ==
  ASSUME ToolInv, NEW c \in ToolCall,
         (\E t \in Tool : CallBuild(c, t)) \/ FindLock(c) \/ TakeLock(c) \/ ReadMeta(c) \/ Validate(c)
  PROVE  ToolInv'
<1> USE ToolAssumption DEF ToolInv, ToolGoto, toolRegistry, toolLocking, toolQuota, toolFiles
<1>1. ASSUME NEW t \in Tool, CallBuild(c, t) PROVE ToolInv'
  <2> USE <1>1 DEF CallBuild
  <2>1. ToolTypes'
    <3>1. toolArg' \in [ToolCall -> ToolVariables]
      BY VariableSet DEF ToolTypes
    <3> QED BY <3>1 DEF ToolTypes
  <2>2. AloneInBuild(c) /\ toolPc'[c] = "find" /\ toolArg'[c].tool = t
    BY DEF AloneInBuild, ToolTypes
  <2>3. HasLock' /\ HasMeta' /\ BuiltIsValid'
    BY <2>2 DEF AloneInBuild, HasLock, HasMeta, BuiltIsValid, Building, Locking
  <2> QED BY <2>1, <2>2, <2>3, BuildKeepsDeploys DEF Deploying
<1>2. CASE FindLock(c)
  <2> USE <1>2 DEF FindLock
  <2> DEFINE t == toolArg[c].tool
  <2>1. t \in Tool
    BY DEF HasLock
  <2>2. LockOf(t) \in Lock /\ (toolLocks[t] \in Lock => LockOf(t) = toolLocks[t])
    BY <2>1, FreshLockLeft DEF LockOf, ToolTypes, Lock
  <2>3. ToolTypes'
    <3>1. toolArg' \in [ToolCall -> ToolVariables]
      BY <2>2, VariableSet DEF ToolTypes
    <3> QED BY <2>1, <2>2, <3>1 DEF ToolTypes, Building
  <2>4. /\ AloneInBuild(c) /\ toolPc'[c] = "lock" /\ toolArg'[c].tool = t
        /\ toolArg'[c].lock = LockOf(t) /\ toolLocks'[t] = LockOf(t)
        /\ \A u \in Tool \ {t} : toolLocks'[u] = toolLocks[u]
    BY <2>1 DEF AloneInBuild, ToolTypes
  <2>5. HasLock'
    BY <2>1, <2>2, <2>4 DEF AloneInBuild, HasLock, Building, Locking
  <2>6. HasMeta' /\ BuiltIsValid'
    BY <2>4 DEF AloneInBuild, HasMeta, BuiltIsValid
  <2> QED BY <2>3, <2>4, <2>5, <2>6, BuildKeepsDeploys DEF Deploying
<1>3. CASE TakeLock(c)
  <2> USE <1>3 DEF TakeLock
  <2>1. ToolTypes'
    BY DEF ToolTypes, Building, Locking
  <2>2. AloneInBuild(c) /\ toolPc'[c] = "meta" /\ toolArg' = toolArg
    BY DEF AloneInBuild, ToolTypes
  <2>3. HasLock'
    BY <2>2 DEF AloneInBuild, HasLock, ToolTypes, Building, Locking
  <2>4. HasMeta' /\ BuiltIsValid'
    BY <2>2 DEF AloneInBuild, HasMeta, BuiltIsValid
  <2> QED BY <2>1, <2>2, <2>3, <2>4, BuildKeepsDeploys DEF Deploying
<1>4. CASE ReadMeta(c)
  <2> DEFINE m == tools[toolArg[c].tool]
  <2>1. CASE m = 0
    <3>1. EndBuild(c) /\ toolPc[c] = "meta"
      BY <1>4, <2>1 DEF ReadMeta
    <3>2. UNCHANGED <<toolRegistry, toolLocks, approvals, toolQuota, toolFiles>>
      BY <1>4 DEF ReadMeta
    <3> QED BY <3>1, <3>2, EndBuildStep DEF Locking
  <2>2. CASE m # 0
    <3>1. /\ toolPc[c] = "meta" /\ toolPc' = [toolPc EXCEPT ![c] = "validate"]
          /\ toolArg' = [toolArg EXCEPT ![c].meta = m]
          /\ UNCHANGED <<toolRegistry, toolLocking, recreatedIn, approvals, toolQuota, toolFiles>>
      BY <1>4, <2>2 DEF ReadMeta
    <3>2. toolArg[c].tool \in Tool
      BY <3>1 DEF HasLock, Building, Locking
    <3>3. m \in Meta /\ m \in 1..madeMetas
      BY <2>2, <3>2 DEF ToolTypes, HasMeta, Meta
    <3>4. ToolTypes'
      <4>1. toolArg' \in [ToolCall -> ToolVariables]
        BY <3>1, <3>3, VariableSet DEF ToolTypes
      <4> QED BY <3>1, <3>3, <4>1 DEF ToolTypes, Building, Locking
    <3>5. /\ AloneInBuild(c) /\ toolPc'[c] = "validate"
          /\ toolArg'[c].meta = m /\ toolArg'[c].tool = toolArg[c].tool
          /\ toolArg'[c].lock = toolArg[c].lock
      BY <3>1 DEF AloneInBuild, ToolTypes
    <3>6. HasLock'
      BY <3>1, <3>5 DEF AloneInBuild, HasLock, Building, Locking
    <3>7. HasMeta' /\ BuiltIsValid'
      BY <3>1, <3>3, <3>5 DEF AloneInBuild, HasMeta, BuiltIsValid
    <3> QED BY <3>1, <3>4, <3>5, <3>6, <3>7, BuildKeepsDeploys DEF Deploying
  <2> QED BY <2>1, <2>2
<1>5. CASE Validate(c)
  <2>1. CASE ~ValidateTool(toolArg[c].tool)
    <3>1. EndBuild(c) /\ toolPc[c] = "validate"
      BY <1>5, <2>1 DEF Validate
    <3>2. UNCHANGED <<toolRegistry, toolLocks, approvals, toolQuota, toolFiles>>
      BY <1>5 DEF Validate
    <3> QED BY <3>1, <3>2, EndBuildStep DEF Locking
  <2>2. CASE ValidateTool(toolArg[c].tool)
    <3>1. /\ toolPc[c] = "validate" /\ toolPc' = [toolPc EXCEPT ![c] = "build"]
          /\ UNCHANGED <<toolRegistry, toolLocking, toolArg, recreatedIn, approvals, toolQuota,
                         toolFiles>>
      BY <1>5, <2>2 DEF Validate
    <3>2. ToolTypes'
      BY <3>1 DEF ToolTypes, Building, Locking
    <3>3. AloneInBuild(c) /\ toolPc'[c] = "build"
      BY <3>1 DEF AloneInBuild, ToolTypes
    <3>4. HasLock' /\ HasMeta'
      BY <3>1, <3>3 DEF AloneInBuild, HasLock, HasMeta, Building, Locking
    <3>5. BuiltIsValid'
      BY <2>2, <3>1, <3>3 DEF AloneInBuild, BuiltIsValid, HasMeta, ValidateTool
    <3> QED BY <3>1, <3>2, <3>3, <3>4, <3>5, BuildKeepsDeploys DEF Deploying
  <2> QED BY <2>1, <2>2
<1> QED BY <1>1, <1>2, <1>3, <1>4, <1>5

\* The build itself and its registration.
LEMMA ToolBuildStep ==
  ASSUME ToolInv, NEW c \in ToolCall,
         \/ BuildFails(c)
         \/ \E made, scanned \in BOOLEAN : RunBuild(c, made, scanned)
         \/ \E b \in Source \cup {"none"} : RegisterBuild(c, b)
  PROVE  ToolInv'
<1> USE ToolAssumption DEF ToolInv
<1>1. CASE BuildFails(c)
  BY <1>1, EndBuildStep DEF BuildFails, Locking
<1>2. ASSUME NEW made \in BOOLEAN, NEW scanned \in BOOLEAN, RunBuild(c, made, scanned)
      PROVE  ToolInv'
  <2> USE DEF toolQuota, toolFiles, ToolGoto, EndBuild, ToolReturn
  <2>1. /\ toolPc[c] = "build" /\ toolArg[c].tool \in Tool /\ toolArg[c].meta \in 1..madeMetas
    BY <1>2 DEF RunBuild, HasLock, HasMeta, Building, Locking
  <2>2. toolArg[c].meta \in Meta
    BY <2>1 DEF ToolTypes, Meta
  <2>3. binDir' \in [Tool -> SUBSET (Source \cup {"none"})]
    <3>1. metaSource[toolArg[c].meta] \in Source \cup {"none"}
      BY <2>2 DEF ToolTypes
    <3> QED BY <1>2, <2>1, <3>1 DEF RunBuild, ToolTypes
  <2>4. /\ UNCHANGED <<tools, metaSource, metaBinary, madeMetas, toolLocks, approvals, hour,
                        deployCounts, admitted, tmpFile, targetFile, deploysOverlap>>
    BY <1>2 DEF RunBuild
  <2>5. ToolTypes' /\ AloneInBuild(c) /\ toolPc'[c] \in {"idle", "register", "search"}
    <3>1. CASE scanned
      <4>1. /\ toolPc' = [toolPc EXCEPT ![c] = IF made THEN "register" ELSE "search"]
            /\ UNCHANGED <<lockOwner, toolArg, recreatedIn>>
        BY <1>2, <3>1 DEF RunBuild
      <4> QED BY <2>3, <2>4, <4>1 DEF ToolTypes, AloneInBuild, Building, Locking
    <3>2. CASE ~scanned
      <4>1. /\ lockOwner' = [lockOwner EXCEPT ![toolArg[c].lock] = "none"]
            /\ toolPc' = [toolPc EXCEPT ![c] = "idle"]
            /\ toolArg' = [toolArg EXCEPT ![c] = NoToolArg]
            /\ recreatedIn' = [recreatedIn EXCEPT ![c] = FALSE]
        BY <1>2, <3>2 DEF RunBuild
      <4> QED BY <2>3, <2>4, <4>1 DEF ToolTypes, ToolVariables, NoToolArg, AloneInBuild
    <3> QED BY <3>1, <3>2
  <2>6. HasLock'
    <3>1. CASE scanned
      <4>1. UNCHANGED <<lockOwner, toolArg>>
        BY <1>2, <3>1 DEF RunBuild
      <4> QED BY <2>1, <2>4, <2>5, <4>1 DEF AloneInBuild, HasLock, Building, Locking
    <3>2. CASE ~scanned
      <4>1. lockOwner' = [lockOwner EXCEPT ![toolArg[c].lock] = "none"] /\ toolPc'[c] = "idle"
        BY <1>2, <3>2 DEF RunBuild, ToolTypes
      <4> QED BY <2>1, <2>4, <2>5, <4>1 DEF AloneInBuild, HasLock, ToolTypes, Building, Locking
    <3> QED BY <3>1, <3>2
  <2>7. HasMeta'
    <3>1. toolPc'[c] \in {"register", "search"} => toolArg'[c].meta \in 1..madeMetas
      <4>1. CASE scanned
        BY <1>2, <2>1, <4>1 DEF RunBuild
      <4>2. CASE ~scanned
        <5>1. toolPc'[c] = "idle"
          BY <1>2, <4>2 DEF RunBuild, ToolTypes
        <5> QED BY <5>1
      <4> QED BY <4>1, <4>2
    <3> QED BY <2>4, <2>5, <3>1 DEF AloneInBuild, HasMeta
  <2>8. BuiltIsValid'
    BY <2>4, <2>5 DEF AloneInBuild, BuiltIsValid
  <2> QED BY <2>1, <2>4, <2>5, <2>6, <2>7, <2>8, BuildKeepsDeploys DEF Deploying
<1>3. ASSUME NEW b \in Source \cup {"none"}, RegisterBuild(c, b) PROVE ToolInv'
  <2> DEFINE t == toolArg[c].tool
             m == toolArg[c].meta
  <2> USE DEF toolQuota, toolFiles
  <2>1. toolPc[c] \in {"register", "search"}
    BY <1>3 DEF RegisterBuild
  <2>2. t \in Tool /\ m \in 1..madeMetas /\ m \in Meta /\ m <= madeMetas
    BY <2>1 DEF HasLock, HasMeta, ToolTypes, Meta, Building, Locking
  <2>3. /\ tools' = [tools EXCEPT ![t] = m]
        /\ metaBinary' = [metaBinary EXCEPT ![m] = b]
        /\ lockOwner' = [lockOwner EXCEPT ![toolArg[c].lock] = "none"]
        /\ toolPc' = [toolPc EXCEPT ![c] = "idle"]
        /\ toolArg' = [toolArg EXCEPT ![c] = NoToolArg]
        /\ recreatedIn' = [recreatedIn EXCEPT ![c] = FALSE]
        /\ UNCHANGED <<metaSource, madeMetas, binDir, toolLocks, approvals, toolQuota, toolFiles>>
    BY <1>3 DEF RegisterBuild, EndBuild, ToolReturn, ToolGoto
  <2>4. ToolTypes'
    BY <2>2, <2>3 DEF ToolTypes, ToolVariables, NoToolArg
  <2>5. AloneInBuild(c) /\ toolPc'[c] = "idle"
    BY <2>3 DEF AloneInBuild, ToolTypes
  <2>6. HasLock'
    BY <2>1, <2>3, <2>5 DEF AloneInBuild, HasLock, ToolTypes, Building, Locking
  <2>7. HasMeta'
    <3>1. \A u \in Tool : tools'[u] <= madeMetas'
      BY <2>2, <2>3 DEF HasMeta, ToolTypes
    <3>2. \A d \in ToolCall : toolPc'[d] \in {"validate", "build", "register", "search"} =>
            toolArg'[d].meta \in 1..madeMetas'
      BY <2>3, <2>5 DEF AloneInBuild, HasMeta
    <3>3. ASSUME NEW d \in ToolCall, toolPc'[d] = "validate"
          PROVE  recreatedIn'[d] \/ tools'[toolArg'[d].tool] = toolArg'[d].meta
      <4>1. /\ d # c /\ toolPc[d] = "validate" /\ toolArg'[d] = toolArg[d]
            /\ recreatedIn'[d] = recreatedIn[d]
        BY <2>5, <3>3 DEF AloneInBuild
      <4>2. toolArg[d].tool \in Tool /\ toolArg[d].tool # t
        BY <2>1, <4>1, LockExcludes DEF OneBuildPerTool, HasLock, Building, Locking
      <4> QED BY <2>3, <4>1, <4>2 DEF HasMeta, ToolTypes
    <3> QED BY <3>1, <3>2, <3>3 DEF HasMeta
  <2>8. BuiltIsValid'
    BY <2>3, <2>5 DEF AloneInBuild, BuiltIsValid
  <2> QED BY <2>1, <2>3, <2>4, <2>5, <2>6, <2>7, <2>8, BuildKeepsDeploys DEF Deploying
<1> QED BY <1>1, <1>2, <1>3

\* The steps of a deployment.
LEMMA ToolDeployStep ==
  ASSUME ToolInv, NEW c \in ToolCall,
         \/ \E t \in Tool, x \in Target : DeployTool(c, t, x)
         \/ \E goesOn \in BOOLEAN : TakeQuota(c, goesOn)
         \/ OpenBinary(c) \/ CopyBinary(c) \/ CopyFails(c) \/ RenameBinary(c)
  PROVE  ToolInv'
<1> USE ToolAssumption DEF ToolInv
<1>1. ASSUME NEW t \in Tool, NEW x \in Target, DeployTool(c, t, x) PROVE ToolInv'
  <2> DEFINE v == [NoToolArg EXCEPT !.meta = tools[t], !.target = x, !.hour = hour]
  <2>1. /\ toolPc[c] = "idle" /\ toolPc' = [toolPc EXCEPT ![c] = "quota"]
        /\ tools[t] # 0 /\ toolArg' = [toolArg EXCEPT ![c] = v]
        /\ UNCHANGED <<toolRegistry, toolLocking, recreatedIn, approvals, toolQuota, toolFiles>>
    BY <1>1 DEF DeployTool, ToolGoto
  <2>2. tools[t] \in Meta /\ hour \in Hour
    BY <2>1 DEF ToolTypes
  <2>3. v \in ToolVariables /\ v.target = x /\ v.meta = tools[t] /\ v.hour = hour
    BY <2>2 DEF NoToolArg, ToolVariables
  <2> HIDE DEF v
  <2>4. ToolTypes'
    BY <2>1, <2>3 DEF ToolTypes, Deploying, toolRegistry, toolLocking, toolQuota, toolFiles
  <2>5. /\ AloneInBuild(c) /\ toolPc'[c] = "quota" /\ toolArg'[c] = v
    BY <2>1 DEF AloneInBuild, ToolTypes
  <2>6. HasTarget'
    <3>1. hour \in 1..hour /\ hour' = hour
      BY <2>1, <2>2 DEF Hour, toolQuota
    <3> QED BY <2>2, <2>3, <2>5, <3>1 DEF AloneInBuild, HasTarget
  <2>7. \A y : Writers(y)' = Writers(y)
    BY <2>1, <2>5 DEF AloneInBuild, Writers
  <2>8. OneWriter'
    <3>1. \A y : \A d \in Writers(y) : toolPc'[d] = toolPc[d]
      BY <2>1, <2>5 DEF AloneInBuild, Writers
    <3> QED BY <2>1, <2>7, <3>1 DEF OneWriter, toolFiles
  <2>9. CountsAdmitted' /\ TargetWhole' /\ HourlyQuota'
    BY <2>1 DEF CountsAdmitted, TargetWhole, HourlyQuota, toolQuota, toolFiles
  <2> QED BY <2>1, <2>4, <2>5, <2>6, <2>8, <2>9, DeployKeepsBuilds DEF Building, Locking
<1>2. ASSUME NEW goesOn \in BOOLEAN, TakeQuota(c, goesOn) PROVE ToolInv'
  <2> DEFINE h == toolArg[c].hour
  <2>1. /\ toolPc[c] = "quota" /\ toolArg[c].target \in Target /\ toolArg[c].meta \in Meta
        /\ h \in 1..hour /\ h \in Hour /\ hour \in Hour
    BY <1>2 DEF TakeQuota, HasTarget, Deploying, ToolTypes, Hour
  <2>2. UNCHANGED <<toolRegistry, toolLocking, approvals, hour, toolFiles>>
    BY <1>2 DEF TakeQuota
  <2>3. /\ toolPc' \in [ToolCall -> {"idle", "find"} \cup Building \cup Deploying]
        /\ toolArg' \in [ToolCall -> ToolVariables] /\ recreatedIn' \in [ToolCall -> BOOLEAN]
        /\ AloneInBuild(c) /\ toolPc'[c] \in {"idle", "open"}
        /\ toolPc'[c] = "open" => toolArg'[c] = toolArg[c]
    <3>1. \/ /\ toolPc' = [toolPc EXCEPT ![c] = "idle"]
             /\ toolArg' = [toolArg EXCEPT ![c] = NoToolArg]
             /\ recreatedIn' = [recreatedIn EXCEPT ![c] = FALSE]
          \/ toolPc' = [toolPc EXCEPT ![c] = "open"] /\ UNCHANGED <<toolArg, recreatedIn>>
      BY <1>2 DEF TakeQuota, ToolReturn, ToolGoto
    <3>2. NoToolArg \in ToolVariables
      BY DEF NoToolArg, ToolVariables
    <3>3. /\ toolPc \in [ToolCall -> {"idle", "find"} \cup Building \cup Deploying]
          /\ toolArg \in [ToolCall -> ToolVariables] /\ recreatedIn \in [ToolCall -> BOOLEAN]
      BY DEF ToolTypes
    <3>4. {"idle", "open"} \subseteq {"idle", "find"} \cup Building \cup Deploying
      BY DEF Deploying
    <3>5. toolPc' \in [ToolCall -> {"idle", "find"} \cup Building \cup Deploying]
      BY <3>1, <3>3, <3>4
    <3>6. toolArg' \in [ToolCall -> ToolVariables] /\ recreatedIn' \in [ToolCall -> BOOLEAN]
      BY <3>1, <3>2, <3>3
    <3>7. AloneInBuild(c)
      BY <3>1, <3>3 DEF AloneInBuild
    <3>8. toolPc'[c] \in {"idle", "open"} /\ (toolPc'[c] = "open" => toolArg'[c] = toolArg[c])
      BY <3>1, <3>3
    <3> QED BY <3>5, <3>6, <3>7, <3>8
  <2>4. /\ deployCounts' \in [Hour -> 0..MaxDeploy] /\ admitted' \in [Hour -> Nat]
        /\ CountsAdmitted' /\ HourlyQuota'
    <3>1. CASE deployCounts[h] >= MaxDeploy
      <4>1. UNCHANGED <<deployCounts, admitted>>
        BY <1>2, <3>1 DEF TakeQuota
      <4> QED BY <2>2, <4>1 DEF ToolTypes, CountsAdmitted, HourlyQuota
    <3>2. CASE ~(deployCounts[h] >= MaxDeploy)
      <4>1. /\ deployCounts' = [deployCounts EXCEPT ![h] = @ + 1]
            /\ admitted' = IF h = hour THEN [admitted EXCEPT ![h] = @ + 1] ELSE admitted
        BY <1>2, <3>2 DEF TakeQuota
      <4>2. deployCounts[h] \in 0..MaxDeploy /\ deployCounts[h] + 1 \in 0..MaxDeploy
        BY <2>1, <3>2 DEF ToolTypes
      <4>3. deployCounts' \in [Hour -> 0..MaxDeploy] /\ admitted' \in [Hour -> Nat]
        BY <2>1, <4>1, <4>2 DEF ToolTypes
      <4>4. CountsAdmitted'
        <5>1. ASSUME NEW k \in Hour
              PROVE  /\ k >= hour => admitted'[k] <= deployCounts'[k]
                     /\ k > hour => admitted'[k] = 0
          <6>1. k \in Nat /\ hour \in Nat /\ h \in Nat /\ h <= hour
            BY <2>1 DEF Hour
          <6>2. /\ admitted[k] \in Nat /\ deployCounts[k] \in Nat
                /\ k >= hour => admitted[k] <= deployCounts[k]
                /\ k > hour => admitted[k] = 0
            BY DEF ToolTypes, CountsAdmitted
          <6>3. CASE k = h
            <7>1. deployCounts'[k] = deployCounts[k] + 1
              BY <2>1, <4>1, <6>3 DEF ToolTypes
            <7>2. k >= hour => admitted'[k] = admitted[k] + 1
              BY <2>1, <4>1, <6>1, <6>3 DEF ToolTypes
            <7> QED BY <6>1, <6>2, <6>3, <7>1, <7>2
          <6>4. CASE k # h
            <7>1. deployCounts'[k] = deployCounts[k] /\ admitted'[k] = admitted[k]
              BY <4>1, <6>4 DEF ToolTypes
            <7> QED BY <6>2, <7>1
          <6> QED BY <6>3, <6>4
        <5>2. hour' = hour
          BY <2>2
        <5>3. \A k \in Hour : k >= hour' => admitted'[k] <= deployCounts'[k]
          BY <5>1, <5>2
        <5>4. \A k \in Hour : k > hour' => admitted'[k] = 0
          BY <5>1, <5>2
        <5> QED BY <5>3, <5>4 DEF CountsAdmitted
      <4>5. HourlyQuota'
        <5>1. ASSUME NEW k \in Hour PROVE admitted'[k] <= MaxDeploy
          <6>1. admitted[k] <= MaxDeploy
            BY DEF HourlyQuota
          <6>2. CASE k = h /\ h = hour
            <7>1. h >= hour
              BY <2>1, <6>2 DEF Hour
            <7>2. /\ admitted[h] <= deployCounts[h] /\ admitted[h] \in Nat
                  /\ admitted'[h] = admitted[h] + 1
              BY <2>1, <4>1, <6>2, <7>1 DEF CountsAdmitted, ToolTypes
            <7> QED BY <4>2, <6>2, <7>2
          <6>3. CASE ~(k = h /\ h = hour)
            <7>1. admitted'[k] = admitted[k]
              BY <4>1, <6>3 DEF ToolTypes
            <7> QED BY <6>1, <7>1
          <6> QED BY <6>2, <6>3
        <5> QED BY <5>1 DEF HourlyQuota
      <4> QED BY <4>3, <4>4, <4>5
    <3> QED BY <3>1, <3>2
  <2>5. ToolTypes'
    BY <2>2, <2>3, <2>4 DEF ToolTypes, toolRegistry, toolLocking, toolFiles
  <2>6. HasTarget'
    BY <2>1, <2>2, <2>3 DEF AloneInBuild, HasTarget, Deploying
  <2>7. (\A y : Writers(y)' = Writers(y)) /\ \A y : \A d \in Writers(y) : toolPc'[d] = toolPc[d]
    BY <2>1, <2>3 DEF AloneInBuild, Writers
  <2>8. OneWriter' /\ TargetWhole'
    BY <2>2, <2>7 DEF OneWriter, TargetWhole, toolFiles
  <2> QED BY <2>1, <2>2, <2>3, <2>4, <2>5, <2>6, <2>8, DeployKeepsBuilds DEF Building, Locking
<1>3. ASSUME toolPc[c] \in Deploying, toolPc'[c] \in Deploying \cup {"idle"}, AloneInBuild(c),
             toolPc'[c] # "idle" => toolArg'[c] = toolArg[c],
             ToolTypes', OneWriter', TargetWhole',
             UNCHANGED <<toolRegistry, toolLocking, approvals, toolQuota>>
      PROVE  ToolInv'
  <2>1. HasTarget'
    BY <1>3 DEF AloneInBuild, HasTarget, Deploying, toolQuota
  <2>2. CountsAdmitted' /\ HourlyQuota'
    BY <1>3 DEF CountsAdmitted, HourlyQuota, toolQuota
  <2> QED BY <1>3, <2>1, <2>2, DeployKeepsBuilds DEF Deploying, Building, Locking
<1>4. ASSUME toolPc[c] \in Deploying, ToolReturn(c)
      PROVE  /\ AloneInBuild(c) /\ toolPc'[c] = "idle"
             /\ \A x : Writers(x)' = Writers(x) \ {c}
             /\ toolPc' \in [ToolCall -> {"idle", "find"} \cup Building \cup Deploying]
             /\ toolArg' \in [ToolCall -> ToolVariables] /\ recreatedIn' \in [ToolCall -> BOOLEAN]
  <2>1. /\ AloneInBuild(c) /\ toolPc'[c] = "idle"
        /\ toolPc' \in [ToolCall -> {"idle", "find"} \cup Building \cup Deploying]
        /\ toolArg' \in [ToolCall -> ToolVariables] /\ recreatedIn' \in [ToolCall -> BOOLEAN]
    BY <1>4 DEF ToolReturn, ToolGoto, AloneInBuild, ToolTypes, ToolVariables, NoToolArg
  <2> QED BY <2>1 DEF AloneInBuild, Writers
<1>5. CASE OpenBinary(c)
  <2> DEFINE x == toolArg[c].target
  <2>1. toolPc[c] = "open" /\ x \in Target
    BY <1>5 DEF OpenBinary, HasTarget, Deploying
  <2>2. UNCHANGED <<toolRegistry, toolLocking, approvals, toolQuota>>
    BY <1>5 DEF OpenBinary
  <2>3. CASE ToolReturn(c) /\ UNCHANGED toolFiles
    <3>1. ToolTypes'
      <4>1. toolPc[c] \in Deploying /\ ToolReturn(c)
        BY <2>1, <2>3 DEF Deploying
      <4>2. /\ toolPc' \in [ToolCall -> {"idle", "find"} \cup Building \cup Deploying]
            /\ toolArg' \in [ToolCall -> ToolVariables] /\ recreatedIn' \in [ToolCall -> BOOLEAN]
        BY <1>4, <4>1
      <4> QED BY <2>2, <2>3, <4>2
              DEF ToolTypes, toolRegistry, toolLocking, toolQuota, toolFiles
    <3>2. TargetWhole'
      BY <2>3 DEF TargetWhole, toolFiles
    <3>3. AloneInBuild(c) /\ \A y : Writers(y)' = Writers(y) \ {c}
      BY <1>4, <2>1, <2>3 DEF Deploying
    <3>4. \A y : \A d \in Writers(y)' : d \in Writers(y) /\ toolPc'[d] = toolPc[d]
      BY <3>3 DEF AloneInBuild, Writers
    <3>5. OneWriter'
      BY <2>3, <3>3, <3>4 DEF OneWriter, toolFiles
    <3> QED BY <1>3, <1>4, <2>1, <2>2, <2>3, <3>1, <3>2, <3>5 DEF Deploying
  <2>4. CASE /\ tmpFile' = [tmpFile EXCEPT ![x] = "part"]
             /\ deploysOverlap' = IF Writers(x) = {} THEN deploysOverlap
                                  ELSE deploysOverlap \cup {x}
             /\ toolPc' = [toolPc EXCEPT ![c] = "copy"]
             /\ UNCHANGED <<toolArg, recreatedIn, targetFile>>
    <3>1. ToolTypes'
      BY <2>1, <2>2, <2>4 DEF ToolTypes, Deploying, toolRegistry, toolLocking, toolQuota
    <3>2. AloneInBuild(c) /\ toolPc'[c] = "copy"
      BY <2>4 DEF ToolTypes, AloneInBuild
    <3>3. TargetWhole'
      BY <2>4 DEF TargetWhole
    <3>4. \A y : Writers(y)' = IF y = x THEN Writers(y) \cup {c} ELSE Writers(y)
      BY <2>1, <2>4, <3>2 DEF Writers, AloneInBuild
    <3>5. ASSUME NEW y \in Target \ deploysOverlap'
          PROVE  /\ \A d, e \in Writers(y)' : d = e
                 /\ \A d \in Writers(y)' : toolPc'[d] = "rename" => tmpFile'[y] # "part"
      <4>1. y \notin deploysOverlap /\ (y = x => Writers(x) = {})
        BY <2>4, <3>5
      <4>2. CASE y = x
        BY <3>2, <3>4, <4>1, <4>2
      <4>3. CASE y # x
        <5>1. Writers(y)' = Writers(y) /\ tmpFile'[y] = tmpFile[y]
          BY <2>4, <3>4, <4>3 DEF ToolTypes
        <5>2. \A d \in Writers(y) : toolPc'[d] = toolPc[d]
          BY <2>1, <3>2 DEF Writers, AloneInBuild
        <5> QED BY <4>1, <5>1, <5>2 DEF OneWriter
      <4> QED BY <4>2, <4>3
    <3>6. OneWriter'
      BY <3>5 DEF OneWriter
    <3> QED BY <1>3, <2>1, <2>2, <2>4, <3>1, <3>2, <3>3, <3>6 DEF Deploying
  <2> QED BY <1>5, <2>3, <2>4 DEF OpenBinary, ToolGoto
<1>6. CASE CopyBinary(c)
  <2> DEFINE x == toolArg[c].target
             whole == IF Writers(x) = {c} THEN metaBinary[toolArg[c].meta] ELSE "part"
  <2>1. toolPc[c] = "copy" /\ x \in Target /\ toolArg[c].meta \in Meta
    BY <1>6 DEF CopyBinary, HasTarget, Deploying
  <2>2. UNCHANGED <<toolRegistry, toolLocking, approvals, toolQuota>>
    BY <1>6 DEF CopyBinary
  <2>3. /\ tmpFile' = [tmpFile EXCEPT ![x] = whole]
        /\ toolPc' = [toolPc EXCEPT ![c] = "rename"]
        /\ UNCHANGED <<toolArg, recreatedIn, targetFile, deploysOverlap>>
    BY <1>6 DEF CopyBinary, ToolGoto
  <2>4. /\ metaBinary[toolArg[c].meta] \in Source \cup {"none"}
        /\ metaBinary[toolArg[c].meta] # "part"
    BY <2>1 DEF ToolTypes
  <2>5. ToolTypes'
    <3>1. whole \in Source \cup {"none", "part"}
      BY <2>4
    <3> HIDE DEF whole
    <3> QED BY <2>1, <2>2, <2>3, <3>1 DEF ToolTypes, Deploying, toolRegistry, toolLocking, toolQuota
  <2>6. AloneInBuild(c) /\ toolPc'[c] = "rename" /\ TargetWhole'
    BY <2>3 DEF ToolTypes, AloneInBuild, TargetWhole
  <2>7. \A y : Writers(y)' = Writers(y)
    BY <2>1, <2>3, <2>6 DEF Writers, AloneInBuild
  <2>8. ASSUME NEW y \in Target \ deploysOverlap
        PROVE  /\ \A d, e \in Writers(y)' : d = e
               /\ \A d \in Writers(y)' : toolPc'[d] = "rename" => tmpFile'[y] # "part"
    <3>1. \A d, e \in Writers(y) : d = e
      BY DEF OneWriter
    <3>2. CASE y = x
      <4>1. c \in Writers(x)
        BY <2>1 DEF Writers
      <4>2. Writers(x) = {c} /\ tmpFile'[x] # "part"
        BY <2>1, <2>3, <2>4, <3>1, <3>2, <4>1 DEF ToolTypes
      <4> QED BY <2>7, <3>1, <3>2, <4>2
    <3>3. CASE y # x
      <4>1. tmpFile'[y] = tmpFile[y]
        BY <2>3, <3>3 DEF ToolTypes
      <4>2. \A d \in Writers(y) : toolPc'[d] = toolPc[d]
        BY <2>6, <3>3 DEF Writers, AloneInBuild
      <4> QED BY <2>7, <3>1, <4>1, <4>2 DEF OneWriter
    <3> QED BY <3>2, <3>3
  <2>9. OneWriter'
    BY <2>3, <2>8 DEF OneWriter
  <2> QED BY <1>3, <2>1, <2>2, <2>3, <2>5, <2>6, <2>9 DEF Deploying
<1>7. ASSUME toolPc[c] \in {"copy", "rename"}, ToolReturn(c),
             tmpFile' = [tmpFile EXCEPT ![toolArg[c].target] = "none"],
             TargetWhole', targetFile' \in [Target -> Source \cup {"none", "part"}],
             UNCHANGED <<toolRegistry, toolLocking, approvals, toolQuota, deploysOverlap>>
      PROVE  ToolInv'
  <2> DEFINE x == toolArg[c].target
  <2>1. x \in Target
    BY <1>7 DEF HasTarget, Deploying
  <2>2. ToolTypes'
    BY <1>4, <1>7, <2>1 DEF ToolTypes, Deploying, toolRegistry, toolLocking, toolQuota
  <2>3. OneWriter'
    <3>1. ASSUME NEW y \in Target \ deploysOverlap, NEW d \in Writers(y)',
                 toolPc'[d] = "rename"
          PROVE  tmpFile'[y] # "part"
      <4>1. d \in Writers(y) /\ d # c /\ toolPc[d] = "rename"
        BY <1>4, <1>7, <3>1 DEF AloneInBuild, Deploying, Writers
      <4> QED BY <1>7, <2>1, <3>1, <4>1 DEF OneWriter, ToolTypes
    <3> QED BY <1>4, <1>7, <3>1 DEF OneWriter, Deploying
  <2> QED BY <1>3, <1>4, <1>7, <2>2, <2>3 DEF Deploying
<1>8. CASE CopyFails(c)
  <2>1. TargetWhole' /\ targetFile' \in [Target -> Source \cup {"none", "part"}]
    BY <1>8 DEF CopyFails, TargetWhole, ToolTypes
  <2> QED BY <1>7, <1>8, <2>1 DEF CopyFails
<1>9. CASE RenameBinary(c)
  <2> DEFINE x == toolArg[c].target
  <2>1. toolPc[c] = "rename" /\ x \in Target /\ c \in Writers(x)
    BY <1>9 DEF RenameBinary, DeployCopied, HasTarget, Deploying, Writers
  <2>2. /\ targetFile' = IF tmpFile[x] = "none" THEN targetFile
                         ELSE [targetFile EXCEPT ![x] = tmpFile[x]]
        /\ deploysOverlap' = deploysOverlap
    BY <1>9 DEF RenameBinary
  <2>3. targetFile' \in [Target -> Source \cup {"none", "part"}]
    BY <2>1, <2>2 DEF ToolTypes
  <2>4. x \notin deploysOverlap => tmpFile[x] # "part"
    BY <2>1 DEF OneWriter
  <2>5. TargetWhole'
    BY <2>1, <2>2, <2>4 DEF TargetWhole, ToolTypes
  <2> QED BY <1>7, <1>9, <2>1, <2>3, <2>5 DEF RenameBinary
<1> QED BY <1>1, <1>2, <1>5, <1>6, <1>8, <1>9

\* The inductive invariant holds in every reachable state.
THEOREM ToolInvariant == ToolSpec => []ToolInv
<1>1. ASSUME ToolInv, [ToolNext]_toolVars PROVE ToolInv'
  <2>1. CASE UNCHANGED toolVars
    BY <1>1, <2>1 DEF toolVars, toolRegistry, toolLocking, toolQuota, toolFiles, ToolInv, ToolTypes,
       HasLock, HasMeta, HasTarget, OneWriter, Writers, CountsAdmitted, BuiltIsValid, TargetWhole,
       HourlyQuota
  <2>2. CASE \/ \E t \in Tool, s \in Source : CreateTool(t, s)
             \/ \E t \in Tool, x \in Prod : ApproveDeploy(t, x) \/ ApprovalEnds(t, x)
             \/ ToolHourPasses \/ DeployCountsCleaner
    BY <1>1, <2>2, ToolOutside
  <2>3. ASSUME NEW c \in ToolCall,
               (\E t \in Tool : CallBuild(c, t) \/ \E x \in Target : DeployTool(c, t, x))
               \/ ToolStep(c)
        PROVE  ToolInv'
    <3>1. CASE \/ \E t \in Tool : CallBuild(c, t)
               \/ FindLock(c) \/ TakeLock(c) \/ ReadMeta(c) \/ Validate(c)
      BY <1>1, <3>1, ToolLockStep
    <3>2. CASE \/ BuildFails(c)
               \/ \E made, scanned \in BOOLEAN : RunBuild(c, made, scanned)
               \/ \E b \in Source \cup {"none"} : RegisterBuild(c, b)
      BY <1>1, <3>2, ToolBuildStep
    <3>3. CASE \/ \E t \in Tool, x \in Target : DeployTool(c, t, x)
               \/ \E goesOn \in BOOLEAN : TakeQuota(c, goesOn)
               \/ OpenBinary(c) \/ CopyBinary(c) \/ CopyFails(c) \/ RenameBinary(c)
      BY <1>1, <3>3, ToolDeployStep
    <3> QED BY <2>3, <3>1, <3>2, <3>3 DEF ToolStep
  <2> QED BY <1>1, <2>1, <2>2, <2>3 DEF ToolNext
<1> QED BY <1>1, ToolInitInv, PTL DEF ToolSpec

\* A ToolMeta that has been made has a source, and executables are made from it.
MadeFromSources ==
  /\ \A m \in 1..madeMetas : metaSource[m] \in Source
  /\ \A t \in Tool : binDir[t] \subseteq Source

\* Only a build adds executables, and it has a ToolMeta that was made.
LEMMA MadeFromSourcesAlways == ToolSpec => []MadeFromSources
<1>1. ToolInit => MadeFromSources
  BY DEF ToolInit, MadeFromSources
<1>2. ASSUME ToolInv, MadeFromSources, [ToolNext]_toolVars PROVE MadeFromSources'
  <2> USE DEF ToolInv, ToolTypes
  <2>1. ASSUME NEW t \in Tool, NEW s \in Source, CreateTool(t, s) PROVE MadeFromSources'
    <3>1. madeMetas \in Nat /\ madeMetas + 1 \in Meta
      BY <1>2, <2>1, ToolAssumption DEF CreateTool, Meta
    <3>2. \A m \in 1..madeMetas' : m \in Meta /\ (m = madeMetas + 1 \/ m \in 1..madeMetas)
      BY <2>1, <3>1, ToolAssumption DEF CreateTool, Meta
    <3> QED BY <1>2, <2>1, <3>1, <3>2 DEF CreateTool, MadeFromSources
  <2>2. ASSUME NEW c \in ToolCall, NEW made \in BOOLEAN, NEW scanned \in BOOLEAN,
               RunBuild(c, made, scanned)
        PROVE  MadeFromSources'
    <3>1. toolArg[c].tool \in Tool /\ toolArg[c].meta \in 1..madeMetas
      BY <1>2, <2>2 DEF RunBuild, HasLock, HasMeta, Building, Locking
    <3>2. metaSource[toolArg[c].meta] \in Source
      BY <1>2, <3>1 DEF MadeFromSources
    <3> QED BY <1>2, <2>2, <3>1, <3>2 DEF RunBuild, MadeFromSources
  <2>3. ASSUME NEW c \in ToolCall, NEW b \in Source \cup {"none"}, RegisterBuild(c, b)
        PROVE  MadeFromSources'
    BY <1>2, <2>3 DEF RegisterBuild, MadeFromSources
  <2>4. CASE UNCHANGED toolRegistry
    BY <1>2, <2>4 DEF toolRegistry, MadeFromSources
  <2>5. ASSUME NEW c \in ToolCall, ToolStep(c)
        PROVE  \/ UNCHANGED toolRegistry
               \/ \E made, scanned \in BOOLEAN : RunBuild(c, made, scanned)
               \/ \E b \in Source \cup {"none"} : RegisterBuild(c, b)
    BY <2>5 DEF ToolStep, FindLock, TakeLock, ReadMeta, Validate, BuildFails, TakeQuota, OpenBinary,
       CopyBinary, CopyFails, RenameBinary
  <2>6. \A c \in ToolCall, t \in Tool :
          CallBuild(c, t) \/ (\E x \in Target : DeployTool(c, t, x)) => UNCHANGED toolRegistry
    BY DEF CallBuild, DeployTool
  <2>7. \A t \in Tool, x \in Prod :
          ApproveDeploy(t, x) \/ ApprovalEnds(t, x) => UNCHANGED toolRegistry
    BY DEF ApproveDeploy, ApprovalEnds
  <2>8. ToolHourPasses \/ DeployCountsCleaner \/ UNCHANGED toolVars => UNCHANGED toolRegistry
    BY DEF ToolHourPasses, DeployCountsCleaner, toolVars
  <2> QED BY <1>2, <2>1, <2>2, <2>3, <2>4, <2>5, <2>6, <2>7, <2>8 DEF ToolNext
<1> QED BY <1>1, <1>2, ToolInvariant, PTL DEF ToolSpec

\* BuildTool "ensures single build per toolID": the lock of a tool is made once
\* and its owner alone is between the metadata and the registration.
THEOREM OneBuildPerToolAlways == ToolSpec => []OneBuildPerTool
BY ToolInvariant, LockExcludes, PTL

\* A build command runs on a source that ValidateTool accepted, unless
\* CreateTool replaced the metadata in between.
THEOREM BuiltIsValidAlways == ToolSpec => []BuiltIsValid
<1>1. ToolInv => BuiltIsValid
  BY DEF ToolInv
<1> QED BY <1>1, ToolInvariant, PTL

\* copyFileAtomic: a target is never left with part of a binary, unless two
\* deployments to it have overlapped.
THEOREM TargetWholeAlways == ToolSpec => []TargetWhole
<1>1. ToolInv => TargetWhole
  BY DEF ToolInv
<1> QED BY <1>1, ToolInvariant, PTL

\* DeployTool admits at most MaxToolDeployPerHour deployments in an hour.
THEOREM HourlyQuotaAlways == ToolSpec => []HourlyQuota
<1>1. ToolInv => HourlyQuota
  BY DEF ToolInv
<1> QED BY <1>1, ToolInvariant, PTL

(***************************************************************************)
(* CfePlugins                                                              *)
(***************************************************************************)
PluginSteps == {"idle", "checked", "create", "writing", "copied"}
PluginVarsOK ==
  /\ plRegister \in [Registrar -> [step : PluginSteps, build : 0..MaxBuild]]
  /\ plCall \in [PluginCall -> {"idle", "found", "running", "ok", "failed"}]

\* While no two registrations have met, the one that is past os.Stat is alone,
\* nothing is registered until it is done, and what it has copied is the file.
SoleRegistrar ==
  ~plClash =>
    /\ \A r, q \in PastStat : r = q
    /\ \A r \in PastStat : IF plRegister[r].step = "copied" THEN plFile = plRegister[r].build
                                                            ELSE plEntry = NoBuild

PluginInv == PluginTypeOK /\ PluginVarsOK /\ SoleRegistrar /\ EntryHasItsFile

\* A step of RegisterPluginByToken keeps it.
LEMMA PluginRegisterStep ==
  ASSUME PluginInv, NEW r \in Registrar,
         \/ ReadPlugin(r) \/ RefusePlugin(r) \/ StatDestination(r) \/ CreatePlugin(r)
         \/ WritePlugin(r) \/ WritePluginFails(r) \/ EnterPlugin(r)
  PROVE  PluginInv'
<1> USE CfePluginsAssumption DEF PluginInv, PluginTypeOK, PluginVarsOK, PluginSteps, RegisterTo,
        NotRegistering, NoBuild, Part
<1>1. CASE ReadPlugin(r)
  <2>1. PluginTypeOK' /\ PluginVarsOK'
    BY <1>1 DEF ReadPlugin
  <2>2. PastStat' = PastStat /\ \A q \in PastStat : plRegister'[q] = plRegister[q]
    BY <1>1 DEF ReadPlugin, PastStat
  <2>3. SoleRegistrar' /\ EntryHasItsFile'
    BY <1>1, <2>2 DEF ReadPlugin, SoleRegistrar, EntryHasItsFile
  <2> QED BY <2>1, <2>3
<1>2. CASE RefusePlugin(r)
  <2>1. PluginTypeOK' /\ PluginVarsOK'
    BY <1>2 DEF RefusePlugin
  <2>2. PastStat' = PastStat /\ \A q \in PastStat : plRegister'[q] = plRegister[q]
    BY <1>2 DEF RefusePlugin, PastStat
  <2>3. SoleRegistrar' /\ EntryHasItsFile'
    BY <1>2, <2>2 DEF RefusePlugin, SoleRegistrar, EntryHasItsFile
  <2> QED BY <2>1, <2>3
<1>3. CASE StatDestination(r)
  <2>1. PluginTypeOK' /\ PluginVarsOK'
    BY <1>3 DEF StatDestination
  <2>2. EntryHasItsFile'
    BY <1>3 DEF StatDestination, EntryHasItsFile
  <2>3. CASE ~MayCopyPlugin
    <3>1. PastStat' = PastStat /\ \A q \in PastStat : plRegister'[q] = plRegister[q]
      BY <1>3, <2>3 DEF StatDestination, PastStat
    <3>2. SoleRegistrar'
      BY <1>3, <2>3, <3>1 DEF StatDestination, SoleRegistrar
    <3> QED BY <2>1, <2>2, <3>2
  <2>4. CASE MayCopyPlugin
    <3>1. plClash' \/ (PastStat = {} /\ ~plClash /\ plEntry = NoBuild)
      BY <1>3, <2>4 DEF StatDestination, MayCopyPlugin, EntryHasItsFile
    <3>2. PastStat = {} => \A q \in PastStat' : q = r /\ plRegister'[q].step = "create"
      BY <1>3, <2>4 DEF StatDestination, PastStat
    <3>3. SoleRegistrar'
      BY <1>3, <3>1, <3>2 DEF StatDestination, SoleRegistrar
    <3> QED BY <2>1, <2>2, <3>3
  <2> QED BY <2>3, <2>4
<1>4. CASE CreatePlugin(r) \/ WritePlugin(r) \/ EnterPlugin(r)
  <2>1. r \in PastStat /\ PastStat' \subseteq PastStat
    BY <1>4 DEF CreatePlugin, WritePlugin, EnterPlugin, PastStat
  <2>2. PluginTypeOK' /\ PluginVarsOK'
    BY <1>4 DEF CreatePlugin, WritePlugin, EnterPlugin
  <2>3. ~plClash => \A q \in PastStat : q = r
    BY <2>1 DEF SoleRegistrar
  <2>4. CASE CreatePlugin(r)
    <3>1. ~plClash => plEntry = NoBuild
      BY <2>1, <2>4 DEF CreatePlugin, SoleRegistrar
    <3>2. SoleRegistrar' /\ EntryHasItsFile'
      BY <2>1, <2>3, <2>4, <3>1 DEF CreatePlugin, SoleRegistrar, EntryHasItsFile
    <3> QED BY <2>2, <3>2
  <2>5. CASE WritePlugin(r)
    <3>1. ~plClash => plEntry = NoBuild
      BY <2>1, <2>5 DEF WritePlugin, SoleRegistrar
    <3>2. SoleRegistrar' /\ EntryHasItsFile'
      BY <2>1, <2>3, <2>5, <3>1 DEF WritePlugin, SoleRegistrar, EntryHasItsFile
    <3> QED BY <2>2, <3>2
  <2>6. CASE EnterPlugin(r)
    <3>1. ~plClash => plFile = plRegister[r].build
      BY <2>1, <2>6 DEF EnterPlugin, SoleRegistrar
    <3>2. r \notin PastStat'
      BY <2>6 DEF EnterPlugin, PastStat
    <3>3. SoleRegistrar' /\ EntryHasItsFile'
      BY <2>1, <2>3, <2>6, <3>1, <3>2 DEF EnterPlugin, SoleRegistrar, EntryHasItsFile
    <3> QED BY <2>2, <3>3
  <2> QED BY <1>4, <2>4, <2>5, <2>6
<1>5. CASE WritePluginFails(r)
  <2>1. PluginTypeOK' /\ PluginVarsOK'
    BY <1>5 DEF WritePluginFails
  <2>2. PastStat' \subseteq PastStat /\ \A q \in PastStat' : plRegister'[q] = plRegister[q]
    BY <1>5 DEF WritePluginFails, PastStat
  <2>3. SoleRegistrar' /\ EntryHasItsFile'
    BY <1>5, <2>2 DEF WritePluginFails, SoleRegistrar, EntryHasItsFile
  <2> QED BY <2>1, <2>3
<1> QED BY <1>1, <1>2, <1>3, <1>4, <1>5

\* The invariant holds in every state.
THEOREM PluginInvariant == PluginsSpec => []PluginInv
<1> USE CfePluginsAssumption DEF PluginSteps, NotRegistering, NoBuild, Part
<1>1. PluginsInit => PluginInv
  <2> SUFFICES ASSUME PluginsInit PROVE PluginInv
    OBVIOUS
  <2>1. PluginVarsOK
    BY DEF PluginsInit, PluginVarsOK
  <2>2. PluginTypeOK
    <3>1. plSource \in 1..MaxBuild /\ plFile \in Part..MaxBuild /\ plEntry \in 0..MaxBuild
      BY DEF PluginsInit
    <3>2. plCrashes \in 0..PluginCrashes
      BY DEF PluginsInit
    <3>3. \A r \in Registrar : plRegister[r].step = "idle"
      BY DEF PluginsInit
    <3>4. \A c \in PluginCall : plCall[c] = "idle"
      BY DEF PluginsInit
    <3>5. plClash \in BOOLEAN
      BY Zenon DEF PluginsInit
    <3> QED BY <3>1, <3>2, <3>3, <3>4, <3>5 DEF PluginTypeOK
  <2>3. PastStat = {}
    BY DEF PluginsInit, PastStat
  <2>4. SoleRegistrar /\ EntryHasItsFile
    BY <2>3 DEF PluginsInit, SoleRegistrar, EntryHasItsFile
  <2> QED BY <2>1, <2>2, <2>4 DEF PluginInv
<1>2. PluginInv /\ [PluginsNext]_plVars => PluginInv'
  <2> SUFFICES ASSUME PluginInv, [PluginsNext]_plVars PROVE PluginInv'
    OBVIOUS
  <2> USE DEF PluginInv, PluginTypeOK, PluginVarsOK
  <2>1. CASE NewBuild
    BY <2>1 DEF NewBuild, SoleRegistrar, EntryHasItsFile, PastStat
  <2>2. CASE EngineCrash
    BY <2>2 DEF EngineCrash, SoleRegistrar, EntryHasItsFile, PastStat
  <2>3. CASE \E c \in PluginCall : FindPlugin(c) \/ RunPlugin(c) \/ PluginEnds(c)
    <3>1. PICK c \in PluginCall, place \in {"found", "running", "ok", "failed"} :
            plCall' = [plCall EXCEPT ![c] = place]
      BY <2>3 DEF FindPlugin, RunPlugin, PluginEnds
    <3>2. UNCHANGED <<plSource, plFile, plEntry, plRegister, plCrashes, plClash>>
      BY <2>3 DEF FindPlugin, RunPlugin, PluginEnds
    <3> QED BY <3>1, <3>2 DEF SoleRegistrar, EntryHasItsFile, PastStat
  <2>4. CASE UNCHANGED plVars
    BY <2>4 DEF plVars, SoleRegistrar, EntryHasItsFile, PastStat
  <2> QED BY <2>1, <2>2, <2>3, <2>4, PluginRegisterStep DEF PluginsNext
<1> QED BY <1>1, <1>2, PTL DEF PluginsSpec

(***************************************************************************)
(* Scaling                                                                 *)
(***************************************************************************)
SavedStates == [there : BOOLEAN, attempts : 0..MaxAttempts, count : 0..BootstrapsPerHour,
                windowOld : BOOLEAN]
ScVarsOK ==
  /\ windowOld \in BOOLEAN /\ inFlight \in BOOLEAN /\ rateCount \in 0..BootstrapsPerHour
  /\ scAttempts \in 0..MaxAttempts
  /\ scStored \in SavedStates /\ encoded \in SavedStates
  /\ taken \in Nat /\ unsaved \in 0..taken /\ mark \in 0..unsaved /\ forgotten \in Nat
ScPlacesOK ==
  /\ scPc \in [ScaleCall -> {"idle", "predict", "backoff", "check"}]
  /\ flight \in [ScaleCall -> {"none", "verify", "simulated", "run", "clear"}]

\* The flag is up while a bootstrap is under way, and an attempt is left for it.
FlagWhileInFlight ==
  \A c \in ScaleCall : flight[c] # "none" =>
    inFlight /\ (flight[c] \in {"verify", "simulated", "run"} => scAttempts < MaxAttempts)

\* What a state of the rate limit says of this hour.
CountOf(count, old) == IF old THEN 0 ELSE count

\* The tokens of the hour are counted or forgotten; a stored state counts those
\* but for the unsaved ones, and one being saved those before its mark too.
TokensCounted ==
  /\ taken <= CountOf(rateCount, windowOld) + forgotten
  /\ taken - unsaved <= CountOf(scStored.count, scStored.windowOld) + forgotten
  /\ encoded.there => (taken - unsaved) + mark <= CountOf(encoded.count, encoded.windowOld) + forgotten
  /\ ~encoded.there => mark = 0

ScInv == ScVarsOK /\ ScPlacesOK /\ OneBootstrap /\ FlagWhileInFlight /\ TokensCounted

\* What ScalingSafe says of the scaler follows.
LEMMA ScInvSafe == ScInv => ScTypeOK /\ OneBootstrap /\ BootstrapsBounded /\ RateAcrossRestart
<1> SUFFICES ASSUME ScInv PROVE ScTypeOK /\ OneBootstrap /\ BootstrapsBounded /\ RateAcrossRestart
  OBVIOUS
<1> USE ScalingAssumption DEF ScInv, ScVarsOK
<1>1. ScTypeOK
  BY DEF ScPlacesOK, ScTypeOK
<1>2. BootstrapsBounded
  BY DEF BootstrapsBounded
<1>3. RateAcrossRestart
  BY DEF TokensCounted, CountOf, RateAcrossRestart
<1> QED BY <1>1, <1>2, <1>3

\* The initial state has the invariant.
LEMMA ScInitInv == ScInit => ScInv
<1> SUFFICES ASSUME ScInit PROVE ScInv
  OBVIOUS
<1> USE ScalingAssumption DEF ScInit
<1>1. NoSavedState \in SavedStates
  BY DEF NoSavedState, SavedStates
<1>2. ScVarsOK
  <2>1. windowOld \in BOOLEAN /\ inFlight \in BOOLEAN
    BY Zenon
  <2> QED BY <1>1, <2>1 DEF ScVarsOK
<1>3. ScPlacesOK /\ OneBootstrap /\ FlagWhileInFlight
  BY DEF ScPlacesOK, OneBootstrap, FlagWhileInFlight
<1>4. TokensCounted
  BY DEF TokensCounted, CountOf, NoSavedState
<1> QED BY <1>2, <1>3, <1>4 DEF ScInv

\* PredictAndScale up to the bootstrap takes a token and no more.
LEMMA ScDecideStep ==
  ASSUME ScInv, NEW c \in ScaleCall,
         PredictAndScale(c) \/ NoNeed(c) \/ AllowBootstrap(c) \/ Backoff(c)
  PROVE  ScInv'
<1> USE ScalingAssumption DEF ScInv
<1>1. UNCHANGED <<scAttempts, inFlight, flight, scStored, encoded, mark, forgotten>>
  BY DEF PredictAndScale, NoNeed, AllowBootstrap, Backoff, scState, scSave, scRate
<1>2. ScPlacesOK'
  BY DEF PredictAndScale, NoNeed, AllowBootstrap, Backoff, ScGoto, ScPlacesOK
<1>3. OneBootstrap' /\ FlagWhileInFlight'
  BY <1>1 DEF OneBootstrap, FlagWhileInFlight
<1>4. CASE AllowBootstrap(c)
  <2>1. PICK n \in 0..BootstrapsPerHour, k \in {0, 1} :
          /\ windowOld' = FALSE /\ rateCount' = n
          /\ n = CountOf(rateCount, windowOld) + k
          /\ taken' = taken + k /\ unsaved' = unsaved + k
    <3>1. CountOf(rateCount, windowOld) \in 0..BootstrapsPerHour
      BY DEF ScVarsOK, CountOf
    <3>2. taken + 0 = taken /\ unsaved + 0 = unsaved
      BY DEF ScVarsOK
    <3>3. CASE CountOf(rateCount, windowOld) >= BootstrapsPerHour
      <4>1. rateCount' = CountOf(rateCount, windowOld) + 0 /\ windowOld' = FALSE
            /\ taken' = taken + 0 /\ unsaved' = unsaved + 0
        BY <1>4, <3>1, <3>2, <3>3 DEF AllowBootstrap, CountOf
      <4> QED BY <3>1, <4>1
    <3>4. CASE ~(CountOf(rateCount, windowOld) >= BootstrapsPerHour)
      <4>1. rateCount' = CountOf(rateCount, windowOld) + 1 /\ windowOld' = FALSE
            /\ taken' = taken + 1 /\ unsaved' = unsaved + 1
        BY <1>4, <3>4 DEF AllowBootstrap, CountOf
      <4>2. CountOf(rateCount, windowOld) + 1 \in 0..BootstrapsPerHour
        BY <3>1, <3>4
      <4> QED BY <4>1, <4>2
    <3> QED BY <3>3, <3>4
  <2>2. ScVarsOK'
    <3>1. windowOld' \in BOOLEAN
      BY <2>1, Zenon
    <3>2. inFlight' \in BOOLEAN /\ scStored' \in SavedStates /\ encoded' \in SavedStates
      BY <1>1 DEF ScVarsOK
    <3>3. taken' \in Nat /\ unsaved' \in 0..taken' /\ mark' \in 0..unsaved' /\ forgotten' \in Nat
      BY <1>1, <2>1 DEF ScVarsOK
    <3>4. rateCount' \in 0..BootstrapsPerHour /\ scAttempts' \in 0..MaxAttempts
      BY <1>1, <2>1 DEF ScVarsOK
    <3> QED BY <3>1, <3>2, <3>3, <3>4 DEF ScVarsOK
  <2>3. TokensCounted'
    BY <1>1, <2>1 DEF ScVarsOK, TokensCounted, CountOf, SavedStates
  <2> QED BY <1>2, <1>3, <2>2, <2>3
<1>5. CASE UNCHANGED <<rateCount, windowOld, taken, unsaved>>
  BY <1>1, <1>2, <1>3, <1>5 DEF ScVarsOK, TokensCounted
<1>6. AllowBootstrap(c) \/ UNCHANGED <<rateCount, windowOld, taken, unsaved>>
  BY DEF PredictAndScale, NoNeed, Backoff, scRate
<1> QED BY <1>4, <1>5, <1>6

\* A bootstrap begins under the flag, which its own end takes down again.
LEMMA ScFlightStep ==
  ASSUME ScInv, NEW c \in ScaleCall,
         \/ \E leads \in BOOLEAN : StartBootstrap(c, leads)
         \/ Verify(c) \/ Simulated(c) \/ BootstrapEnds(c) \/ ClearInFlight(c)
  PROVE  ScInv'
<1> USE ScalingAssumption DEF ScInv, ScVarsOK, ScPlacesOK
<1>1. UNCHANGED <<rateCount, windowOld, taken, unsaved, forgotten, scStored, encoded, mark>>
  BY DEF StartBootstrap, Verify, Simulated, BootstrapEnds, ClearInFlight, scRate, scSave
<1>2. TokensCounted'
  BY <1>1 DEF TokensCounted
<1>3. CASE \E leads \in BOOLEAN : StartBootstrap(c, leads)
  <2>1. scAttempts' = scAttempts /\ scPc' = [scPc EXCEPT ![c] = "idle"]
    BY <1>3 DEF StartBootstrap, ScGoto
  <2>2. CASE UNCHANGED <<inFlight, flight>>
    BY <1>1, <1>2, <2>1, <2>2 DEF OneBootstrap, FlagWhileInFlight
  <2>3. CASE MayBootstrap /\ inFlight' = TRUE /\ flight' = [flight EXCEPT ![c] = "verify"]
    <3>1. scAttempts < MaxAttempts /\ \A d \in ScaleCall : flight[d] = "none"
      BY <2>3 DEF MayBootstrap, FlagWhileInFlight
    <3>2. inFlight' \in BOOLEAN
      BY <2>3, Zenon
    <3>3. OneBootstrap' /\ FlagWhileInFlight'
      BY <2>1, <2>3, <3>1 DEF OneBootstrap, FlagWhileInFlight
    <3> QED BY <1>1, <1>2, <2>1, <2>3, <3>2, <3>3
  <2> QED BY <1>3, <2>2, <2>3 DEF StartBootstrap
<1>4. CASE Verify(c) \/ Simulated(c) \/ BootstrapEnds(c)
  <2>1. PICK place \in {"clear", "simulated", "run"} : flight' = [flight EXCEPT ![c] = place]
    BY <1>4 DEF Verify, Simulated, BootstrapEnds, FlightTo
  <2>2. flight[c] \in {"verify", "simulated", "run"} /\ UNCHANGED <<inFlight, scPc>>
    BY <1>4 DEF Verify, Simulated, BootstrapEnds, scState, scCall
  <2>3. inFlight /\ scAttempts < MaxAttempts
    BY <2>2 DEF FlagWhileInFlight
  <2>4. /\ scAttempts' \in {0, scAttempts, scAttempts + 1}
        /\ place # "clear" => scAttempts' = scAttempts
    BY <1>4, <2>1, <2>2 DEF Verify, Simulated, BootstrapEnds, FlightTo, scState
  <2>5. scAttempts' \in 0..MaxAttempts
    BY <2>3, <2>4
  <2>6. \A d \in ScaleCall : flight[d] # "none" => d = c
    BY <2>2 DEF OneBootstrap
  <2>7. OneBootstrap' /\ FlagWhileInFlight'
    BY <2>1, <2>2, <2>3, <2>4, <2>6 DEF OneBootstrap, FlagWhileInFlight
  <2> QED BY <1>1, <1>2, <2>1, <2>2, <2>5, <2>7
<1>5. CASE ClearInFlight(c)
  <2>1. /\ flight' = [flight EXCEPT ![c] = "none"]
        /\ inFlight' \in BOOLEAN /\ UNCHANGED <<scAttempts, scPc>>
    BY <1>5, Zenon DEF ClearInFlight, FlightTo, scCall
  <2>2. \A d \in ScaleCall : flight[d] # "none" => d = c
    BY <1>5 DEF ClearInFlight, OneBootstrap
  <2>3. OneBootstrap' /\ FlagWhileInFlight'
    BY <2>1, <2>2 DEF OneBootstrap, FlagWhileInFlight
  <2> QED BY <1>1, <1>2, <2>1, <2>3
<1> QED BY <1>3, <1>4, <1>5

\* Saving leaves out no token but the unsaved ones, and a restart counts them.
LEMMA ScStoreStep ==
  ASSUME ScInv, SaveScState \/ StoreState \/ ScRestart \/ ScHourPasses \/ BackoffPasses
  PROVE  ScInv'
<1> USE ScalingAssumption DEF ScInv, ScVarsOK, ScPlacesOK
<1>0. NoSavedState \in SavedStates /\ NoSavedState.there = FALSE
  BY DEF NoSavedState, SavedStates
<1>1. CASE SaveScState
  <2>1. PersistedState \in SavedStates
    BY DEF PersistedState, SavedStates
  <2>2. UNCHANGED <<scAttempts, inFlight, rateCount, windowOld, taken, unsaved, forgotten, scPc, flight,
                    scStored>> /\ encoded' = PersistedState /\ mark' = unsaved
    BY <1>1 DEF SaveScState, scState, scRate, scCall
  <2>3. TokensCounted'
    BY <2>2 DEF TokensCounted, CountOf, PersistedState
  <2> QED BY <2>1, <2>2, <2>3 DEF OneBootstrap, FlagWhileInFlight
<1>2. CASE StoreState
  <2>1. UNCHANGED <<scAttempts, inFlight, rateCount, windowOld, taken, forgotten, scPc, flight>>
        /\ scStored' = encoded /\ encoded' = NoSavedState /\ encoded.there
        /\ unsaved' = unsaved - mark /\ mark' = 0
    BY <1>2 DEF StoreState, scState, scCall
  <2>2. TokensCounted'
    BY <1>0, <2>1 DEF TokensCounted, CountOf, SavedStates
  <2> QED BY <1>0, <2>1, <2>2 DEF OneBootstrap, FlagWhileInFlight
<1>3. CASE ScRestart
  <2>1. /\ scAttempts' = scStored.attempts /\ rateCount' = scStored.count
        /\ windowOld' = scStored.windowOld /\ scStored' = scStored /\ encoded' = NoSavedState
        /\ taken' = taken /\ unsaved' = 0 /\ mark' = 0 /\ forgotten' = forgotten + unsaved
    BY <1>3 DEF ScRestart
  <2>2. /\ scPc' = [d \in ScaleCall |-> "idle"] /\ flight' = [d \in ScaleCall |-> "none"]
        /\ inFlight' \in BOOLEAN
    BY <1>3, Zenon DEF ScRestart
  <2>3. TokensCounted'
    BY <1>0, <2>1 DEF TokensCounted, CountOf, SavedStates
  <2>4. ScVarsOK'
    BY <1>0, <2>1, <2>2 DEF SavedStates
  <2> QED BY <2>2, <2>3, <2>4 DEF OneBootstrap, FlagWhileInFlight
<1>4. CASE ScHourPasses
  <2>1. /\ UNCHANGED <<scAttempts, inFlight, rateCount, scPc, flight>>
        /\ taken' = 0 /\ unsaved' = 0 /\ mark' = 0 /\ forgotten' = 0
        /\ scStored' = [scStored EXCEPT !.windowOld = TRUE]
        /\ encoded' = [encoded EXCEPT !.windowOld = TRUE]
    BY <1>4 DEF ScHourPasses, scState, scCall
  <2>2. windowOld' = TRUE
    BY <1>4 DEF ScHourPasses
  <2>3. TokensCounted'
    BY <2>1, <2>2 DEF TokensCounted, CountOf, SavedStates
  <2>4. windowOld' \in BOOLEAN
    BY <2>2, Zenon
  <2>5. scStored' \in SavedStates /\ encoded' \in SavedStates
    BY <2>1 DEF SavedStates
  <2>6. ScVarsOK'
    BY <2>1, <2>4, <2>5
  <2> QED BY <2>1, <2>3, <2>6 DEF OneBootstrap, FlagWhileInFlight
<1>5. CASE BackoffPasses
  BY <1>5 DEF BackoffPasses, scRate, scSave, TokensCounted, OneBootstrap, FlagWhileInFlight
<1> QED BY <1>1, <1>2, <1>3, <1>4, <1>5

\* The invariant holds in every state.
THEOREM ScalingInvariant == ScSpec => []ScInv
<1>1. ScInv /\ [ScNext]_scVars => ScInv'
  <2> SUFFICES ASSUME ScInv, [ScNext]_scVars PROVE ScInv'
    OBVIOUS
  <2>1. CASE UNCHANGED scVars
    BY <2>1 DEF scVars, scState, scRate, scCall, scSave, ScInv, ScVarsOK, ScPlacesOK,
                OneBootstrap, FlagWhileInFlight, TokensCounted
  <2> QED BY <2>1, ScDecideStep, ScFlightStep, ScStoreStep DEF ScNext
<1> QED BY ScInitInv, <1>1, PTL DEF ScSpec

(***************************************************************************)
(* AIMode                                                                  *)
(***************************************************************************)
\* The threshold is reached where a fallback is asked for, and only there.
PollCounts ==
  /\ pollBad \in Nat /\ badRounds = pollBad
  /\ modePollPc \in {"idle", "tick", "probe", "ended"} => pollBad < FailThreshold
  /\ modePollPc \in {"trigger", "fallback", "stuck"} => pollBad = FailThreshold

\* Who has been let through since the lock was taken, with stateMu free, sets the
\* fallback; the end of the fallback keeps stateMu.
LockSeen ==
  \A c \in ModeCall :
    /\ modePc[c] = "set" /\ aiLocked /\ ~stateHeld => modeArg[c] = "fallback"
    /\ modePc[c] = "end" => stateHeld /\ ~aiLocked

ModePlacesOK ==
  /\ modePc \in [ModeCall -> {"idle", "look", "set", "note", "end", "trigger", "stuck"}]
  /\ modeArg \in [ModeCall -> Mode \cup {"none"}]
  /\ \A c \in ModeCall : modePc[c] \in {"look", "set"} => modeArg[c] \in Mode

SaversOK ==
  /\ saverPc \in [ModeSaver -> {"unused", "mode", "locked", "save", "saved"}]
  /\ saverRead \in [ModeSaver -> (Mode \X BOOLEAN) \cup {NoFile}]
  /\ \A s \in ModeSaver : saverPc[s] = "locked" => saverRead[s] \in Mode \X BOOLEAN
  /\ modeFile \in (Mode \X BOOLEAN) \cup {NoFile, Torn}

ModeVarsOK ==
  /\ aiMode \in Mode /\ aiLocked \in BOOLEAN /\ stateHeld \in BOOLEAN /\ aiRestarts \in Nat
  /\ modePollPc \in {"idle", "tick", "probe", "trigger", "fallback", "stuck", "ended"}
  /\ stopPc \in {"idle", "waits", "stopped"}

ModeInv == ModeVarsOK /\ ModePlacesOK /\ SaversOK /\ PollCounts /\ LockSeen

\* What ObservedRight says of the mode follows.
LEMMA ModeInvSays == ModeInv => AIModeTypeOK /\ FallbackEarned
<1> SUFFICES ASSUME ModeInv PROVE AIModeTypeOK /\ FallbackEarned
  OBVIOUS
<1>1. pollBad \in 0..FailThreshold /\ badRounds \in 0..FailThreshold /\ FallbackEarned
  BY AIModeAssumption DEF ModeInv, ModeVarsOK, PollCounts, FallbackEarned
<1>2. /\ aiMode \in Mode /\ aiLocked \in BOOLEAN /\ stateHeld \in BOOLEAN
      /\ modePollPc \in {"idle", "tick", "probe", "trigger", "fallback", "stuck", "ended"}
      /\ modeFile \in (Mode \X BOOLEAN) \cup {NoFile, Torn}
      /\ stopPc \in {"idle", "waits", "stopped"}
  BY DEF ModeInv, ModeVarsOK, SaversOK
<1>3. \A c \in ModeCall : modePc[c] \in {"idle", "look", "set", "note", "end", "trigger", "stuck"}
                          /\ modeArg[c] \in Mode \cup {"none"}
  BY DEF ModeInv, ModePlacesOK
<1> QED BY <1>1, <1>2, <1>3 DEF AIModeTypeOK

\* The controller starts in proxy mode with nothing under way.
LEMMA ModeInitInv == AIModeInit => ModeInv
<1> SUFFICES ASSUME AIModeInit PROVE ModeInv
  OBVIOUS
<1>1. ModeVarsOK /\ SaversOK
  BY DEF AIModeInit, ModeVarsOK, SaversOK, Mode
<1>2. ModePlacesOK /\ LockSeen
  BY DEF AIModeInit, ModePlacesOK, LockSeen
<1>3. PollCounts
  BY AIModeAssumption DEF AIModeInit, PollCounts
<1> QED BY <1>1, <1>2, <1>3 DEF ModeInv

\* The steps of the calls of the routes.
LEMMA ModeCallStep ==
  ASSUME ModeInv, NEW c \in ModeCall,
         \/ LookAtLock(c) \/ StoreMode(c) \/ EndFallback(c) \/ EndsWithProxy(c)
         \/ TriggerFallback(c) \/ TriggerSetsMode(c)
         \/ \E m \in Mode : CallSetMode(c, m)
         \/ \E s \in ModeSaver : NoteMode(c, s)
  PROVE  ModeInv'
<1> USE DEF ModeInv
<1>1. PollCounts'
  BY DEF PollCounts, pollVars, LookAtLock, StoreMode, EndFallback, EndsWithProxy,
         TriggerFallback, TriggerSetsMode, CallSetMode, NoteMode
<1>2. ModePlacesOK'
  BY DEF ModePlacesOK, ModeGoto, LookAtLock, StoreMode, EndFallback, EndsWithProxy,
         TriggerFallback, TriggerSetsMode, CallSetMode, NoteMode, Refuses
<1>3. SaversOK'
  BY DEF SaversOK, saverVars, LookAtLock, StoreMode, EndFallback, EndsWithProxy,
         TriggerFallback, TriggerSetsMode, CallSetMode, NoteMode
<1>4. ModeVarsOK'
  <2>1. CASE UNCHANGED <<aiMode, aiLocked, stateHeld, modePollPc, stopPc, aiRestarts>>
    BY <2>1 DEF ModeVarsOK
  <2>2. CASE StoreMode(c)
    BY <2>2 DEF StoreMode, ModeVarsOK, ModePlacesOK, pollVars
  <2>3. CASE EndsWithProxy(c) \/ TriggerSetsMode(c)
    BY <2>3 DEF EndsWithProxy, TriggerSetsMode, ModeVarsOK, Mode, pollVars
  <2>4. CASE EndFallback(c) \/ TriggerFallback(c)
    BY <2>4, Zenon DEF EndFallback, TriggerFallback, ModeVarsOK, pollVars
  <2> QED BY <2>1, <2>2, <2>3, <2>4 DEF LookAtLock, CallSetMode, NoteMode, pollVars
<1>5. LockSeen'
  <2>1. CASE EndFallback(c) \/ TriggerFallback(c)
    BY <2>1 DEF EndFallback, TriggerFallback, LockSeen, ModePlacesOK, ModeGoto
  <2>2. CASE LookAtLock(c)
    BY <2>2 DEF LookAtLock, LockSeen, ModePlacesOK, ModeGoto, Refuses
  <2>3. CASE \/ StoreMode(c) \/ EndsWithProxy(c) \/ TriggerSetsMode(c)
             \/ \E m \in Mode : CallSetMode(c, m)
             \/ \E s \in ModeSaver : NoteMode(c, s)
    BY <2>3 DEF StoreMode, EndsWithProxy, TriggerSetsMode, CallSetMode, NoteMode, LockSeen,
                ModePlacesOK, ModeGoto
  <2> QED BY <2>1, <2>2, <2>3
<1> QED BY <1>1, <1>2, <1>3, <1>4, <1>5

\* The steps of the poller and of Stop.
LEMMA ModePollStep ==
  ASSUME ModeInv, PollHealth \/ PollStep \/ CallStop \/ StopReturns
  PROVE  ModeInv'
<1> USE DEF ModeInv
<1>1. ModePlacesOK' /\ SaversOK'
  BY DEF ModePlacesOK, SaversOK, PollHealth, PollStep, CallStop, StopReturns, PollTick,
         ProbesGood, ProbesBad, PollTriggers, PollSetsMode, PollRefused, PollEnds,
         modeCallVars, saverVars
<1>2. PollCounts'
  BY AIModeAssumption
     DEF PollCounts, PollHealth, PollStep, CallStop, StopReturns, PollTick, ModeVarsOK,
         ProbesGood, ProbesBad, PollTriggers, PollSetsMode, PollRefused, PollEnds,
         CountAfterGood, pollVars
<1>3. LockSeen'
  <2>1. UNCHANGED <<modePc, modeArg>> /\ (UNCHANGED <<aiLocked, stateHeld>> \/ PollTriggers)
    BY DEF PollHealth, PollStep, CallStop, StopReturns, PollTick, ProbesGood, ProbesBad,
           PollTriggers, PollSetsMode, PollRefused, PollEnds, modeCallVars
  <2>2. CASE UNCHANGED <<aiLocked, stateHeld>>
    BY <2>1, <2>2 DEF LockSeen
  <2>3. CASE PollTriggers
    BY <2>1, <2>3 DEF LockSeen, PollTriggers
  <2> QED BY <2>1, <2>2, <2>3
<1>4. ModeVarsOK'
  <2>1. aiLocked' \in BOOLEAN /\ stateHeld' \in BOOLEAN
    BY Zenon DEF ModeVarsOK, PollHealth, PollStep, CallStop, StopReturns, PollTick,
         ProbesGood, ProbesBad, PollTriggers, PollSetsMode, PollRefused, PollEnds
  <2>2. aiMode' \in Mode /\ aiRestarts' = aiRestarts
    BY DEF ModeVarsOK, PollHealth, PollStep, CallStop, StopReturns, PollTick, Mode,
         ProbesGood, ProbesBad, PollTriggers, PollSetsMode, PollRefused, PollEnds
  <2>3. /\ modePollPc' \in {"idle", "tick", "probe", "trigger", "fallback", "stuck", "ended"}
        /\ stopPc' \in {"idle", "waits", "stopped"}
    BY DEF ModeVarsOK, PollHealth, PollStep, CallStop, StopReturns, PollTick, pollVars,
         ProbesGood, ProbesBad, PollTriggers, PollSetsMode, PollRefused, PollEnds
  <2> QED BY <2>1, <2>2, <2>3 DEF ModeVarsOK
<1> QED BY <1>1, <1>2, <1>3, <1>4

\* The steps of a goroutine that saves.
LEMMA ModeSaverStep ==
  ASSUME ModeInv, NEW s \in ModeSaver, SaverReadsMode(s) \/ SaverReadsLock(s) \/ SaveMode(s)
  PROVE  ModeInv'
<1> USE DEF ModeInv
<1>0. UNCHANGED <<aiMode, aiLocked, stateHeld, modePc, modeArg, modePollPc, pollBad, badRounds>>
  BY DEF SaverReadsMode, SaverReadsLock, SaveMode, modeCallVars, pollVars
<1>1. ModePlacesOK' /\ PollCounts' /\ LockSeen'
  BY <1>0 DEF ModePlacesOK, PollCounts, LockSeen
<1>2. ModeVarsOK'
  BY DEF ModeVarsOK, SaverReadsMode, SaverReadsLock, SaveMode, pollVars
<1>3. SaversOK'
  <2>1. CASE SaverReadsMode(s)
    <3>1. <<aiMode, FALSE>> \in Mode \X BOOLEAN
      BY DEF ModeVarsOK
    <3> QED BY <2>1, <3>1 DEF SaverReadsMode, SaversOK
  <2>2. CASE SaverReadsLock(s)
    <3>1. <<saverRead[s][1], aiLocked>> \in Mode \X BOOLEAN
      BY <2>2 DEF SaverReadsLock, SaversOK, ModeVarsOK
    <3> QED BY <2>2, <3>1 DEF SaverReadsLock, SaversOK
  <2>3. CASE SaveMode(s)
    <3>1. modeFile' \in (Mode \X BOOLEAN) \cup {NoFile, Torn}
      BY <2>3 DEF SaveMode, SaversOK
    <3> QED BY <2>3, <3>1 DEF SaveMode, SaversOK
  <2> QED BY <2>1, <2>2, <2>3
<1> QED BY <1>1, <1>2, <1>3

\* A crash loses what was under way, and leaves the file.
LEMMA ModeRestartStep ==
  ASSUME ModeInv, ControllerRestart
  PROVE  ModeInv'
<1> USE DEF ModeInv
<1>1. /\ modePc' = [c \in ModeCall |-> "idle"] /\ modeArg' = [c \in ModeCall |-> "none"]
      /\ modePollPc' = "idle" /\ pollBad' = 0 /\ badRounds' = 0 /\ stopPc' = "idle"
      /\ saverPc' = [s \in ModeSaver |-> IF saverPc[s] = "unused" THEN "unused" ELSE "saved"]
      /\ saverRead' = saverRead /\ modeFile' = modeFile /\ aiRestarts' = aiRestarts + 1
  BY DEF ControllerRestart
<1>2. ModePlacesOK' /\ LockSeen'
  BY <1>1 DEF ModePlacesOK, LockSeen
<1>3. PollCounts'
  BY <1>1, AIModeAssumption DEF PollCounts
<1>4. SaversOK'
  BY <1>1 DEF SaversOK
<1>5. ModeVarsOK'
  <2>1. modeFile[2] \in BOOLEAN /\ (modeFile \notin {NoFile, Torn} => modeFile[1] \in Mode)
    <3>1. CASE modeFile \in {NoFile, Torn}
      <4>1. NoFile[2] \in BOOLEAN /\ Torn[2] \in BOOLEAN
        BY DEF NoFile, Torn
      <4> QED BY <3>1, <4>1, Zenon
    <3>2. CASE modeFile \in Mode \X BOOLEAN
      BY <3>2
    <3> QED BY <3>1, <3>2 DEF SaversOK
  <2>3. aiMode' \in Mode
    BY <2>1 DEF ControllerRestart, Mode
  <2>2. aiLocked' \in BOOLEAN /\ stateHeld' \in BOOLEAN
    BY <2>1, Zenon DEF ControllerRestart
  <2> QED BY <1>1, <2>1, <2>2, <2>3 DEF ModeVarsOK
<1> QED BY <1>2, <1>3, <1>4, <1>5

\* The invariant holds in every state.
THEOREM ModeInvariant == AIModeSpec => []ModeInv
<1>1. ModeInv /\ [AIModeNext]_aiVars => ModeInv'
  <2> SUFFICES ASSUME ModeInv, [AIModeNext]_aiVars PROVE ModeInv'
    OBVIOUS
  <2>1. CASE UNCHANGED aiVars
    BY <2>1 DEF aiVars, modeCallVars, pollVars, saverVars, ModeInv, ModeVarsOK, ModePlacesOK,
                SaversOK, PollCounts, LockSeen
  <2> QED BY <2>1, ModeCallStep, ModePollStep, ModeSaverStep, ModeRestartStep DEF AIModeNext
<1> QED BY ModeInitInv, <1>1, PTL DEF AIModeSpec

\* A locked fallback is left only by a SetMode that had looked before the lock was
\* taken, or by the end of the fallback or of the process.
LEMMA LockedModeStep == ModeInv /\ [AIModeNext]_aiVars => LockedModeKept
<1> SUFFICES ASSUME ModeInv, [AIModeNext]_aiVars, aiLocked, aiMode = "fallback",
                    aiMode' # "fallback", aiRestarts' = aiRestarts
             PROVE  \E c \in ModeCall : modePc[c] = "set" /\ stateHeld
  BY DEF LockedModeKept
<1>1. ~ControllerRestart
  BY DEF ControllerRestart, ModeInv, ModeVarsOK
<1>2. ~ UNCHANGED aiMode
  OBVIOUS
<1>3. PICK c \in ModeCall : StoreMode(c) \/ EndsWithProxy(c)
  BY <1>1, <1>2 DEF AIModeNext, aiVars, LookAtLock, EndFallback, TriggerFallback,
         TriggerSetsMode, CallSetMode, NoteMode, PollHealth, PollStep, CallStop, StopReturns,
         PollTick, ProbesGood, ProbesBad, PollTriggers, PollSetsMode, PollRefused, PollEnds,
         SaverReadsMode, SaverReadsLock, SaveMode
<1> QED BY <1>3 DEF StoreMode, EndsWithProxy, ModeInv, LockSeen

(***************************************************************************)
(* Monitor                                                                 *)
(***************************************************************************)
\* Indices of the ring wrap around once.
LEMMA WrapsOnce ==
  ASSUME NEW n \in Nat \ {0}
  PROVE  \A x \in 0..(2 * n - 1) : x % n = IF x < n THEN x ELSE x - n
  OBVIOUS

\* So does the place after an index.
LEMMA NextPlace ==
  ASSUME NEW n \in Nat \ {0}, NEW p \in Nat, p < n
  PROVE  (p + 1) % n = IF p + 1 = n THEN 0 ELSE p + 1
  OBVIOUS

\* The ring has the last samples: those of this lap before the pointer, those of
\* the lap before from the pointer on.
RingIsTail ==
  /\ ring \in [0..(RingSize - 1) -> 0..MaxSample]
  /\ pushed \in 0..MaxSample /\ ringPtr \in 0..(RingSize - 1) /\ ringFull \in BOOLEAN
  /\ ringFull => /\ pushed >= RingSize
                 /\ \A i \in 0..(RingSize - 1) :
                      ring[i] = IF i < ringPtr THEN pushed - ringPtr + i + 1
                                ELSE pushed - ringPtr - RingSize + i + 1
  /\ ~ringFull => /\ pushed = ringPtr
                  /\ \A i \in 0..(RingSize - 1) : i < ringPtr => ring[i] = i + 1

ReportsOK ==
  /\ reportPc \in [Reporter -> {"idle", "latest", "list", "heal", "decide"}]
  /\ reportOwn \in [Reporter -> Nat \X Nat]
  /\ DOMAIN reportSeen = Reporter
  /\ reportLast \in [Reporter -> 0..MaxClock]
  /\ healing \in [Reporter -> BOOLEAN]
  /\ clock \in 1..MaxClock /\ lastHeal \in 0..MaxClock /\ endedAt = lastHeal

\* What a report sees is not older than what it has pushed.
SeenInOrder ==
  \A r \in Reporter :
    /\ reportPc[r] # "idle" => reportOwn[r][1] \in 1..pushed /\ reportOwn[r][2] <= clock
    /\ reportPc[r] = "list" => /\ reportSeen[r][2] \in Nat
                               /\ reportOwn[r][1] <= reportSeen[r][2]
                               /\ reportSeen[r][2] <= pushed

\* What is read of the last restart is it, unless it has ended since the push.
HealSeen ==
  \A r \in Reporter : reportPc[r] = "decide" =>
    reportLast[r] = lastHeal \/ lastHeal >= reportOwn[r][2]

MonitorInv ==
  RingIsTail /\ ReportsOK /\ SeenInOrder /\ HealSeen /\ ListIsTail /\ LatestNotOlder

\* The monitor starts with an empty ring.
LEMMA MonitorInitInv == MonitorInit => MonitorInv
<1> SUFFICES ASSUME MonitorInit PROVE MonitorInv
  OBVIOUS
<1>1. RingIsTail
  <2>1. ringFull \in BOOLEAN /\ ~ringFull
    BY Zenon DEF MonitorInit
  <2> QED BY <2>1, MonitorAssumption DEF MonitorInit, RingIsTail
<1>2. ReportsOK
  BY MonitorAssumption DEF MonitorInit, ReportsOK
<1>3. SeenInOrder /\ HealSeen /\ ListIsTail /\ LatestNotOlder
  BY DEF MonitorInit, SeenInOrder, HealSeen, ListIsTail, LatestNotOlder
<1> QED BY <1>1, <1>2, <1>3 DEF MonitorInv

\* The latest sample is the last one that was pushed, and the list ends with it.
LEMMA RingSays ==
  ASSUME RingIsTail, pushed # 0
  PROVE  /\ Latest = pushed
         /\ \E n \in 1..RingSize :
              /\ n = IF pushed < RingSize THEN pushed ELSE RingSize
              /\ ListedSamples = [i \in 1..n |-> pushed - n + i]
<1>1. /\ RingSize \in Nat \ {0} /\ pushed \in Nat /\ ringPtr \in 0..(RingSize - 1)
      /\ ringFull \in BOOLEAN /\ pushed >= 1
  BY MonitorAssumption DEF RingIsTail
<1>2. \A x \in 0..(2 * RingSize - 1) : x % RingSize = IF x < RingSize THEN x ELSE x - RingSize
  BY <1>1, WrapsOnce
<1>3. Latest = pushed
  <2>1. (ringPtr + RingSize - 1) % RingSize = IF ringPtr = 0 THEN RingSize - 1 ELSE ringPtr - 1
    <3>1. ringPtr + RingSize - 1 \in 0..(2 * RingSize - 1)
      BY <1>1
    <3> QED BY <1>1, <1>2, <3>1
  <2>2. CASE ringPtr = 0
    <3>1. ringFull
      BY <1>1, <2>2 DEF RingIsTail
    <3> QED BY <1>1, <2>1, <2>2, <3>1 DEF RingIsTail, Latest
  <2>3. CASE ringPtr # 0
    <3>1. ring[ringPtr - 1] = pushed
      BY <1>1, <2>3 DEF RingIsTail
    <3> QED BY <2>1, <2>3, <3>1 DEF Latest
  <2> QED BY <2>2, <2>3
<1>4. CASE ringFull
  <2>1. pushed >= RingSize /\ pushed - RingSize + 1 >= 1
    BY <1>1, <1>4 DEF RingIsTail
  <2>2. ASSUME NEW i \in 1..RingSize
        PROVE  ring[(ringPtr + i - 1) % RingSize] = pushed - RingSize + i
    <3>1. ringPtr + i - 1 \in 0..(2 * RingSize - 1)
      BY <1>1
    <3>2. CASE ringPtr + i - 1 < RingSize
      <4>1. (ringPtr + i - 1) % RingSize = ringPtr + i - 1
        BY <1>1, <1>2, <3>1, <3>2
      <4>2. ringPtr + i - 1 \in 0..(RingSize - 1) /\ ~(ringPtr + i - 1 < ringPtr)
        BY <1>1, <3>2
      <4>3. ring[ringPtr + i - 1] = pushed - ringPtr - RingSize + (ringPtr + i - 1) + 1
        BY <1>4, <4>2 DEF RingIsTail
      <4> QED BY <1>1, <4>1, <4>3
    <3>3. CASE ~(ringPtr + i - 1 < RingSize)
      <4>1. (ringPtr + i - 1) % RingSize = ringPtr + i - 1 - RingSize
        BY <1>1, <1>2, <3>1, <3>3
      <4>2. /\ ringPtr + i - 1 - RingSize \in 0..(RingSize - 1)
            /\ ringPtr + i - 1 - RingSize < ringPtr
        BY <1>1, <3>3
      <4>3. ring[ringPtr + i - 1 - RingSize] = pushed - ringPtr + (ringPtr + i - 1 - RingSize) + 1
        BY <1>4, <4>2 DEF RingIsTail
      <4> QED BY <1>1, <4>1, <4>3
    <3> QED BY <3>2, <3>3
  <2>3. ListedSamples = [i \in 1..RingSize |-> pushed - RingSize + i]
    BY <1>4, <2>2 DEF ListedSamples
  <2>4. RingSize \in 1..RingSize
    BY <1>1
  <2> QED BY <1>1, <1>3, <2>1, <2>3, <2>4
<1>5. CASE ~ringFull
  <2>1. pushed = ringPtr /\ pushed < RingSize /\ pushed \in 1..RingSize
    BY <1>1, <1>5 DEF RingIsTail
  <2>2. \A i \in 1..pushed : ring[i - 1] = pushed - pushed + i
    BY <1>1, <1>5, <2>1 DEF RingIsTail
  <2>3. ListedSamples = [i \in 1..pushed |-> pushed - pushed + i]
    BY <1>5, <2>1, <2>2 DEF ListedSamples
  <2> QED BY <1>1, <1>3, <2>1, <2>3
<1> QED BY <1>1, <1>4, <1>5

\* A push writes the ring's next place.
LEMMA RingPushed ==
  ASSUME RingIsTail, NEW r \in Reporter, Push(r)
  PROVE  RingIsTail'
<1>1. /\ RingSize \in Nat \ {0} /\ pushed \in 0..MaxSample /\ ringPtr \in 0..(RingSize - 1)
      /\ MaxSample \in Nat
      /\ ring \in [0..(RingSize - 1) -> 0..MaxSample]
  BY MonitorAssumption DEF RingIsTail
<1>2. /\ pushed < MaxSample /\ pushed' = pushed + 1
      /\ ring' = [ring EXCEPT ![ringPtr] = pushed + 1]
  BY DEF Push
<1>3. ringFull' \in BOOLEAN /\ (ringFull' <=> (ringFull \/ ringPtr + 1 = RingSize))
  <2>1. ringFull' = (ringFull \/ ringPtr + 1 = RingSize)
    BY Zenon DEF Push
  <2> QED BY <2>1, Zenon
<1>4. ringPtr' = IF ringPtr + 1 = RingSize THEN 0 ELSE ringPtr + 1
  <2>2. RingSize \in Nat \ {0} /\ ringPtr \in Nat /\ ringPtr < RingSize
    BY <1>1
  <2>3. (ringPtr + 1) % RingSize = IF ringPtr + 1 = RingSize THEN 0 ELSE ringPtr + 1
    BY <2>2, NextPlace, Zenon
  <2>4. ringPtr' = (ringPtr + 1) % RingSize
    BY DEF Push
  <2> QED BY <2>3, <2>4, Zenon
<1>5. /\ ring' \in [0..(RingSize - 1) -> 0..MaxSample] /\ pushed' \in 0..MaxSample
      /\ ringPtr' \in 0..(RingSize - 1)
  BY <1>1, <1>2, <1>4
<1>6. \A i \in 0..(RingSize - 1) : ring'[i] = IF i = ringPtr THEN pushed + 1 ELSE ring[i]
  BY <1>1, <1>2
<1>7. CASE ringFull
  <2>1. /\ pushed >= RingSize
        /\ \A i \in 0..(RingSize - 1) :
             ring[i] = IF i < ringPtr THEN pushed - ringPtr + i + 1
                       ELSE pushed - ringPtr - RingSize + i + 1
    BY <1>7 DEF RingIsTail
  <2>2. \A i \in 0..(RingSize - 1) :
          ring'[i] = IF i < ringPtr' THEN pushed' - ringPtr' + i + 1
                     ELSE pushed' - ringPtr' - RingSize + i + 1
    <3> SUFFICES ASSUME NEW i \in 0..(RingSize - 1)
                 PROVE  ring'[i] = IF i < ringPtr' THEN pushed' - ringPtr' + i + 1
                                   ELSE pushed' - ringPtr' - RingSize + i + 1
      OBVIOUS
    <3>1. CASE ringPtr + 1 = RingSize
      <4>1. ringPtr' = 0 /\ ~(i < ringPtr')
        BY <1>1, <1>4, <3>1
      <4>2. CASE i = ringPtr
        BY <1>1, <1>2, <1>6, <3>1, <4>1, <4>2
      <4>3. CASE i < ringPtr
        <5>1. ring'[i] = ring[i] /\ ring[i] = pushed - ringPtr + i + 1
          BY <1>1, <1>6, <2>1, <4>3
        <5>2. pushed' - ringPtr' - RingSize + i + 1 = pushed - ringPtr + i + 1
          BY <1>1, <1>2, <3>1, <4>1
        <5> QED BY <4>1, <5>1, <5>2
      <4>4. i = ringPtr \/ i < ringPtr
        BY <1>1, <3>1
      <4> QED BY <4>2, <4>3, <4>4
    <3>2. CASE ringPtr + 1 # RingSize
      <4>1. ringPtr' = ringPtr + 1
        BY <1>4, <3>2
      <4>2. CASE i = ringPtr
        <5>1. i < ringPtr' /\ ring'[i] = pushed + 1
          BY <1>1, <1>6, <4>1, <4>2
        <5>2. pushed' - ringPtr' + i + 1 = pushed + 1
          BY <1>1, <1>2, <4>1, <4>2
        <5> QED BY <5>1, <5>2
      <4>3. CASE i < ringPtr
        <5>1. i < ringPtr' /\ ring'[i] = ring[i] /\ ring[i] = pushed - ringPtr + i + 1
          BY <1>1, <1>6, <2>1, <4>1, <4>3
        <5>2. pushed' - ringPtr' + i + 1 = pushed - ringPtr + i + 1
          BY <1>1, <1>2, <4>1
        <5> QED BY <5>1, <5>2
      <4>4. CASE i > ringPtr
        <5>1. ~(i < ringPtr') /\ ring'[i] = ring[i] /\ ring[i] = pushed - ringPtr - RingSize + i + 1
          BY <1>1, <1>6, <2>1, <4>1, <4>4
        <5>2. pushed' - ringPtr' - RingSize + i + 1 = pushed - ringPtr - RingSize + i + 1
          BY <1>1, <1>2, <4>1
        <5> QED BY <5>1, <5>2
      <4> QED BY <1>1, <4>2, <4>3, <4>4
    <3> QED BY <3>1, <3>2
  <2>3. ringFull' /\ pushed' >= RingSize
    BY <1>1, <1>2, <1>3, <1>7, <2>1
  <2> QED BY <1>3, <1>5, <2>2, <2>3 DEF RingIsTail
<1>8. CASE ~ringFull
  <2>1. /\ pushed = ringPtr
        /\ \A i \in 0..(RingSize - 1) : i < ringPtr => ring[i] = i + 1
    BY <1>8 DEF RingIsTail
  <2>2. CASE ringPtr + 1 = RingSize
    <3>1. \A i \in 0..(RingSize - 1) :
            ring'[i] = IF i < ringPtr' THEN pushed' - ringPtr' + i + 1
                       ELSE pushed' - ringPtr' - RingSize + i + 1
      BY <1>1, <1>2, <1>4, <1>6, <2>1, <2>2
    <3>2. ringFull' /\ pushed' >= RingSize
      BY <1>1, <1>2, <1>3, <2>1, <2>2
    <3> QED BY <1>3, <1>5, <3>1, <3>2 DEF RingIsTail
  <2>3. CASE ringPtr + 1 # RingSize
    <3>1. ~ringFull' /\ pushed' = ringPtr'
      BY <1>1, <1>2, <1>3, <1>4, <1>8, <2>1, <2>3
    <3>2. \A i \in 0..(RingSize - 1) : i < ringPtr' => ring'[i] = i + 1
      BY <1>1, <1>2, <1>4, <1>6, <2>1, <2>3
    <3> QED BY <1>3, <1>5, <3>1, <3>2 DEF RingIsTail
  <2> QED BY <2>2, <2>3
<1> QED BY <1>1, <1>7, <1>8

\* A report that is pushed.
LEMMA MonitorPushStep ==
  ASSUME MonitorInv, NEW r \in Reporter, Push(r)
  PROVE  MonitorInv'
<1> USE DEF MonitorInv
<1>0. /\ reportPc[r] = "idle" /\ pushed' = pushed + 1
      /\ reportOwn' = [reportOwn EXCEPT ![r] = <<pushed + 1, clock>>]
      /\ reportPc' = [reportPc EXCEPT ![r] = "latest"]
      /\ UNCHANGED <<reportSeen, reportLast, lastHeal, endedAt, healing, clock>>
  BY DEF Push, ReportGoto
<1>1. RingIsTail'
  BY RingPushed
<1>2. pushed \in Nat /\ clock \in Nat
  BY MonitorAssumption DEF RingIsTail, ReportsOK
<1>3. ReportsOK'
  BY <1>0, <1>2 DEF ReportsOK
<1>4. \A q \in Reporter : q # r => reportPc'[q] = reportPc[q] /\ reportOwn'[q] = reportOwn[q]
  BY <1>0 DEF ReportsOK
<1>5. reportPc'[r] = "latest" /\ reportOwn'[r] = <<pushed + 1, clock>>
  BY <1>0 DEF ReportsOK
<1>6. SeenInOrder'
  <2> SUFFICES ASSUME NEW q \in Reporter
               PROVE  /\ reportPc'[q] # "idle" => reportOwn'[q][1] \in 1..pushed' /\ reportOwn'[q][2] <= clock'
                      /\ reportPc'[q] = "list" => /\ reportSeen'[q][2] \in Nat
                                                  /\ reportOwn'[q][1] <= reportSeen'[q][2]
                                                  /\ reportSeen'[q][2] <= pushed'
    BY DEF SeenInOrder
  <2>1. CASE q = r
    BY <1>0, <1>2, <1>5, <2>1
  <2>2. CASE q # r
    BY <1>0, <1>2, <1>4, <2>2 DEF SeenInOrder
  <2> QED BY <2>1, <2>2
<1>7. HealSeen' /\ ListIsTail' /\ LatestNotOlder'
  BY <1>0, <1>4, <1>5 DEF HealSeen, ListIsTail, LatestNotOlder
<1> QED BY <1>1, <1>3, <1>6, <1>7

\* The latest sample and then the list are taken.
LEMMA MonitorTakeStep ==
  ASSUME MonitorInv, NEW r \in Reporter, TakeLatest(r) \/ TakeList(r)
  PROVE  MonitorInv'
<1> USE DEF MonitorInv
<1>0. /\ UNCHANGED <<ring, ringPtr, ringFull, pushed, reportOwn, reportLast, lastHeal, endedAt,
                     healing, clock>>
      /\ reportPc[r] # "idle"
  BY DEF TakeLatest, TakeList, ringVars
<1>1. RingIsTail'
  BY <1>0 DEF RingIsTail
<1>2. pushed \in Nat /\ pushed # 0 /\ reportOwn[r][1] \in 1..pushed /\ pushed >= 1
  BY <1>0 DEF RingIsTail, SeenInOrder
<1>3. ReportsOK' /\ HealSeen'
  BY <1>0 DEF ReportsOK, HealSeen, TakeLatest, TakeList, ReportGoto
<1>4. \A q \in Reporter : q # r => reportPc'[q] = reportPc[q] /\ reportSeen'[q] = reportSeen[q]
  BY DEF ReportsOK, TakeLatest, TakeList, ReportGoto
<1>5. CASE TakeLatest(r)
  <2>1. reportPc'[r] = "list" /\ reportSeen'[r][2] = pushed
    BY <1>2, <1>5, RingSays DEF TakeLatest, ReportGoto, ReportsOK
  <2>2. SeenInOrder'
    BY <1>0, <1>2, <1>4, <2>1 DEF SeenInOrder
  <2>3. \A q \in Reporter : reportPc'[q] = "heal" =>
          reportPc[q] = "heal" /\ reportSeen'[q] = reportSeen[q] /\ reportOwn'[q] = reportOwn[q]
    <3>1. reportOwn' = reportOwn
      BY <1>0
    <3>2. "list" # "heal"
      OBVIOUS
    <3> QED BY <1>4, <2>1, <3>1, <3>2, Zenon
  <2>4. ListIsTail'
    BY <2>3, SMTT(30) DEF ListIsTail
  <2>5. LatestNotOlder'
    BY <2>3, SMTT(30) DEF LatestNotOlder
  <2> QED BY <1>1, <1>3, <2>2, <2>4, <2>5
<1>6. CASE TakeList(r)
  <2>1. /\ reportPc[r] = "list" /\ reportPc'[r] = "heal"
        /\ reportSeen'[r] = <<ListedSamples, reportSeen[r][2]>>
    BY <1>6 DEF TakeList, ReportGoto, ReportsOK
  <2>2. PICK n \in 1..RingSize :
          /\ n = IF pushed < RingSize THEN pushed ELSE RingSize
          /\ ListedSamples = [i \in 1..n |-> pushed - n + i]
    BY <1>2, RingSays
  <2>3. n \in Nat /\ n >= 1
    BY <2>2, MonitorAssumption
  <2>4. /\ Len(ListedSamples) = n /\ ListedSamples[Len(ListedSamples)] = pushed
        /\ \A i \in 1..Len(ListedSamples) - 1 : ListedSamples[i + 1] = ListedSamples[i] + 1
    <3>1. PICK list : list = [i \in 1..n |-> pushed - n + i]
      OBVIOUS
    <3>2. ListedSamples = list
      BY <2>2, <3>1
    <3>3. Len(list) = n
      BY <2>3, <3>1
    <3>4. list[n] = pushed
      BY <1>2, <2>3, <3>1
    <3>5. \A i \in 1..n - 1 : list[i + 1] = list[i] + 1
      BY <1>2, <2>3, <3>1
    <3> QED BY <3>2, <3>3, <3>4, <3>5, Zenon
  <2>5. SeenInOrder'
    BY <1>0, <1>2, <1>4, <2>1 DEF SeenInOrder
  <2>6. reportSeen'[r][1] = ListedSamples /\ reportSeen'[r][2] = reportSeen[r][2]
    BY <2>1
  <2>7. ListIsTail'
    <3> SUFFICES ASSUME NEW q \in Reporter, reportPc'[q] = "heal"
                 PROVE  LET list == reportSeen'[q][1] IN
                        /\ \A i \in 1..Len(list) - 1 : list[i + 1] = list[i] + 1
                        /\ Len(list) = IF list[Len(list)] < RingSize THEN list[Len(list)] ELSE RingSize
                        /\ list[Len(list)] >= reportOwn'[q][1]
      BY DEF ListIsTail
    <3>1. CASE q = r
      <4>1. reportOwn'[r] = reportOwn[r] /\ pushed >= reportOwn[r][1]
        BY <1>0, <1>2
      <4> QED BY <2>2, <2>4, <2>6, <3>1, <4>1
    <3>2. CASE q # r
      BY <1>0, <1>4, <3>2 DEF ListIsTail
    <3> QED BY <3>1, <3>2
  <2>8. LatestNotOlder'
    <3> SUFFICES ASSUME NEW q \in Reporter, reportPc'[q] = "heal"
                 PROVE  LET list == reportSeen'[q][1] IN
                        reportOwn'[q][1] <= reportSeen'[q][2] /\ reportSeen'[q][2] <= list[Len(list)]
      BY DEF LatestNotOlder
    <3>1. CASE q = r
      <4>1. reportOwn'[r] = reportOwn[r] /\ reportOwn[r][1] <= reportSeen[r][2] /\ reportSeen[r][2] <= pushed
        BY <1>0, <2>1 DEF SeenInOrder
      <4> QED BY <2>4, <2>6, <3>1, <4>1
    <3>2. CASE q # r
      BY <1>0, <1>4, <3>2 DEF LatestNotOlder
    <3> QED BY <3>1, <3>2
  <2> QED BY <1>1, <1>3, <2>5, <2>7, <2>8
<1> QED BY <1>5, <1>6

\* The decision on a restart, its end, and the clock.
LEMMA MonitorHealStep ==
  ASSUME MonitorInv,
         \/ \E r \in Reporter : \/ ReadLastHeal(r) \/ NoHeal(r) \/ StartHeal(r)
                                \/ \E ok \in BOOLEAN : HealEnds(r, ok)
         \/ ClockTicks
  PROVE  MonitorInv'
<1> USE DEF MonitorInv
<1>0. UNCHANGED <<ring, ringPtr, ringFull, pushed, reportOwn, reportSeen>>
  BY DEF ReadLastHeal, NoHeal, StartHeal, HealEnds, ClockTicks, ringVars, reportVars
<1>1. RingIsTail'
  BY <1>0 DEF RingIsTail
<1>2. /\ clock' \in 1..MaxClock /\ clock' >= clock /\ clock \in Nat
      /\ lastHeal' \in 0..MaxClock /\ endedAt' = lastHeal'
      /\ lastHeal' = lastHeal \/ (lastHeal' = clock /\ clock' = clock)
  BY MonitorAssumption
     DEF ReportsOK, ReadLastHeal, NoHeal, StartHeal, HealEnds, ClockTicks, Stamp
<1>3. healing' \in [Reporter -> BOOLEAN]
  BY DEF ReportsOK, ReadLastHeal, NoHeal, StartHeal, HealEnds, ClockTicks
<1>4. /\ reportPc' \in [Reporter -> {"idle", "latest", "list", "heal", "decide"}]
      /\ reportLast' \in [Reporter -> 0..MaxClock]
  BY DEF ReportsOK, ReadLastHeal, NoHeal, StartHeal, HealEnds, ClockTicks, ReportGoto, reportVars
<1>5. \A q \in Reporter :
        \/ reportPc'[q] = reportPc[q] /\ reportLast'[q] = reportLast[q]
        \/ reportPc'[q] = "idle"
        \/ reportPc[q] = "heal" /\ reportPc'[q] = "decide" /\ reportLast'[q] = lastHeal /\ lastHeal' = lastHeal
  BY DEF ReportsOK, ReadLastHeal, NoHeal, StartHeal, HealEnds, ClockTicks, ReportGoto, reportVars
<1>6. ReportsOK'
  BY <1>0, <1>2, <1>3, <1>4 DEF ReportsOK
<1>7. ListIsTail' /\ LatestNotOlder'
  BY <1>0, <1>5 DEF ListIsTail, LatestNotOlder
<1>8. SeenInOrder' /\ HealSeen'
  <2>1. \A q \in Reporter : reportPc'[q] # "idle" => reportPc[q] # "idle"
    BY <1>5
  <2>2. \A q \in Reporter : reportOwn[q][2] \in Nat
    BY DEF ReportsOK
  <2>3. SeenInOrder'
    BY <1>0, <1>2, <1>5, <2>1, <2>2 DEF SeenInOrder
  <2>4. HealSeen'
    BY <1>0, <1>2, <1>5, <2>1, <2>2 DEF HealSeen, SeenInOrder
  <2> QED BY <2>3, <2>4
<1> QED BY <1>1, <1>6, <1>7, <1>8

\* The invariant holds in every state.
THEOREM MonitorInvariant == MonitorSpec => []MonitorInv
<1>1. MonitorInv /\ [MonitorNext]_monitorVars => MonitorInv'
  <2> SUFFICES ASSUME MonitorInv, [MonitorNext]_monitorVars PROVE MonitorInv'
    OBVIOUS
  <2>1. CASE UNCHANGED monitorVars
    BY <2>1 DEF monitorVars, ringVars, reportVars, MonitorInv, RingIsTail, ReportsOK,
                SeenInOrder, HealSeen, ListIsTail, LatestNotOlder
  <2>2. CASE \/ \E r \in Reporter : \/ ReadLastHeal(r) \/ NoHeal(r) \/ StartHeal(r)
                                    \/ \E ok \in BOOLEAN : HealEnds(r, ok)
             \/ ClockTicks
    BY <2>2, MonitorHealStep
  <2> QED BY <2>1, <2>2, MonitorPushStep, MonitorTakeStep DEF MonitorNext
<1> QED BY MonitorInitInv, <1>1, PTL DEF MonitorSpec

\* What ObservedRight says of the monitor follows.
LEMMA MonitorInvSays == MonitorInv => MonitorTypeOK /\ ListIsTail /\ LatestNotOlder
<1> SUFFICES ASSUME MonitorInv PROVE MonitorTypeOK
  BY DEF MonitorInv
<1>1. /\ ringPtr \in 0..RingSize - 1 /\ pushed \in 0..MaxSample /\ clock \in 1..MaxClock
      /\ \A i \in DOMAIN ring : ring[i] \in 0..MaxSample
      /\ lastHeal \in 0..MaxClock
  BY DEF MonitorInv, RingIsTail, ReportsOK
<1>2. \A r \in Reporter : reportPc[r] \in {"idle", "latest", "list", "heal", "decide"}
                          /\ healing[r] \in BOOLEAN /\ reportLast[r] \in 0..MaxClock
  BY DEF MonitorInv, ReportsOK
<1> QED BY <1>1, <1>2 DEF MonitorTypeOK

\* A restart waits for the cooldown of every restart that had ended before its report.
LEMMA HealSpacedStep == MonitorInv /\ [MonitorNext]_monitorVars => HealSpaced
<1> SUFFICES ASSUME MonitorInv, [MonitorNext]_monitorVars, NEW r \in Reporter,
                    healing'[r], ~healing[r], endedAt # 0, endedAt < reportOwn[r][2]
             PROVE  clock - endedAt >= Cooldown
  BY DEF HealSpaced
<1>1. healing' # healing
  OBVIOUS
<1>2. PICK q \in Reporter : StartHeal(q) \/ \E ok \in BOOLEAN : HealEnds(q, ok)
  BY <1>1 DEF MonitorNext, monitorVars, Push, TakeLatest, TakeList, ReadLastHeal, NoHeal, ClockTicks
<1>3. StartHeal(r)
  BY <1>2 DEF MonitorInv, ReportsOK, StartHeal, HealEnds
<1>4. /\ reportLast[r] = lastHeal /\ lastHeal = endedAt
  <2>1. /\ reportPc[r] = "decide" /\ reportOwn[r][2] \in Nat /\ lastHeal = endedAt /\ lastHeal \in 0..MaxClock
        /\ reportLast[r] = lastHeal \/ lastHeal >= reportOwn[r][2]
    BY <1>3 DEF StartHeal, MonitorInv, ReportsOK, HealSeen
  <2> QED BY <2>1, MonitorAssumption
<1> QED BY <1>3, <1>4 DEF StartHeal, Cooled

(***************************************************************************)
(* The backoff of the scaler                                               *)
(***************************************************************************)
\* A call that nothing was triggered beside has seen a failure and a backoff that
\* still holds, and goes no further than the test of them.
BackoffSeen ==
  /\ triggered \in [ScaleCall -> BOOLEAN] /\ sawFailed \in [ScaleCall -> BOOLEAN]
  /\ sawCooling \in [ScaleCall -> BOOLEAN] /\ cooling \in BOOLEAN
  /\ \A c \in ScaleCall :
       scPc[c] # "idle" /\ ~triggered[c] =>
         /\ scAttempts > 0 => sawFailed[c]
         /\ cooling => sawCooling[c]
         /\ scPc[c] = "check" => ~ScWaits(c)

\* The steps keep it, beside the invariant of the scaler.
LEMMA BackoffSeenStep == ScInv /\ BackoffSeen /\ [ScNext]_scVars => BackoffSeen'
<1> SUFFICES ASSUME ScInv, BackoffSeen, [ScNext]_scVars PROVE BackoffSeen'
  OBVIOUS
<1> USE DEF ScInv, ScPlacesOK, ScVarsOK, BackoffSeen, scState, scRate, scCall, scSave, ScGoto, ScWaits
<1>1. ASSUME NEW c \in ScaleCall, PredictAndScale(c) PROVE BackoffSeen'
  <2>1. sawFailed' \in [ScaleCall -> BOOLEAN] /\ sawCooling' \in [ScaleCall -> BOOLEAN]
        /\ triggered' \in [ScaleCall -> BOOLEAN]
    <3>1. (scAttempts > 0) \in BOOLEAN /\ FALSE \in BOOLEAN
      OBVIOUS
    <3>3. cooling \in BOOLEAN
      OBVIOUS
    <3>2. \A f \in [ScaleCall -> BOOLEAN], x \in BOOLEAN : [f EXCEPT ![c] = x] \in [ScaleCall -> BOOLEAN]
      OBVIOUS
    <3> QED BY <1>1, <3>1, <3>2, <3>3, Zenon DEF PredictAndScale
  <2>2. \A d \in ScaleCall : d # c => /\ scPc'[d] = scPc[d] /\ sawFailed'[d] = sawFailed[d]
                                      /\ sawCooling'[d] = sawCooling[d] /\ triggered'[d] = triggered[d]
    BY <1>1 DEF PredictAndScale
  <2>3. /\ scPc'[c] = "predict" /\ (scAttempts > 0 => sawFailed'[c]) /\ (cooling => sawCooling'[c])
        /\ scAttempts' = scAttempts /\ cooling' = cooling
    BY <1>1 DEF PredictAndScale
  <2>4. cooling' \in BOOLEAN
    BY <2>3
  <2> QED BY <2>1, <2>2, <2>3, <2>4
<1>2. ASSUME NEW c \in ScaleCall, NoNeed(c) \/ AllowBootstrap(c) PROVE BackoffSeen'
  BY <1>2 DEF NoNeed, AllowBootstrap
<1>3. ASSUME NEW c \in ScaleCall, Backoff(c) PROVE BackoffSeen'
  BY <1>3 DEF Backoff
<1>4. ASSUME NEW c \in ScaleCall, NEW leads \in BOOLEAN, StartBootstrap(c, leads) PROVE BackoffSeen'
  BY <1>4 DEF StartBootstrap, Trigger
<1>5. ASSUME NEW c \in ScaleCall, Verify(c) \/ Simulated(c) \/ BootstrapEnds(c) \/ ClearInFlight(c)
      PROVE  BackoffSeen'
  <2>1. UNCHANGED <<scPc, sawFailed, sawCooling>>
    BY <1>5 DEF Verify, Simulated, BootstrapEnds, ClearInFlight
  <2>2. CASE BootstrapEnds(c)
    <3>1. cooling' \in BOOLEAN /\ triggered' = [d \in ScaleCall |-> TRUE]
      BY <2>2, Zenon DEF BootstrapEnds, Trigger
    <3> QED BY <2>1, <3>1
  <2>3. CASE Verify(c) \/ Simulated(c) \/ ClearInFlight(c)
    <3>1. /\ cooling' = cooling /\ triggered' = triggered
          /\ scAttempts' = scAttempts \/ scAttempts' = 0
      BY <2>3 DEF Verify, Simulated, ClearInFlight
    <3> QED BY <2>1, <3>1
  <2> QED BY <1>5, <2>2, <2>3
<1>6. CASE BackoffPasses
  BY <1>6 DEF BackoffPasses
<1>7. CASE ScHourPasses \/ SaveScState \/ StoreState \/ UNCHANGED scVars
  BY <1>7 DEF ScHourPasses, SaveScState, StoreState, scVars
<1>8. CASE ScRestart
  BY <1>8 DEF ScRestart
<1> QED BY <1>1, <1>2, <1>3, <1>4, <1>5, <1>6, <1>7, <1>8 DEF ScNext

\* A bootstrap within the backoff is one beside which another was triggered.
LEMMA BackoffKeptStep == ScInv /\ BackoffSeen /\ [ScNext]_scVars => BackoffKept
<1> SUFFICES ASSUME ScInv, BackoffSeen, [ScNext]_scVars, NEW c \in ScaleCall,
                    flight[c] = "none", flight'[c] = "verify", cooling, scAttempts > 0
             PROVE  triggered[c]
  BY DEF BackoffKept
<1> USE DEF ScInv, ScPlacesOK, ScVarsOK
<1>1. flight' # flight
  OBVIOUS
<1>2. PICK d \in ScaleCall : \/ \E leads \in BOOLEAN : StartBootstrap(d, leads)
                             \/ Verify(d) \/ Simulated(d) \/ BootstrapEnds(d) \/ ClearInFlight(d)
                             \/ ScRestart
  BY <1>1 DEF ScNext, scVars, PredictAndScale, NoNeed, AllowBootstrap, Backoff, BackoffPasses,
              ScHourPasses, SaveScState, StoreState
<1>3. d = c /\ \E leads \in BOOLEAN : StartBootstrap(d, leads)
  BY <1>2 DEF StartBootstrap, Verify, Simulated, BootstrapEnds, ClearInFlight, ScRestart, FlightTo
<1> QED BY <1>3 DEF StartBootstrap, BackoffSeen, ScWaits

(***************************************************************************)
(* Beside the other components                                             *)
(***************************************************************************)
\* A behaviour of the components, whichever of them it is of, is one of each:
\* those that do not run stay where they start.
LEMMA EachBeside ==
  OperationsSpec => /\ FabricSpec /\ LeaseSpec /\ ToolSpec /\ PluginsSpec /\ ScSpec
                    /\ AIModeSpec /\ MonitorSpec
<1>1. OperationsInit => /\ FabricInit /\ LeaseInit /\ ToolInit /\ PluginsInit /\ ScInit
                        /\ AIModeInit /\ MonitorInit
  BY DEF OperationsInit
<1>2. [OperationsNext]_operationsVars => [FabricNext]_fabricVars
  BY DEF OperationsNext, operationsVars, Others
<1>3. [OperationsNext]_operationsVars => [LeaseNext]_leaseVars
  BY DEF OperationsNext, operationsVars, Others
<1>4. [OperationsNext]_operationsVars => [ToolNext]_toolVars
  BY DEF OperationsNext, operationsVars, Others
<1>5. [OperationsNext]_operationsVars => [PluginsNext]_plVars
  BY DEF OperationsNext, operationsVars, Others
<1>6. [OperationsNext]_operationsVars => [ScNext]_scVars
  BY DEF OperationsNext, operationsVars, Others
<1>7. [OperationsNext]_operationsVars => [AIModeNext]_aiVars
  BY DEF OperationsNext, operationsVars, Others
<1>8. [OperationsNext]_operationsVars => [MonitorNext]_monitorVars
  BY DEF OperationsNext, operationsVars, Others
<1> QED BY <1>1, <1>2, <1>3, <1>4, <1>5, <1>6, <1>7, <1>8, PTL
        DEF OperationsSpec, FabricSpec, LeaseSpec, ToolSpec, PluginsSpec, ScSpec,
            AIModeSpec, MonitorSpec

\* connCache, sharedConn, CloseConn, Shutdown and the evictor of rdma.go: no shared
\* connection is used after it was closed, and the latest stays in the cache.
THEOREM ConnectionsSafeAlways == OperationsSpec => []ConnectionsSafe
<1>1. FabricInv => ConnectionsSafe
  BY DEF FabricInv, FabricTypeOK, InHand, FlagBeforeInner, NoUseAfterClose, ConnectionsSafe
<1> QED BY <1>1, EachBeside, FabricInvariant, PTL

\* PredictAndScale with its bootstraps over restarts, and the Redis leader elector:
\* one bootstrap at a time, within its bounds; no leader without the key.
THEOREM ScalingSafeAlways == OperationsSpec => []ScalingSafe
<1>1. LeaseInv => LeaseTypeOK /\ FlagMeansKey /\ LostKeyUnrenewed
  BY DEF LeaseInv, AcquiredMeansKey, FirstFlagDropped, FlagMeansKey, LostKeyUnrenewed
<1>2. ScInv /\ LeaseInv => ScalingSafe
  BY <1>1, ScInvSafe DEF ScalingSafe
<1> QED BY <1>2, EachBeside, ScalingInvariant, LeaseInvariant, PTL

\* BuildTool and DeployTool with the locks of tools, and RegisterPluginByToken: what
\* is built, deployed or registered is what was asked for.
THEOREM BuildsSafeAlways == OperationsSpec => []BuildsSafe
<1>1. ToolInv /\ MadeFromSources => ToolTypeOK /\ BuiltIsValid /\ TargetWhole /\ HourlyQuota
  BY DEF ToolInv, ToolTypes, MadeFromSources, ToolTypeOK
<1>2. PluginInv => PluginTypeOK /\ EntryHasItsFile
  BY DEF PluginInv
<1>3. ToolInv /\ MadeFromSources /\ PluginInv => BuildsSafe
  BY <1>1, <1>2, LockExcludes DEF BuildsSafe
<1> QED BY <1>3, EachBeside, ToolInvariant, MadeFromSourcesAlways, PluginInvariant, PTL

\* The ring and the snapshots of the service monitor, and the poller of the mode
\* controller: samples in their order beside readers, and a fallback after as many
\* bad rounds on end as it takes.
THEOREM ObservedRightAlways == OperationsSpec => []ObservedRight
<1>1. MonitorInv /\ ModeInv => ObservedRight
  BY MonitorInvSays, ModeInvSays DEF ObservedRight
<1> QED BY <1>1, EachBeside, MonitorInvariant, ModeInvariant, PTL

\* lastTriggered and the backoff, SetMode beside a fallback that locks, and the auto
\* healer's cooldown: no step comes too early, for any number of calls, modes that
\* are asked for and reports.
THEOREM OperationsStepsKept == OperationsSpec => OperationsKept
<1>1. ScInit => BackoffSeen
  BY DEF ScInit, BackoffSeen
<1>2. [OperationsNext]_operationsVars =>
        [ScNext]_scVars /\ [AIModeNext]_aiVars /\ [MonitorNext]_monitorVars
  BY DEF OperationsNext, operationsVars, Others
<1>3. ScInv /\ BackoffSeen /\ ModeInv /\ MonitorInv /\ [OperationsNext]_operationsVars
        => [BackoffKept /\ LockedModeKept /\ HealSpaced]_operationsVars
  BY <1>2, BackoffKeptStep, LockedModeStep, HealSpacedStep
<1>4. ScSpec => []BackoffSeen
  BY <1>1, BackoffSeenStep, ScalingInvariant, PTL DEF ScSpec
<1> QED BY <1>3, <1>4, EachBeside, ScalingInvariant, ModeInvariant, MonitorInvariant, PTL
        DEF OperationsSpec, OperationsKept
==============================================================================
