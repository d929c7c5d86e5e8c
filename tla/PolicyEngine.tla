---------------------------- MODULE PolicyEngine ----------------------------
(* internal/services/policy.go: the caches of quotas and sensitive actions,   *)
(* their reload from the database, CheckQuota with its rate limiter, and the  *)
(* calls that change policies.  One account, one action; a quota is a number  *)
(* and every update writes the next one.  The database is external.           *)
EXTENDS Integers

CONSTANTS PeCheck,       \* goroutines in CheckQuota
          PeAdmin,       \* goroutines in the calls that change policies
          MaxQuota,      \* bound on the quotas written
          LimiterCap,    \* tokens of a full bucket
          LimiterRate,   \* tokens per second
          SecondTicks,   \* ticks of a second
          MaxInstants    \* bound on the ticks

ASSUME PolicyEngineAssumption ==
  /\ MaxQuota \in Nat \ {0} /\ LimiterCap \in Nat \ {0} /\ LimiterRate \in Nat \ {0} /\ SecondTicks \in Nat \ {0}
  /\ MaxInstants \in Nat

VARIABLES peDb,        \* the quota of the account and whether the action is sensitive
          peCache,     \* quotasCache (0: no entry) and sensitiveCache
          peReload,    \* reloadFromDB: what it has read
          peCheck,     \* CheckQuota calls
          pePut,       \* quotas that a "go func" has yet to put in the cache
          peAdmin,     \* admin calls between database and cache
          peBucket,    \* the token bucket of the account
          peGranted,   \* checks that the limiter let pass
          peNow,       \* ticks since the start
          peStopped    \* stopCh is closed

peData == <<peDb, peCache>>
peLimiter == <<peBucket, peGranted, peNow>>
peVars == <<peData, peReload, peCheck, pePut, peAdmin, peLimiter, peStopped>>

NoQuota == 0
NotReloading == [step |-> "idle", quota |-> NoQuota, sensitive |-> FALSE]
NotChecking == [step |-> "idle", quota |-> NoQuota]
NoChange == [step |-> "idle", quota |-> NoQuota]
NoBucket == [tokens |-> 0, refill |-> 0, made |-> FALSE]

(* NewPolicyEngine has loaded what the database holds                         *)
PolicyInit ==
  /\ peDb \in [quota : {NoQuota, 1}, sensitive : BOOLEAN] /\ peCache = peDb
  /\ peReload = NotReloading /\ pePut = {}
  /\ peCheck = [c \in PeCheck |-> NotChecking]
  /\ peAdmin = [a \in PeAdmin |-> NoChange]
  /\ peBucket = NoBucket /\ peGranted = 0 /\ peNow = 0 /\ peStopped = FALSE

-----------------------------------------------------------------------------
ReloadTo(reload) == peReload' = reload

(* reloadFromDB reads one table after the other and holds no lock; an error   *)
(* keeps the caches                                                           *)
ReloadQuotas ==
  /\ peReload.step = "idle" /\ ~peStopped
  /\ ReloadTo([NotReloading EXCEPT !.step = "quotas", !.quota = peDb.quota])
  /\ UNCHANGED <<peData, peCheck, pePut, peAdmin, peLimiter, peStopped>>

ReloadSensitive ==
  /\ peReload.step = "quotas"
  /\ ReloadTo([peReload EXCEPT !.step = "swap", !.sensitive = peDb.sensitive])
  /\ UNCHANGED <<peData, peCheck, pePut, peAdmin, peLimiter, peStopped>>

(* the new caches replace the old ones                                        *)
ReloadedCaches == [quota |-> peReload.quota, sensitive |-> peReload.sensitive]

SwapCaches ==
  /\ peReload.step = "swap"
  /\ peCache' = ReloadedCaches /\ ReloadTo(NotReloading)
  /\ UNCHANGED <<peDb, peCheck, pePut, peAdmin, peLimiter, peStopped>>

ReloadStep == ReloadQuotas \/ ReloadSensitive \/ SwapCaches

(* Stop ends the loop between two reloads                                     *)
StopPolicy ==
  /\ ~peStopped /\ peReload.step = "idle" /\ peStopped' = TRUE
  /\ UNCHANGED <<peData, peReload, peCheck, pePut, peAdmin, peLimiter>>

-----------------------------------------------------------------------------
(* allowTokens makes a full bucket at the first check of an account           *)
BucketNow == IF peBucket.made THEN peBucket
             ELSE [tokens |-> LimiterCap, refill |-> peNow, made |-> TRUE]
AtMost(n, cap) == IF n > cap THEN cap ELSE n

\* Faulty variant: rounded up.
GainedRounded(b) == ((peNow - b.refill) * LimiterRate + SecondTicks - 1) \div SecondTicks
(* int(elapsed * rate)                                                        *)
Gained(b) == ((peNow - b.refill) * LimiterRate) \div SecondTicks
(* Allow refills for the time since the last refill that gave a token         *)
Refilled(b) ==
  IF Gained(b) > 0 THEN [b EXCEPT !.tokens = AtMost(@ + Gained(b), LimiterCap), !.refill = peNow]
  ELSE b

RateLimited(c) ==
  LET b == Refilled(BucketNow) IN
  /\ peCheck[c].step = "idle" /\ b.tokens < 1
  /\ peBucket' = b
  /\ UNCHANGED <<peData, peReload, peCheck, pePut, peAdmin, peGranted, peNow, peStopped>>

(* the cached quota decides, or else the one in the database, which a         *)
(* goroutine of its own puts into the cache later                             *)
CheckQuota(c) ==
  LET b == Refilled(BucketNow) IN
  /\ peCheck[c].step = "idle" /\ b.tokens >= 1
  /\ peBucket' = [b EXCEPT !.tokens = @ - 1] /\ peGranted' = peGranted + 1
  /\ peCheck' = [peCheck EXCEPT ![c] =
       [step |-> IF peCache.quota = NoQuota THEN "miss" ELSE "idle", quota |-> NoQuota]]
  /\ UNCHANGED <<peData, peReload, pePut, peAdmin, peNow, peStopped>>

(* quota_not_found or an error puts nothing                                   *)
ReadQuota(c) ==
  /\ peCheck[c].step = "miss"
  /\ peCheck' = [peCheck EXCEPT ![c] = NotChecking]
  /\ pePut' = IF peDb.quota = NoQuota THEN pePut ELSE pePut \cup {peDb.quota}
  /\ UNCHANGED <<peData, peReload, peAdmin, peLimiter, peStopped>>

PutQuota(q) ==
  /\ q \in pePut /\ pePut' = pePut \ {q}
  /\ peCache' = [peCache EXCEPT !.quota = q]
  /\ UNCHANGED <<peDb, peReload, peCheck, peAdmin, peLimiter, peStopped>>

PutStep == \E q \in pePut : PutQuota(q)

-----------------------------------------------------------------------------
AdminTo(a, change) == peAdmin' = [peAdmin EXCEPT ![a] = change]

(* UpdateQuota, AddSensitiveAction, RemoveSensitiveAction: the database, then *)
(* the cache                                                                  *)
SaveQuota(a) ==
  /\ peAdmin[a].step = "idle" /\ peDb.quota < MaxQuota
  /\ peDb' = [peDb EXCEPT !.quota = @ + 1]
  /\ AdminTo(a, [step |-> "quota", quota |-> peDb'.quota])
  /\ UNCHANGED <<peCache, peReload, peCheck, pePut, peLimiter, peStopped>>

SaveSensitive(a, sensitive) ==
  /\ peAdmin[a].step = "idle" /\ peDb.sensitive # sensitive
  /\ peDb' = [peDb EXCEPT !.sensitive = sensitive]
  /\ AdminTo(a, [step |-> IF sensitive THEN "add" ELSE "remove", quota |-> NoQuota])
  /\ UNCHANGED <<peCache, peReload, peCheck, pePut, peLimiter, peStopped>>

ChangeCache(a) ==
  /\ peAdmin[a].step # "idle" /\ AdminTo(a, NoChange)
  /\ peCache' = IF peAdmin[a].step = "quota" THEN [peCache EXCEPT !.quota = peAdmin[a].quota]
                ELSE [peCache EXCEPT !.sensitive = peAdmin[a].step = "add"]
  /\ UNCHANGED <<peDb, peReload, peCheck, pePut, peLimiter, peStopped>>

AdminStep == \E a \in PeAdmin : ChangeCache(a)

InstantPasses ==
  /\ peNow < MaxInstants /\ peNow' = peNow + 1
  /\ UNCHANGED <<peData, peReload, peCheck, pePut, peAdmin, peBucket, peGranted, peStopped>>

PolicyNext ==
  \/ ReloadStep \/ StopPolicy \/ PutStep \/ AdminStep \/ InstantPasses
  \/ \E c \in PeCheck : RateLimited(c) \/ CheckQuota(c) \/ ReadQuota(c)
  \/ \E a \in PeAdmin : SaveQuota(a) \/ \E sensitive \in BOOLEAN : SaveSensitive(a, sensitive)

PolicySpec == PolicyInit /\ [][PolicyNext]_peVars

-----------------------------------------------------------------------------
PolicyTypeOK ==
  /\ peDb \in [quota : 0..MaxQuota, sensitive : BOOLEAN]
  /\ peCache \in [quota : 0..MaxQuota, sensitive : BOOLEAN]
  /\ peReload.step \in {"idle", "quotas", "swap"} /\ pePut \subseteq 1..MaxQuota
  /\ \A c \in PeCheck : peCheck[c].step \in {"idle", "miss"}
  /\ \A a \in PeAdmin : peAdmin[a].step \in {"idle", "quota", "add", "remove"}
  /\ peBucket.tokens \in 0..LimiterCap /\ peBucket.refill \in 0..peNow
  /\ peGranted \in Nat /\ peNow \in 0..MaxInstants /\ peStopped \in BOOLEAN

(* However the checks of an account fall in time, the limiter lets no more    *)
(* pass than a full bucket and what the rate gives since the start.           *)
RateHolds == (peGranted - LimiterCap) * SecondTicks <= LimiterRate * peNow

(* The cache agrees with the database again and again until Stop: UpdateQuota, *)
(* a removal and a late "go func" may leave an older value there, and so may  *)
(* a reload that read before them, but a later reload replaces it.            *)
CacheCatchesUp == []<>(peCache = peDb \/ peStopped)
=============================================================================
