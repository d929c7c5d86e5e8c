-------------------------------- MODULE SRM --------------------------------
(***************************************************************************)
(* internal/services/srm.go: the cache of provider resources and the       *)
(* reservations against their quotas, with the two package locks.          *)
(*                                                                         *)
(* A refill of the cache holds cacheLock and takes reservationLock once    *)
(* for each account; a reservation holds reservationLock and takes         *)
(* cacheLock to drop the cache.  Reservations of zero and absent entries   *)
(* of the map are the same.  Amounts are not negative; the scores that     *)
(* order the matches are left out, the choice among them is the caller's.  *)
(***************************************************************************)
EXTENDS Naturals, FiniteSets

CONSTANTS SrmCall,  \* callers
          Account,  \* provider accounts
          Kind,     \* kinds of resource: cpu, gpu, ram
          Quota     \* how much of each kind an account has

ASSUME SrmAssumption == Quota \in Nat /\ SrmCall # {} /\ "none" \notin SrmCall

Amount == [Kind -> 0..Quota]
NoAmount == [k \in Kind |-> 0]

VARIABLES
  reservations,   \* [Account -> Amount]
  resourceCache,  \* [subset of Account -> available Amount], its domain is empty when dropped
  cacheFull,      \* the cache has entries and has not expired
  cacheLock, reservationLock,  \* the caller that holds it, or "none"
  srmPc,          \* [SrmCall -> place of the call]
  srmArg,         \* [SrmCall -> [account, amount]]
  metas,          \* [SrmCall -> the accounts read so far, with what is available]
  offered,        \* [SrmCall -> accounts the last match returned]
  reservedSince   \* history: [SrmCall -> accounts reserved from since its match began]

srmLocks == <<cacheLock, reservationLock>>
srmCache == <<resourceCache, cacheFull>>
srmVars == <<reservations, srmCache, srmLocks, srmPc, srmArg, metas, offered, reservedSince>>

Empty == [a \in {} |-> NoAmount]
Matching(c) == srmPc[c] \in {"look", "fill", "read", "matched"}
SrmGoto(c, place) == srmPc' = [srmPc EXCEPT ![c] = place]

SrmInit ==
  /\ reservations = [a \in Account |-> NoAmount]
  /\ resourceCache = Empty
  /\ cacheFull = FALSE
  /\ cacheLock = "none" /\ reservationLock = "none"
  /\ srmPc = [c \in SrmCall |-> "idle"]
  /\ srmArg = [c \in SrmCall |-> [account |-> "none", amount |-> NoAmount]]
  /\ metas = [c \in SrmCall |-> Empty]
  /\ offered = [c \in SrmCall |-> {}]
  /\ reservedSince = [c \in SrmCall |-> {}]

Exceeds(r, amount, k) == r[k] + amount[k] > Quota

Available(r) == [k \in Kind |-> IF r[k] >= Quota THEN 0 ELSE Quota - r[k]]

Less(r, amount) == [k \in Kind |-> IF amount[k] >= r[k] THEN 0 ELSE r[k] - amount[k]]

Fits(avail, amount) == \A k \in Kind : amount[k] > 0 => avail[k] >= amount[k]

InvalidateCache == resourceCache' = Empty /\ cacheFull' = FALSE

\* Faulty variant: the error is returned with the lock taken.
KeepsLock == cacheLock' = cacheLock

UnlockAfterError == cacheLock' = "none"
-----------------------------------------------------------------------------
SrmStart(c, place, a, amount) ==
  /\ srmPc[c] = "idle"
  /\ SrmGoto(c, place)
  /\ srmArg' = [srmArg EXCEPT ![c] = [account |-> a, amount |-> amount]]
  /\ UNCHANGED <<reservations, srmCache, srmLocks, metas, offered>>

MatchResources(c, amount) ==
  /\ SrmStart(c, "look", "none", amount)
  /\ reservedSince' = [reservedSince EXCEPT ![c] =
                         {srmArg[d].account : d \in {d \in SrmCall : srmPc[d] = "drop"}}]

ReserveResource(c, a, amount) ==
  SrmStart(c, "reserve", a, amount) /\ reservedSince' = [reservedSince EXCEPT ![c] = {}]

ReleaseResource(c, a, amount) ==
  SrmStart(c, "release", a, amount) /\ reservedSince' = [reservedSince EXCEPT ![c] = {}]

\* The matches of a call that has its resources.
Answer(c, found) ==
  /\ offered' = [offered EXCEPT ![c] =
                   {a \in DOMAIN found : Fits(found[a], srmArg[c].amount)}]
  /\ SrmGoto(c, "matched")

\* GetResources: the cache under the read lock.
LookInCache(c) ==
  /\ srmPc[c] = "look"
  /\ cacheLock = "none"
  /\ IF cacheFull THEN Answer(c, resourceCache)
     ELSE SrmGoto(c, "fill") /\ UNCHANGED offered
  /\ UNCHANGED <<reservations, srmCache, srmLocks, srmArg, metas, reservedSince>>

\* The write lock: another caller may have filled the cache meanwhile.
BeginFill(c) ==
  /\ srmPc[c] = "fill"
  /\ cacheLock = "none"
  /\ cacheLock' = c
  /\ SrmGoto(c, "read")
  /\ UNCHANGED <<reservations, srmCache, reservationLock, srmArg, metas, offered,
                 reservedSince>>

\* One account of fetchResourcesFromDB: currentReservation takes its lock.
ReadAccount(c, a) ==
  /\ srmPc[c] = "read"
  /\ a \in Account \ DOMAIN metas[c]
  /\ reservationLock = "none"
  /\ metas' = [metas EXCEPT ![c] = [b \in DOMAIN metas[c] \cup {a} |->
                 IF b = a THEN Available(reservations[a]) ELSE metas[c][b]]]
  /\ UNCHANGED <<reservations, srmCache, srmLocks, srmPc, srmArg, offered, reservedSince>>

EndFill(c) ==
  /\ srmPc[c] = "read"
  /\ DOMAIN metas[c] = Account
  /\ resourceCache' = metas[c] /\ cacheFull' = TRUE
  /\ cacheLock' = "none"
  /\ Answer(c, metas[c])
  /\ metas' = [metas EXCEPT ![c] = Empty]
  /\ UNCHANGED <<reservations, reservationLock, srmArg, reservedSince>>

\* The database fails: nothing is cached, the call returns the error.
FillFails(c) ==
  /\ srmPc[c] = "read"
  /\ DOMAIN metas[c] = {}
  /\ UnlockAfterError
  /\ SrmGoto(c, "idle")
  /\ UNCHANGED <<reservations, srmCache, reservationLock, srmArg, metas, offered,
                 reservedSince>>

Reserve(c) ==
  LET a == srmArg[c].account
      amount == srmArg[c].amount IN
  /\ srmPc[c] = "reserve"
  /\ reservationLock = "none"
  /\ IF \E k \in Kind : Exceeds(reservations[a], amount, k)
     THEN /\ SrmGoto(c, "idle")
          /\ UNCHANGED <<reservations, reservationLock, reservedSince>>
     ELSE /\ reservationLock' = c
          /\ reservations' = [reservations EXCEPT ![a] =
                                [k \in Kind |-> reservations[a][k] + amount[k]]]
          /\ reservedSince' = [d \in SrmCall |->
                                IF Matching(d) THEN reservedSince[d] \cup {a} ELSE reservedSince[d]]
          /\ SrmGoto(c, "drop")
  /\ UNCHANGED <<srmCache, cacheLock, srmArg, metas, offered>>

Release(c) ==
  LET a == srmArg[c].account IN
  /\ srmPc[c] = "release"
  /\ reservationLock = "none"
  /\ reservationLock' = c
  /\ reservations' = [reservations EXCEPT ![a] = Less(reservations[a], srmArg[c].amount)]
  /\ SrmGoto(c, "drop")
  /\ UNCHANGED <<srmCache, cacheLock, srmArg, metas, offered, reservedSince>>

\* invalidateCache, and the unlock behind it.
DropCache(c) ==
  /\ srmPc[c] = "drop"
  /\ cacheLock = "none"
  /\ InvalidateCache
  /\ reservationLock' = "none"
  /\ SrmGoto(c, "idle")
  /\ UNCHANGED <<reservations, cacheLock, srmArg, metas, offered, reservedSince>>

Matched(c) ==
  /\ srmPc[c] = "matched"
  /\ offered' = [offered EXCEPT ![c] = {}]
  /\ SrmGoto(c, "idle")
  /\ UNCHANGED <<reservations, srmCache, srmLocks, srmArg, metas, reservedSince>>

\* SRM_CACHE_TTL has passed.
CacheExpires ==
  /\ cacheFull
  /\ cacheFull' = FALSE
  /\ UNCHANGED <<reservations, resourceCache, srmLocks, srmPc, srmArg, metas, offered,
                 reservedSince>>
-----------------------------------------------------------------------------
SrmStep(c) ==
  \/ LookInCache(c) \/ BeginFill(c) \/ EndFill(c) \/ FillFails(c)
  \/ \E a \in Account : ReadAccount(c, a)
  \/ Reserve(c) \/ Release(c) \/ DropCache(c) \/ Matched(c)

SrmNext ==
  \/ \E c \in SrmCall, amount \in Amount \ {NoAmount} :
       \/ MatchResources(c, amount)
       \/ \E a \in Account : ReserveResource(c, a, amount) \/ ReleaseResource(c, a, amount)
  \/ \E c \in SrmCall : SrmStep(c)
  \/ CacheExpires

SrmSpec == SrmInit /\ [][SrmNext]_srmVars
-----------------------------------------------------------------------------
SrmTypeOK ==
  /\ reservations \in [Account -> [Kind -> Nat]]
  /\ DOMAIN resourceCache \in {{}, Account}
  /\ cacheFull => DOMAIN resourceCache = Account
  /\ cacheLock \in SrmCall \cup {"none"} /\ reservationLock \in SrmCall \cup {"none"}
  /\ srmPc \in [SrmCall -> {"idle", "look", "fill", "read", "matched", "reserve", "release",
                            "drop"}]
  /\ \A c \in SrmCall : /\ srmPc[c] = "read" => cacheLock = c
                       /\ srmPc[c] = "drop" => reservationLock = c

\* No account has more reserved than its quota, whoever reserves at once.
WithinQuota == \A a \in Account, k \in Kind : reservations[a][k] <= Quota

\* Every account a match returns has room for the request, but for the accounts
\* somebody has reserved from since the call began: a call never sees less than
\* the reservations that had returned when it started.
OfferHolds ==
  \A c \in SrmCall : srmPc[c] = "matched" =>
    \A a \in offered[c] \ reservedSince[c] : Fits(Available(reservations[a]), srmArg[c].amount)

\* A refill and a reservation that wait for each other.
LockedOut == cacheLock # "none" /\ reservationLock # "none"

\* What the next step of a call waits for: the lock it takes, and for nothing when it
\* holds what it needs.
CanStep(c) ==
  \/ srmPc[c] \in {"look", "fill", "drop"} /\ cacheLock = "none"
  \/ srmPc[c] \in {"reserve", "release"} /\ reservationLock = "none"
  \/ /\ srmPc[c] = "read"
     /\ DOMAIN metas[c] \in {{}, Account} \/ reservationLock = "none"
  \/ srmPc[c] = "matched"

\* When every caller is in the manager one of them can go on, and no step leads a
\* call back: they return, unless a refill and a reservation wait for each other.
\* No other path, the one after a database error least of all, leaves a lock taken.
SomeCallGoesOn ==
  (\A c \in SrmCall : srmPc[c] # "idle") => LockedOut \/ \E c \in SrmCall : CanStep(c)

\* A call has a step exactly when CanStep says so.
WaitsForLocksOnly == \A c \in SrmCall : CanStep(c) <=> ENABLED SrmStep(c)
=============================================================================
