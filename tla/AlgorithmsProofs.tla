--------------------------- MODULE AlgorithmsProofs ---------------------------
(* Proofs about components of MCAlgorithms: what reserves, SRM and            *)
(* ResourcePool, and what decides, Heuristics and the jobs of Quantum, by     *)
(* themselves and beside the other components; for any number of callers,     *)
(* accounts, nodes, requests, demands, tasks, jobs and polls.                 *)
EXTENDS MicroTaskProofs, MCAlgorithms, FunctionSums

(***************************************************************************)
(* SRM                                                                     *)
(***************************************************************************)
Amounts == [Kind -> Nat]

\* What is read of some of the accounts.
Listings == UNION {[A -> Amounts] : A \in SUBSET Account}

SrmTypes ==
  /\ reservations \in [Account -> Amounts]
  /\ resourceCache \in Listings /\ cacheFull \in BOOLEAN
  /\ DOMAIN resourceCache \in {{}, Account}
  /\ cacheFull => DOMAIN resourceCache = Account
  /\ cacheLock \in SrmCall \cup {"none"} /\ reservationLock \in SrmCall \cup {"none"}
  /\ srmPc \in [SrmCall -> {"idle", "look", "fill", "read", "matched", "reserve", "release",
                            "drop"}]
  /\ srmArg \in [SrmCall -> [account : Account \cup {"none"}, amount : Amount]]
  /\ metas \in [SrmCall -> Listings]
  /\ offered \in [SrmCall -> SUBSET Account]
  /\ reservedSince \in [SrmCall -> SUBSET Account]

\* A refill holds cacheLock; a reservation holds reservationLock until the cache
\* is dropped.
SrmLocked ==
  \A c \in SrmCall :
    /\ srmPc[c] = "read" => cacheLock = c
    /\ srmPc[c] = "drop" => reservationLock = c
    /\ srmPc[c] \in {"reserve", "release", "drop"} => srmArg[c].account \in Account

\* No more than the account has.
Fresh(amount, a) == \A k \in Kind : amount[k] <= Available(reservations[a])[k]

\* A caller has reserved from the account and not dropped the cache yet; every
\* match under way knows.
BeingReserved(a) ==
  /\ \E d \in SrmCall : srmPc[d] = "drop" /\ srmArg[d].account = a
  /\ \A c \in SrmCall : Matching(c) => a \in reservedSince[c]

\* What is cached, or read for the cache, says too much only of such an account.
CacheFresh ==
  cacheFull => \A a \in Account : Fresh(resourceCache[a], a) \/ BeingReserved(a)
ReadsFresh ==
  \A c \in SrmCall :
    /\ srmPc[c] # "read" => DOMAIN metas[c] = {}
    /\ \A a \in DOMAIN metas[c] : Fresh(metas[c][a], a) \/ BeingReserved(a)

SrmInv ==
  /\ SrmTypes /\ SrmLocked
  /\ WithinQuota /\ CacheFresh /\ ReadsFresh /\ OfferHolds

\* A listing gives amounts for its accounts.
LEMMA ListingOf ==
  ASSUME NEW m \in Listings
  PROVE  DOMAIN m \subseteq Account /\ \A a \in DOMAIN m : m[a] \in Amounts
BY DEF Listings

\* Nothing listed is a listing.
LEMMA EmptyListing == Empty \in Listings /\ DOMAIN Empty = {}
<1>1. Empty \in [{} -> Amounts]
  BY DEF Empty
<1> QED BY <1>1 DEF Listings, Empty

\* What is available is an amount.
LEMMA AvailableAmount ==
  ASSUME NEW r \in Amounts
  PROVE  Available(r) \in Amounts /\ \A k \in Kind : Available(r)[k] = IF r[k] >= Quota THEN 0 ELSE Quota - r[k]
BY SrmAssumption DEF Available, Amounts

\* A request that fits into an amount fits into a larger one.
LEMMA FitsLarger ==
  ASSUME NEW x \in Amounts, NEW y \in Amounts, NEW amount \in Amount,
         \A k \in Kind : x[k] <= y[k], Fits(x, amount)
  PROVE  Fits(y, amount)
BY SrmAssumption DEF Fits, Amounts, Amount

\* The initial state has the invariant.
LEMMA SrmInitInv == SrmInit => SrmInv
<1> SUFFICES ASSUME SrmInit PROVE SrmInv
  OBVIOUS
<1>1. NoAmount \in Amounts /\ NoAmount \in Amount
  BY SrmAssumption DEF NoAmount, Amounts, Amount
<1>2. SrmTypes
  BY <1>1, EmptyListing DEF SrmInit, SrmTypes
<1>3. SrmLocked /\ CacheFresh /\ ReadsFresh /\ OfferHolds
  BY EmptyListing DEF SrmInit, SrmLocked, CacheFresh, ReadsFresh, OfferHolds
<1>4. WithinQuota
  BY SrmAssumption DEF SrmInit, WithinQuota, NoAmount
<1> QED BY <1>2, <1>3, <1>4 DEF SrmInv

\* The beginning of a call: a match knows the reservations that hold the lock.
LEMMA SrmBegins ==
  ASSUME SrmInv, NEW c \in SrmCall, NEW amount \in Amount,
         \/ MatchResources(c, amount)
         \/ \E a \in Account : ReserveResource(c, a, amount) \/ ReleaseResource(c, a, amount)
  PROVE  SrmInv'
<1> USE SrmAssumption DEF SrmInv, SrmTypes
<1>1. /\ srmPc[c] = "idle"
      /\ UNCHANGED <<reservations, srmCache, srmLocks, metas, offered>>
      /\ \E place \in {"look", "reserve", "release"}, a \in Account \cup {"none"} :
           /\ srmPc' = [srmPc EXCEPT ![c] = place]
           /\ srmArg' = [srmArg EXCEPT ![c] = [account |-> a, amount |-> amount]]
           /\ place # "look" => a \in Account
      /\ \E s : reservedSince' = [reservedSince EXCEPT ![c] = s]
      /\ Matching(c)' => reservedSince'[c] = {srmArg[d].account : d \in {d \in SrmCall : srmPc[d] = "drop"}}
  BY DEF MatchResources, ReserveResource, ReleaseResource, SrmStart, SrmGoto, Matching
<1>2. reservedSince' \in [SrmCall -> SUBSET Account]
  <2>1. {srmArg[d].account : d \in {d \in SrmCall : srmPc[d] = "drop"}} \in SUBSET Account
    BY DEF SrmLocked
  <2>2. CASE MatchResources(c, amount)
    BY <2>1, <2>2 DEF MatchResources
  <2>3. CASE ~MatchResources(c, amount)
    BY <2>3 DEF ReserveResource, ReleaseResource
  <2> QED BY <2>2, <2>3
<1>3. SrmTypes' /\ SrmLocked' /\ WithinQuota'
  BY <1>1, <1>2 DEF srmCache, srmLocks, SrmLocked, WithinQuota
<1>4. ASSUME NEW a \in Account, BeingReserved(a) PROVE BeingReserved(a)'
  BY <1>1, <1>4 DEF BeingReserved, Matching
<1>5. \A m, a : Fresh(m, a)' <=> Fresh(m, a)
  BY <1>1 DEF Fresh
<1>6. CacheFresh'
  BY <1>1, <1>4, <1>5 DEF srmCache, CacheFresh, Fresh
<1>7. ReadsFresh'
  <2>1. \A d \in SrmCall : \A a \in DOMAIN metas[d] : a \in Account
    BY ListingOf
  <2> QED BY <2>1, <1>1, <1>4, <1>5 DEF ReadsFresh, Fresh
<1>8. OfferHolds'
  BY <1>1 DEF OfferHolds
<1> QED BY <1>3, <1>6, <1>7, <1>8

\* GetResources and the match: the cache is fresh, but for accounts that are
\* being reserved from, and the match knows those.
LEMMA SrmAnswers ==
  ASSUME SrmInv, NEW c \in SrmCall, NEW found \in [Account -> Amounts],
         srmPc[c] \in {"look", "read"}, Answer(c, found),
         \A a \in Account : Fresh(found[a], a) \/ BeingReserved(a),
         UNCHANGED <<reservations, srmArg, reservedSince>>
  PROVE  OfferHolds'
<1> USE SrmAssumption DEF SrmInv, SrmTypes
<1>1. ASSUME NEW a \in offered'[c] \ reservedSince[c]
      PROVE  Fits(Available(reservations[a]), srmArg[c].amount)
  <2>1. a \in Account /\ Fits(found[a], srmArg[c].amount)
    BY <1>1 DEF Answer
  <2>2. Fresh(found[a], a)
    BY <1>1, <2>1 DEF BeingReserved, Matching
  <2>3. reservations[a] \in Amounts /\ Available(reservations[a]) \in Amounts
    BY <2>1, AvailableAmount
  <2> QED BY <2>1, <2>2, <2>3, FitsLarger DEF Fresh
<1>2. ASSUME NEW d \in SrmCall \ {c}, srmPc'[d] = "matched"
      PROVE  srmPc[d] = "matched" /\ offered'[d] = offered[d]
  BY <1>2 DEF Answer, SrmGoto
<1> QED BY <1>1, <1>2 DEF OfferHolds

\* The places of a match and of a refill.
LEMMA SrmMatchStep ==
  ASSUME SrmInv, NEW c \in SrmCall,
         LookInCache(c) \/ BeginFill(c) \/ FillFails(c) \/ Matched(c)
  PROVE  SrmInv'
<1>1. /\ UNCHANGED <<reservations, srmCache, reservationLock, srmArg, metas, reservedSince>>
      /\ srmPc[c] \in {"look", "fill", "read", "matched"}
      /\ \E place \in {"idle", "fill", "read", "matched"} :
           /\ srmPc' = [srmPc EXCEPT ![c] = place]
           /\ \/ place = "read" /\ srmPc[c] = "fill" /\ cacheLock = "none" /\ cacheLock' = c
              \/ place # "read" /\ srmPc[c] # "read" /\ cacheLock' = cacheLock
              \/ /\ place = "idle" /\ srmPc[c] = "read" /\ cacheLock' = "none"
                 /\ DOMAIN metas[c] = {}
  <2> USE DEF SrmGoto, srmLocks, srmCache
  <2>1. CASE LookInCache(c)
    BY <2>1 DEF LookInCache, Answer
  <2>2. CASE BeginFill(c)
    BY <2>2 DEF BeginFill
  <2>3. CASE FillFails(c)
    BY <2>3 DEF FillFails, UnlockAfterError
  <2>4. CASE Matched(c)
    BY <2>4 DEF Matched
  <2> QED BY <2>1, <2>2, <2>3, <2>4
<1> USE SrmAssumption DEF SrmInv, SrmTypes, srmCache, srmLocks
<1>2. offered' \in [SrmCall -> SUBSET Account]
  BY ListingOf DEF LookInCache, BeginFill, FillFails, Matched, Answer
<1>3. SrmTypes' /\ SrmLocked' /\ WithinQuota'
  <2>1. SrmTypes' /\ WithinQuota'
    BY <1>1, <1>2 DEF WithinQuota
  <2>2. SrmLocked'
    BY <1>1 DEF SrmLocked
  <2> QED BY <2>1, <2>2
<1>4. \A a \in Account : BeingReserved(a) => BeingReserved(a)'
  BY <1>1 DEF BeingReserved, Matching
<1>5. CacheFresh'
  BY <1>1, <1>4 DEF CacheFresh, Fresh
<1>6. ReadsFresh'
  <2>1. \A d \in SrmCall : \A a \in DOMAIN metas[d] : a \in Account
    BY ListingOf
  <2>2. \A d \in SrmCall : srmPc'[d] # "read" => DOMAIN metas[d] = {}
    BY <1>1 DEF ReadsFresh
  <2> QED BY <2>1, <2>2, <1>1, <1>4 DEF ReadsFresh, Fresh
<1>7. OfferHolds'
  <2>1. CASE LookInCache(c) /\ cacheFull
    <3>1. resourceCache \in [Account -> Amounts]
      BY <2>1 DEF Listings
    <3> QED BY <2>1, <3>1, SrmAnswers DEF LookInCache, CacheFresh
  <2>2. CASE ~(LookInCache(c) /\ cacheFull)
    <3>1. \A d \in SrmCall : srmPc'[d] = "matched" =>
            srmPc[d] = "matched" /\ offered'[d] = offered[d]
      BY <2>2 DEF LookInCache, BeginFill, FillFails, Matched, SrmGoto
    <3> QED BY <3>1, <1>1 DEF OfferHolds
  <2> QED BY <2>1, <2>2
<1> QED BY <1>3, <1>5, <1>6, <1>7

\* An account is read under reservationLock: nobody is reserving from it.
LEMMA SrmReads ==
  ASSUME SrmInv, NEW c \in SrmCall, NEW a \in Account, ReadAccount(c, a)
  PROVE  SrmInv'
<1> USE SrmAssumption DEF SrmInv, SrmTypes, srmCache, srmLocks
<1> DEFINE D == DOMAIN metas[c] \cup {a}
           m == [b \in D |-> IF b = a THEN Available(reservations[a]) ELSE metas[c][b]]
<1>1. metas' = [metas EXCEPT ![c] = m] /\ D \in SUBSET Account
  <2>1. metas[c] \in Listings
    OBVIOUS
  <2>2. DOMAIN metas[c] \subseteq Account
    BY <2>1, ListingOf
  <2> QED BY <2>2 DEF ReadAccount
<1>2. Available(reservations[a]) \in Amounts
  BY AvailableAmount
<1>3. \A b \in D : m[b] \in Amounts
  <2>1. \A b \in DOMAIN metas[c] : metas[c][b] \in Amounts
    BY ListingOf
  <2> QED BY <1>2, <2>1
<1>4. m \in Listings
  <2> HIDE DEF D
  <2>1. m \in [D -> Amounts]
    BY <1>3
  <2> QED BY <2>1, <1>1 DEF Listings
<1> HIDE DEF m
<1>5. SrmTypes' /\ SrmLocked' /\ WithinQuota'
  <2>1. metas' \in [SrmCall -> Listings]
    BY <1>1, <1>4
  <2>2. UNCHANGED <<reservations, resourceCache, cacheFull, cacheLock, reservationLock, srmPc,
                    srmArg, offered, reservedSince>>
    BY DEF ReadAccount
  <2>3. SrmTypes'
    BY <2>1, <2>2
  <2> QED BY <2>2, <2>3 DEF SrmLocked, WithinQuota
<1>6. CacheFresh' /\ OfferHolds'
  BY DEF ReadAccount, CacheFresh, Fresh, BeingReserved, Matching, OfferHolds
<1>7. ReadsFresh'
  <2>1. Fresh(Available(reservations[a]), a)
    BY <1>2 DEF Fresh, Amounts
  <2>2. \A b \in D : Fresh(m[b], b) \/ BeingReserved(b)
    BY <2>1 DEF m, ReadsFresh
  <2>3. DOMAIN m = D
    BY DEF m
  <2> QED BY <1>1, <2>2, <2>3 DEF ReadAccount, ReadsFresh, Fresh, BeingReserved, Matching
<1> QED BY <1>5, <1>6, <1>7

\* The refill fills the cache with what it has read, and answers.
LEMMA SrmFills ==
  ASSUME SrmInv, NEW c \in SrmCall, EndFill(c)
  PROVE  SrmInv'
<1> USE SrmAssumption DEF SrmInv, SrmTypes, srmCache, srmLocks
<1>1. metas[c] \in [Account -> Amounts]
  BY ListingOf DEF EndFill, Listings
<1>2. offered' \in [SrmCall -> SUBSET Account]
  BY <1>1 DEF EndFill, Answer
<1>3. SrmTypes' /\ WithinQuota'
  BY <1>1, <1>2, EmptyListing DEF EndFill, Answer, SrmGoto, WithinQuota
<1>4. SrmLocked'
  BY DEF EndFill, Answer, SrmGoto, SrmLocked
<1>5. \A a \in Account : BeingReserved(a) => BeingReserved(a)'
  BY DEF EndFill, Answer, SrmGoto, BeingReserved, Matching
<1>6. CacheFresh'
  BY <1>1, <1>5 DEF EndFill, ReadsFresh, CacheFresh, Fresh
<1>7. ReadsFresh'
  <2>1. \A d \in SrmCall : \A a \in DOMAIN metas[d] : a \in Account
    BY ListingOf
  <2> QED BY <2>1, <1>5, EmptyListing DEF EndFill, Answer, SrmGoto, ReadsFresh, Fresh
<1>8. OfferHolds'
  BY <1>1, SrmAnswers DEF EndFill, ReadsFresh
<1> QED BY <1>3, <1>4, <1>6, <1>7, <1>8

\* A reservation is checked and booked under reservationLock, which it keeps;
\* whoever matches at that moment hears of it.
LEMMA SrmReserves ==
  ASSUME SrmInv, NEW c \in SrmCall, Reserve(c)
  PROVE  SrmInv'
<1> USE SrmAssumption DEF SrmInv, SrmTypes, srmCache, srmLocks
<1> DEFINE a == srmArg[c].account
           amount == srmArg[c].amount
<1>0. a \in Account /\ amount \in Amount
  BY DEF Reserve, SrmLocked
<1>1. CASE \E k \in Kind : Exceeds(reservations[a], amount, k)
  <2>1. srmPc' = [srmPc EXCEPT ![c] = "idle"] /\ srmPc[c] = "reserve"
        /\ UNCHANGED <<reservations, srmCache, srmLocks, srmArg, metas, offered, reservedSince>>
    BY <1>1 DEF Reserve, SrmGoto
  <2>2. SrmTypes' /\ SrmLocked' /\ WithinQuota'
    BY <2>1 DEF SrmLocked, WithinQuota
  <2>3. \A b \in Account : BeingReserved(b) => BeingReserved(b)'
    BY <2>1 DEF BeingReserved, Matching
  <2>4. CacheFresh' /\ OfferHolds'
    BY <2>1, <2>3 DEF CacheFresh, Fresh, OfferHolds
  <2>5. ReadsFresh'
    BY <2>1, <2>3, ListingOf DEF ReadsFresh, Fresh
  <2> QED BY <2>2, <2>4, <2>5
<1>2. CASE ~\E k \in Kind : Exceeds(reservations[a], amount, k)
  <2> DEFINE more == [k \in Kind |-> reservations[a][k] + amount[k]]
  <2>1. /\ srmPc[c] = "reserve" /\ reservationLock = "none" /\ reservationLock' = c
        /\ reservations' = [reservations EXCEPT ![a] = more]
        /\ reservedSince' = [d \in SrmCall |->
              IF Matching(d) THEN reservedSince[d] \cup {a} ELSE reservedSince[d]]
        /\ srmPc' = [srmPc EXCEPT ![c] = "drop"]
        /\ UNCHANGED <<srmCache, cacheLock, srmArg, metas, offered>>
    BY <1>2 DEF Reserve, SrmGoto
  <2>2. more \in Amounts /\ \A k \in Kind : more[k] <= Quota
    BY <1>0, <1>2 DEF Amounts, Amount, Exceeds
  <2> HIDE DEF more
  <2>3. SrmTypes' /\ SrmLocked' /\ WithinQuota'
    BY <1>0, <2>1, <2>2 DEF SrmLocked, WithinQuota
  <2>4. \A d \in SrmCall : srmPc[d] # "drop"
    BY <2>1 DEF SrmLocked
  <2>5. \A b \in Account : ~BeingReserved(b)
    BY <2>4 DEF BeingReserved
  <2>6. BeingReserved(a)'
    BY <1>0, <2>1 DEF BeingReserved, Matching
  <2>7. \A b \in Account \ {a} : reservations'[b] = reservations[b]
    BY <2>1
  <2>8. CacheFresh'
    BY <2>1, <2>5, <2>6, <2>7 DEF CacheFresh, Fresh
  <2>9. ReadsFresh'
    <3>1. \A d \in SrmCall : \A b \in DOMAIN metas[d] : b \in Account
      BY ListingOf
    <3> QED BY <3>1, <2>1, <2>5, <2>6, <2>7 DEF ReadsFresh, Fresh
  <2>10. OfferHolds'
    BY <2>1, <2>7 DEF OfferHolds, Matching
  <2> QED BY <2>3, <2>8, <2>9, <2>10
<1> QED BY <1>1, <1>2

\* A release leaves more room, whatever it says it releases.
LEMMA SrmReleases ==
  ASSUME SrmInv, NEW c \in SrmCall, Release(c)
  PROVE  SrmInv'
<1> USE SrmAssumption DEF SrmInv, SrmTypes, srmCache, srmLocks
<1> DEFINE a == srmArg[c].account
           less == Less(reservations[a], srmArg[c].amount)
<1>0. a \in Account /\ srmArg[c].amount \in Amount
  BY DEF Release, SrmLocked
<1>1. /\ srmPc[c] = "release" /\ reservationLock = "none" /\ reservationLock' = c
      /\ reservations' = [reservations EXCEPT ![a] = less]
      /\ srmPc' = [srmPc EXCEPT ![c] = "drop"]
      /\ UNCHANGED <<srmCache, cacheLock, srmArg, metas, offered, reservedSince>>
  BY DEF Release, SrmGoto
<1>2. less \in Amounts /\ \A k \in Kind : less[k] <= reservations[a][k]
  BY <1>0 DEF Less, Amounts, Amount
<1> HIDE DEF less
<1>3. \A b \in Account :
        /\ Available(reservations[b]) \in Amounts /\ Available(reservations'[b]) \in Amounts
        /\ \A k \in Kind : Available(reservations[b])[k] <= Available(reservations'[b])[k]
  <2>1. ASSUME NEW b \in Account
        PROVE  /\ Available(reservations[b]) \in Amounts
               /\ Available(reservations'[b]) \in Amounts
               /\ \A k \in Kind : Available(reservations[b])[k] <= Available(reservations'[b])[k]
    <3>1. /\ reservations[b] \in Amounts /\ reservations'[b] \in Amounts
          /\ \A k \in Kind : reservations'[b][k] <= reservations[b][k]
      BY <1>0, <1>1, <1>2 DEF Amounts
    <3> QED BY <3>1 DEF Available, Amounts
  <2> QED BY <2>1
<1>4. SrmTypes' /\ SrmLocked'
  BY <1>0, <1>1, <1>2 DEF SrmLocked
<1>5. WithinQuota'
  BY <1>0, <1>1, <1>2 DEF WithinQuota, Amounts
<1>6. \A b \in Account : BeingReserved(b) => BeingReserved(b)'
  BY <1>1 DEF BeingReserved, Matching
<1>7. \A b \in Account : \A x \in Amounts : Fresh(x, b) => Fresh(x, b)'
  BY <1>3 DEF Fresh, Amounts
<1>8. CacheFresh'
  BY <1>1, <1>6, <1>7, ListingOf DEF CacheFresh
<1>9. ReadsFresh'
  <2>1. \A d \in SrmCall : \A b \in DOMAIN metas[d] : b \in Account /\ metas[d][b] \in Amounts
    BY ListingOf
  <2> QED BY <2>1, <1>1, <1>6, <1>7 DEF ReadsFresh
<1>10. OfferHolds'
  <2>1. ASSUME NEW d \in SrmCall, srmPc'[d] = "matched", NEW b \in offered[d] \ reservedSince[d]
        PROVE  Fits(Available(reservations'[b]), srmArg[d].amount)
    <3>1. b \in Account /\ Fits(Available(reservations[b]), srmArg[d].amount)
      BY <1>1, <2>1 DEF OfferHolds
    <3> QED BY <3>1, <1>3, FitsLarger
  <2> QED BY <2>1, <1>1 DEF OfferHolds
<1> QED BY <1>4, <1>5, <1>8, <1>9, <1>10

\* Dropping the cache, or its expiry: no refill is under way when a reservation
\* drops it.
LEMMA SrmDrops ==
  ASSUME SrmInv, CacheExpires \/ \E c \in SrmCall : DropCache(c)
  PROVE  SrmInv'
<1> USE SrmAssumption DEF SrmInv, SrmTypes, srmCache, srmLocks
<1>1. CASE CacheExpires
  BY <1>1, ListingOf DEF CacheExpires, SrmLocked, WithinQuota, CacheFresh, ReadsFresh, Fresh,
                         BeingReserved, Matching, OfferHolds
<1>2. ASSUME NEW c \in SrmCall, DropCache(c) PROVE SrmInv'
  <2>1. SrmTypes' /\ SrmLocked' /\ WithinQuota' /\ CacheFresh'
    BY <1>2, EmptyListing
       DEF DropCache, InvalidateCache, SrmGoto, SrmLocked, WithinQuota, CacheFresh
  <2>2. \A d \in SrmCall : DOMAIN metas[d] = {}
    BY <1>2 DEF DropCache, SrmLocked, ReadsFresh
  <2>3. ReadsFresh'
    BY <1>2, <2>2 DEF DropCache, ReadsFresh
  <2>4. OfferHolds'
    BY <1>2 DEF DropCache, SrmGoto, OfferHolds
  <2> QED BY <2>1, <2>3, <2>4
<1> QED BY <1>1, <1>2

\* Every step keeps the invariant.
LEMMA SrmStepKeeps == SrmInv /\ [SrmNext]_srmVars => SrmInv'
<1> SUFFICES ASSUME SrmInv, [SrmNext]_srmVars PROVE SrmInv'
  OBVIOUS
<1>1. CASE UNCHANGED srmVars
  BY <1>1 DEF srmVars, srmCache, srmLocks, SrmInv, SrmTypes, SrmLocked, WithinQuota, CacheFresh,
              ReadsFresh, Fresh, BeingReserved, Matching, OfferHolds
<1>2. CASE SrmNext
  BY <1>2, SrmBegins, SrmMatchStep, SrmReads, SrmFills, SrmReserves, SrmReleases, SrmDrops
     DEF SrmNext, SrmStep
<1> QED BY <1>1, <1>2

\* It says what ReservationsHold asks of the account resources.
LEMMA SrmHolds == SrmInv => SrmTypeOK /\ WithinQuota /\ OfferHolds
BY DEF SrmInv, SrmTypes, SrmLocked, Amounts, SrmTypeOK

\* The invariant holds in every state.
THEOREM SrmInvariant == SrmSpec => []SrmInv
BY SrmInitInv, SrmStepKeeps, PTL DEF SrmSpec

\* No account has more reserved than its quota, whoever calls ReserveResource at
\* once.
THEOREM WithinQuotaAlways == SrmSpec => []WithinQuota
<1>1. SrmInv => WithinQuota
  BY DEF SrmInv
<1> QED BY SrmInvariant, <1>1, PTL

\* An account that MatchResources returns has room for the request, but for what
\* was reserved since the call began: a stale cache is never all it looks at.
THEOREM OfferHoldsAlways == SrmSpec => []OfferHolds
<1>1. SrmInv => OfferHolds
  BY DEF SrmInv
<1> QED BY SrmInvariant, <1>1, PTL

(***************************************************************************)
(* ResourcePool                                                            *)
(***************************************************************************)
PoolPlace == {"idle", "decide", "refused", "book", "stuck"}

PoolTypes ==
  /\ poolNodes \in SUBSET PoolNode /\ online \in SUBSET poolNodes
  /\ freeOf \in [PoolNode -> Nat] /\ allocatedOf \in [PoolNode -> Nat]
  /\ DOMAIN reserves \subseteq PoolReq
  /\ \A r \in DOMAIN reserves : reserves[r] \in PoolNode \cup {"none"}
  /\ pendingQueue \in Seq(PoolReq) /\ batch \in Seq(PoolReq) /\ left \in Seq(PoolReq)
  /\ poolPc \in [PoolCall -> PoolPlace] /\ poolReq \in [PoolCall -> PoolReq \cup {"none"}]
  /\ poolPick \in [PoolCall -> PoolNode \cup {"none"}]
  /\ answered \in [PoolReq -> {"no", "queued", "error", "given"}]
  /\ bookedAt \in [PoolReq -> PoolNode \cup {"none"}]

\* The requests in the queue and in the allocator's hands.
Held == Range(pendingQueue) \cup Range(batch) \cup Range(left)

\* What a request of a call that goes on is: the call's own, and not answered yet.
CallHasRequest(c) ==
  poolPc[c] # "idle" =>
    /\ poolReq[c] \in PoolReq /\ answered[poolReq[c]] = "no"
    /\ poolPc[c] = "book" => poolPick[c] \in PoolNode
    /\ \A d \in PoolCall \ {c} : poolPc[d] # "idle" => poolReq[d] # poolReq[c]

\* Before an operation keeps the pool's mutex, reservations are those the user has
\* filled in, each under the name of its node.
BeforeBlocked ==
  ~poolBlocked =>
    /\ renewed = {} /\ \A r \in PoolReq : bookedAt[r] = "none"
    /\ \A r \in DOMAIN reserves : reserves[r] \in PoolNode /\ answered[r] = "given"
    /\ \A r \in Held : answered[r] = "queued"
    /\ \A c \in PoolCall : CallHasRequest(c)
    /\ allocPc = "book" => batch # <<>> /\ allocPick \in PoolNode
    /\ allocPc = "idle" => batch = <<>> /\ left = <<>>

PoolInv == PoolTypes /\ BeforeBlocked /\ LedgerBalances /\ QueuedStays

\* What is in a sequence that gets one more, loses its first, or is put behind another.
LEMMA RangeOf ==
  ASSUME NEW S, NEW s \in Seq(S), NEW t \in Seq(S)
  PROVE  /\ Range(s) \subseteq S
         /\ \A x : Range(Append(s, x)) = Range(s) \cup {x}
         /\ s # <<>> => Range(s) = {Head(s)} \cup Range(Tail(s)) /\ Head(s) \in S /\ Tail(s) \in Seq(S)
         /\ Range(s \o t) = Range(s) \cup Range(t) /\ s \o t \in Seq(S)
         /\ Range(<<>>) = {}
<1>1. Range(s) \subseteq S
  BY DEF Range
<1>2. ASSUME NEW x PROVE Range(Append(s, x)) = Range(s) \cup {x}
  <2>1. /\ DOMAIN Append(s, x) = 1..(Len(s) + 1) /\ DOMAIN s = 1..Len(s) /\ Len(s) \in Nat
        /\ \A i \in 1..Len(s) : Append(s, x)[i] = s[i]
        /\ Append(s, x)[Len(s) + 1] = x
    OBVIOUS
  <2>2. ASSUME NEW y \in Range(Append(s, x)) PROVE y \in Range(s) \cup {x}
    BY <2>1, <2>2 DEF Range
  <2>3. ASSUME NEW y \in Range(s) \cup {x} PROVE y \in Range(Append(s, x))
    BY <2>1, <2>3 DEF Range
  <2> QED BY <2>2, <2>3
<1>3. s # <<>> => Range(s) = {Head(s)} \cup Range(Tail(s)) /\ Head(s) \in S /\ Tail(s) \in Seq(S)
  <2> SUFFICES ASSUME s # <<>>
               PROVE  Range(s) = {Head(s)} \cup Range(Tail(s)) /\ Head(s) \in S /\ Tail(s) \in Seq(S)
    OBVIOUS
  <2>1. /\ Len(s) \in Nat /\ Len(s) >= 1 /\ DOMAIN s = 1..Len(s) /\ DOMAIN Tail(s) = 1..(Len(s) - 1)
        /\ Head(s) = s[1] /\ \A i \in 1..(Len(s) - 1) : Tail(s)[i] = s[i + 1]
    OBVIOUS
  <2>2. ASSUME NEW y \in Range(s) PROVE y \in {Head(s)} \cup Range(Tail(s))
    <3>1. PICK i \in 1..Len(s) : s[i] = y
      BY <2>1 DEF Range
    <3>2. i # 1 => i - 1 \in 1..(Len(s) - 1) /\ Tail(s)[i - 1] = y
      BY <2>1, <3>1
    <3> QED BY <2>1, <3>1, <3>2 DEF Range
  <2>3. ASSUME NEW y \in {Head(s)} \cup Range(Tail(s)) PROVE y \in Range(s)
    BY <2>1, <2>3 DEF Range
  <2>4. Head(s) \in S /\ Tail(s) \in Seq(S)
    OBVIOUS
  <2> QED BY <2>2, <2>3, <2>4
<1>4. Range(s \o t) = Range(s) \cup Range(t)
  <2>1. /\ Len(s) \in Nat /\ Len(t) \in Nat /\ DOMAIN s = 1..Len(s) /\ DOMAIN t = 1..Len(t)
        /\ DOMAIN (s \o t) = 1..(Len(s) + Len(t))
        /\ \A i \in 1..(Len(s) + Len(t)) : (s \o t)[i] = IF i <= Len(s) THEN s[i] ELSE t[i - Len(s)]
    OBVIOUS
  <2>2. ASSUME NEW y \in Range(s \o t) PROVE y \in Range(s) \cup Range(t)
    <3>1. PICK i \in 1..(Len(s) + Len(t)) : (s \o t)[i] = y
      BY <2>1 DEF Range
    <3>2. CASE i <= Len(s)
      BY <2>1, <3>1, <3>2 DEF Range
    <3>3. CASE ~(i <= Len(s))
      <4>1. i - Len(s) \in 1..Len(t) /\ t[i - Len(s)] = y
        BY <2>1, <3>1, <3>3
      <4> QED BY <2>1, <4>1 DEF Range
    <3> QED BY <3>2, <3>3
  <2>3. ASSUME NEW y \in Range(s) PROVE y \in Range(s \o t)
    BY <2>1, <2>3 DEF Range
  <2>4. ASSUME NEW y \in Range(t) PROVE y \in Range(s \o t)
    <3>1. PICK i \in 1..Len(t) : t[i] = y
      BY <2>1, <2>4 DEF Range
    <3>2. i + Len(s) \in 1..(Len(s) + Len(t)) /\ (s \o t)[i + Len(s)] = y
      BY <2>1, <3>1
    <3> QED BY <2>1, <3>2 DEF Range
  <2> QED BY <2>2, <2>3, <2>4
<1>5. s \o t \in Seq(S) /\ Range(<<>>) = {}
  BY DEF Range
<1> QED BY <1>1, <1>2, <1>3, <1>4, <1>5

\* When one request comes to a node or leaves it, what is reserved on the node
\* changes by what the request demands.
LEMMA ReservedChange ==
  ASSUME NEW r \in PoolReq, NEW n, \A q \in PoolReq \ {r} : q \in At(n)' <=> q \in At(n)
  PROVE  /\ SumFunction(ReservedOn(n)) \in Nat
         /\ SumFunction(ReservedOn(n))' = SumFunction(ReservedOn(n))
              - (IF r \in At(n) THEN Demand[r] ELSE 0) + (IF r \in At(n)' THEN Demand[r] ELSE 0)
         /\ r \in At(n) => SumFunction(ReservedOn(n)) >= Demand[r]
         /\ Demand[r] \in Nat \ {0}
<1>0. IsFiniteSet(PoolReq) /\ Demand \in [PoolReq -> Nat \ {0}]
  BY PoolAssumption
<1>1. PICK f : f = ReservedOn(n)
  OBVIOUS
<1>2. PICK h : h = [q \in PoolReq |-> IF q \in At(n)' THEN Demand[q] ELSE 0]
  OBVIOUS
<1>3. h = ReservedOn(n)'
  BY <1>2 DEF ReservedOn
<1>4. f \in [PoolReq -> Nat] /\ f[r] = IF r \in At(n) THEN Demand[r] ELSE 0
  BY <1>0, <1>1 DEF ReservedOn
<1>5. h \in [PoolReq -> Nat] /\ h[r] = IF r \in At(n)' THEN Demand[r] ELSE 0
  BY <1>0, <1>2
<1>6. \A q \in PoolReq \ {r} : h[q] = f[q]
  BY <1>1, <1>2 DEF ReservedOn
<1>7. f \in [PoolReq -> Int] /\ h \in [PoolReq -> Int]
  BY <1>4, <1>5
<1>8. SumFunction(h) = SumFunction(f) - f[r] + h[r]
  BY <1>0, <1>6, <1>7, SumChange
<1>9. SumFunction(f) \in Nat
  BY <1>0, <1>4, SumNat
<1>10. SumFunction(f) >= f[r]
  BY <1>0, <1>4, SumMember
<1> QED BY <1>0, <1>1, <1>3, <1>4, <1>5, <1>8, <1>9, <1>10

\* The ledger stays while reservations, nodes and what they count stay.
LEMMA LedgerStays ==
  ASSUME LedgerBalances, UNCHANGED <<reserves, bookedAt, freeOf, allocatedOf>>,
         poolNodes' \ renewed' \subseteq poolNodes \ renewed
  PROVE  LedgerBalances'
BY DEF LedgerBalances, ReservedOn, At

\* A pool without reservations satisfies the invariant.
LEMMA PoolInitInv == PoolInit => PoolInv
<1> SUFFICES ASSUME PoolInit PROVE PoolInv
  OBVIOUS
<1>0. PoolCapacity \in Nat /\ Range(<<>>) = {} /\ IsFiniteSet(PoolReq)
  BY PoolAssumption DEF Range
<1>1. PoolTypes
  BY <1>0 DEF PoolInit, PoolTypes, PoolPlace
<1>2. BeforeBlocked /\ QueuedStays
  BY <1>0 DEF PoolInit, BeforeBlocked, QueuedStays, CallHasRequest, Held
<1>3. LedgerBalances
  <2>1. ASSUME NEW n \in poolNodes
        PROVE  allocatedOf[n] = SumFunction(ReservedOn(n)) /\ freeOf[n] + allocatedOf[n] = PoolCapacity
    <3>1. n \in PoolNode /\ allocatedOf[n] = 0 /\ freeOf[n] = PoolCapacity /\ At(n) = {}
      BY <2>1 DEF PoolInit, At
    <3>2. PICK f : f = ReservedOn(n)
      OBVIOUS
    <3>3. f \in [PoolReq -> Int] /\ \A r \in PoolReq : f[r] = 0
      BY <3>1, <3>2 DEF ReservedOn
    <3>4. SumFunction(f) = 0
      BY <1>0, <3>3, SumZero
    <3> QED BY <1>0, <3>1, <3>2, <3>4
  <2> QED BY <2>1 DEF LedgerBalances
<1> QED BY <1>1, <1>2, <1>3 DEF PoolInv

\* A request that is refused is queued, or answered with an error.
LEMMA NotServedKeeps ==
  ASSUME PoolInv, ~poolBlocked, NEW c \in PoolCall, NEW r \in PoolReq,
         answered[r] = "no", \A d \in PoolCall \ {c} : poolPc[d] # "idle" => poolReq[d] # r,
         NotServed(c, r), UNCHANGED <<poolLedger, poolHooks, poolBlocked, poolAllocator>>
  PROVE  PoolInv'
<1>0. PoolTypes /\ BeforeBlocked /\ LedgerBalances /\ QueuedStays
  BY DEF PoolInv
<1>1. UNCHANGED <<poolNodes, online, freeOf, allocatedOf, reserves, bookedAt, renewed, poolBlocked, batch, left, allocPick, allocPc>>
  BY DEF poolLedger, poolAllocator
<1>2. PICK answer \in {"queued", "error"} :
        /\ poolPc' = [poolPc EXCEPT ![c] = "idle"] /\ answered' = [answered EXCEPT ![r] = answer]
        /\ poolPick' = [poolPick EXCEPT ![c] = "none"] /\ poolReq' = poolReq
        /\ answer = "queued" => pendingQueue' = Append(pendingQueue, r)
        /\ answer = "error" => pendingQueue' = pendingQueue
  BY DEF NotServed, PoolReturns, PoolGoto
<1>3. /\ pendingQueue' \in Seq(PoolReq)
      /\ Range(pendingQueue') = IF answer = "queued" THEN Range(pendingQueue) \cup {r} ELSE Range(pendingQueue)
  <2>1. CASE answer = "queued"
    <3>1. pendingQueue \in Seq(PoolReq) /\ Append(pendingQueue, r) \in Seq(PoolReq)
      BY <1>0 DEF PoolTypes
    <3>2. Range(Append(pendingQueue, r)) = Range(pendingQueue) \cup {r}
      BY <3>1, RangeOf
    <3> QED BY <1>2, <2>1, <3>1, <3>2
  <2>2. CASE answer = "error"
    BY <1>0, <1>2, <2>2 DEF PoolTypes
  <2> QED BY <2>1, <2>2
<1>4. Held' = IF answer = "queued" THEN Held \cup {r} ELSE Held
  BY <1>1, <1>3 DEF Held
<1>5. PoolTypes'
  BY <1>0, <1>1, <1>2, <1>3 DEF PoolTypes, PoolPlace
<1>6. BeforeBlocked'
  <2>1. \A d \in PoolCall : CallHasRequest(d)'
    <3> SUFFICES ASSUME NEW d \in PoolCall PROVE CallHasRequest(d)'
      OBVIOUS
    <3>1. CASE d = c
      BY <1>0, <1>2, <3>1 DEF PoolTypes, CallHasRequest
    <3>2. CASE d # c
      <4>1. poolPc'[d] = poolPc[d] /\ poolPc'[c] = "idle" /\ poolReq'[d] = poolReq[d] /\ poolPick'[d] = poolPick[d]
            /\ \A e \in PoolCall : poolPc'[e] # "idle" => poolPc[e] # "idle"
        BY <1>0, <1>2, <3>2 DEF PoolTypes
      <4>2. poolPc[d] # "idle" => poolReq[d] # r /\ poolReq[d] \in PoolReq /\ answered'[poolReq[d]] = answered[poolReq[d]]
        BY <1>0, <1>2, <3>2 DEF PoolTypes, BeforeBlocked, CallHasRequest
      <4>3. CallHasRequest(d)
        BY <1>0 DEF BeforeBlocked
      <4> QED BY <1>2, <4>1, <4>2, <4>3 DEF CallHasRequest
    <3> QED BY <3>1, <3>2
  <2>2. \A q \in Held' : answered'[q] = "queued"
    BY <1>0, <1>2, <1>4 DEF BeforeBlocked, PoolTypes
  <2>3. \A q \in DOMAIN reserves : q # r /\ q \in PoolReq
    BY <1>0 DEF BeforeBlocked, PoolTypes
  <2>4. \A q \in DOMAIN reserves : answered'[q] = answered[q]
    BY <1>0, <1>2, <2>3 DEF PoolTypes
  <2> QED BY <1>0, <1>1, <2>1, <2>2, <2>4 DEF BeforeBlocked
<1>7. QueuedStays'
  <2>1. \A q \in PoolReq : answered[q] = "queued" => q \in Held \cup DOMAIN reserves
    BY <1>0 DEF QueuedStays, Held
  <2>2. \A q \in PoolReq : answered'[q] = "queued" => q \in Held' \cup DOMAIN reserves
    BY <1>0, <1>2, <1>4, <2>1 DEF PoolTypes
  <2> QED BY <1>1, <2>2 DEF QueuedStays, Held
<1>8. LedgerBalances'
  BY <1>0, <1>1, LedgerStays
<1> QED BY <1>5, <1>6, <1>7, <1>8 DEF PoolInv

\* What is given up to the policy, chosen by it or gone keeps ledger and queue.
LEMMA CallKeeps ==
  ASSUME PoolInv, NEW c \in PoolCall,
         (\E r \in PoolReq : Allocate(c, r)) \/ DecideNode(c) \/ PolicyFailed(c) \/ NodeDisappeared(c)
  PROVE  PoolInv'
<1>0. PoolTypes /\ BeforeBlocked /\ LedgerBalances /\ QueuedStays /\ ~poolBlocked
  BY DEF PoolInv, Allocate, DecideNode, PolicyFailed, NodeDisappeared
<1>1. ASSUME NEW r \in PoolReq, Allocate(c, r) PROVE PoolInv'
  <2>1. /\ poolPc[c] = "idle" /\ answered[r] = "no" /\ \A d \in PoolCall : poolPc[d] # "idle" => poolReq[d] # r
        /\ UNCHANGED <<poolLedger, poolHooks, poolBlocked, poolAllocator>>
    BY <1>1 DEF Allocate
  <2>2. CASE NotServed(c, r)
    BY <1>0, <2>1, <2>2, NotServedKeeps
  <2>3. CASE ~NotServed(c, r)
    <3>1. /\ poolPc' = [poolPc EXCEPT ![c] = "decide"] /\ poolReq' = [poolReq EXCEPT ![c] = r]
          /\ UNCHANGED <<pendingQueue, poolPick, answered>>
      BY <1>1, <2>3 DEF Allocate, PoolGoto
    <3>2. UNCHANGED <<poolNodes, online, freeOf, allocatedOf, reserves, bookedAt, renewed, poolBlocked, batch, left, allocPick, allocPc>>
      BY <2>1 DEF poolLedger, poolAllocator
    <3>3. PoolTypes'
      BY <1>0, <3>1, <3>2 DEF PoolTypes, PoolPlace
    <3>4. \A d \in PoolCall : CallHasRequest(d)'
      <4>1. ASSUME NEW d \in PoolCall, d # c PROVE CallHasRequest(d)'
        <5>1. poolPc'[d] = poolPc[d] /\ poolReq'[d] = poolReq[d] /\ poolReq'[c] = r /\ CallHasRequest(d)
              /\ \A e \in PoolCall \ {c} : poolPc'[e] = poolPc[e] /\ poolReq'[e] = poolReq[e]
          BY <1>0, <3>1, <4>1 DEF PoolTypes, BeforeBlocked
        <5> QED BY <2>1, <3>1, <4>1, <5>1 DEF CallHasRequest
      <4>2. CallHasRequest(c)'
        <5>1. poolPc'[c] = "decide" /\ poolReq'[c] = r
              /\ \A e \in PoolCall \ {c} : poolPc'[e] = poolPc[e] /\ poolReq'[e] = poolReq[e]
          BY <1>0, <3>1 DEF PoolTypes
        <5> QED BY <2>1, <3>1, <5>1 DEF CallHasRequest
      <4> QED BY <4>1, <4>2
    <3>5. BeforeBlocked'
      BY <1>0, <3>1, <3>2, <3>4 DEF BeforeBlocked, Held
    <3>6. QueuedStays'
      BY <1>0, <3>1, <3>2 DEF QueuedStays
    <3>7. LedgerBalances'
      BY <1>0, <3>2, LedgerStays
    <3> QED BY <3>3, <3>5, <3>6, <3>7 DEF PoolInv
  <2> QED BY <2>2, <2>3
<1>2. CASE DecideNode(c)
  <2>1. /\ poolPc[c] = "decide"
        /\ UNCHANGED <<poolNodes, online, freeOf, allocatedOf, reserves, bookedAt, renewed, poolBlocked>>
        /\ UNCHANGED <<pendingQueue, poolReq, answered, batch, left, allocPick, allocPc>>
    BY <1>2 DEF DecideNode, poolLedger, poolAllocator
  <2>2. \/ \E n \in PoolNode : poolPick' = [poolPick EXCEPT ![c] = n] /\ poolPc' = [poolPc EXCEPT ![c] = "book"]
        \/ poolPc' = [poolPc EXCEPT ![c] = "refused"] /\ poolPick' = poolPick
    BY <1>0, <1>2 DEF DecideNode, PoolGoto, PoolCandidates, PoolTypes
  <2>3. PoolTypes'
    BY <1>0, <2>1, <2>2 DEF PoolTypes, PoolPlace
  <2>4. \A d \in PoolCall : CallHasRequest(d)'
    <3>1. \A e \in PoolCall : poolPc'[e] # "idle" => poolPc[e] # "idle"
      BY <1>0, <2>1, <2>2 DEF PoolTypes
    <3>2. \A e \in PoolCall : poolPc'[e] = "book" => (poolPc[e] = "book" \/ e = c) /\ poolPick'[e] \in PoolNode
      BY <1>0, <2>1, <2>2 DEF PoolTypes, BeforeBlocked, CallHasRequest
    <3> QED BY <1>0, <2>1, <3>1, <3>2 DEF BeforeBlocked, CallHasRequest
  <2>5. BeforeBlocked'
    BY <1>0, <2>1, <2>4 DEF BeforeBlocked, Held
  <2>6. QueuedStays'
    BY <1>0, <2>1 DEF QueuedStays
  <2>7. LedgerBalances'
    BY <1>0, <2>1, LedgerStays
  <2> QED BY <2>3, <2>5, <2>6, <2>7 DEF PoolInv
<1>3. CASE PolicyFailed(c)
  <2>1. poolPc[c] = "refused" /\ NotServed(c, poolReq[c]) /\ UNCHANGED <<poolLedger, poolHooks, poolBlocked, poolAllocator>>
    BY <1>3 DEF PolicyFailed
  <2>2. CallHasRequest(c)
    BY <1>0 DEF BeforeBlocked
  <2>3. PICK r \in PoolReq : r = poolReq[c]
    BY <2>1, <2>2 DEF CallHasRequest
  <2>4. answered[r] = "no" /\ \A d \in PoolCall \ {c} : poolPc[d] # "idle" => poolReq[d] # r
    BY <2>1, <2>2, <2>3 DEF CallHasRequest
  <2>5. NotServed(c, r)
    BY <2>1, <2>3
  <2> QED BY <1>0, <2>1, <2>4, <2>5, NotServedKeeps
<1>4. CASE NodeDisappeared(c)
  <2>1. /\ poolPc[c] = "book"
        /\ UNCHANGED <<poolNodes, online, freeOf, allocatedOf, reserves, bookedAt, renewed, poolBlocked>>
        /\ UNCHANGED <<pendingQueue, poolReq, batch, left, allocPick, allocPc>>
    BY <1>4 DEF NodeDisappeared, poolLedger, poolAllocator, PoolReturns
  <2>2. PICK r \in PoolReq : r = poolReq[c]
    BY <1>0, <2>1 DEF BeforeBlocked, CallHasRequest
  <2>3. /\ poolPc' = [poolPc EXCEPT ![c] = "idle"] /\ answered' = [answered EXCEPT ![r] = "error"]
        /\ poolPick' = [poolPick EXCEPT ![c] = "none"]
    BY <1>4, <2>2 DEF NodeDisappeared, PoolReturns, PoolGoto
  <2>4. answered[r] = "no" /\ \A d \in PoolCall \ {c} : poolPc[d] # "idle" => poolReq[d] # r
    BY <1>0, <2>1, <2>2 DEF BeforeBlocked, CallHasRequest
  <2>5. PoolTypes'
    BY <1>0, <2>1, <2>3 DEF PoolTypes, PoolPlace
  <2>6. \A d \in PoolCall : CallHasRequest(d)'
    <3> SUFFICES ASSUME NEW d \in PoolCall PROVE CallHasRequest(d)'
      OBVIOUS
    <3>1. CASE d = c
      BY <1>0, <2>3, <3>1 DEF PoolTypes, CallHasRequest
    <3>2. CASE d # c
      <4>1. poolPc'[d] = poolPc[d] /\ poolPick'[d] = poolPick[d] /\ CallHasRequest(d)
            /\ \A e \in PoolCall : poolPc'[e] # "idle" => poolPc[e] # "idle"
        BY <1>0, <2>3, <3>2 DEF PoolTypes, BeforeBlocked
      <4>2. poolPc[d] # "idle" => answered'[poolReq[d]] = answered[poolReq[d]]
        BY <1>0, <2>3, <2>4, <3>2, <4>1 DEF PoolTypes, CallHasRequest
      <4> QED BY <2>1, <4>1, <4>2 DEF CallHasRequest
    <3> QED BY <3>1, <3>2
  <2>7. \A q \in PoolReq : q # r => answered'[q] = answered[q]
    BY <1>0, <2>3 DEF PoolTypes
  <2>8. \A q \in Held : q \in PoolReq /\ q # r
    <3>1. Held \subseteq PoolReq
      BY <1>0, RangeOf DEF PoolTypes, Held
    <3> QED BY <1>0, <2>4, <3>1 DEF BeforeBlocked
  <2>9. \A q \in DOMAIN reserves : q \in PoolReq /\ q # r
    BY <1>0, <2>4 DEF BeforeBlocked, PoolTypes
  <2>10. BeforeBlocked'
    <3>1. Held' = Held
      BY <2>1 DEF Held
    <3> QED BY <1>0, <2>1, <2>6, <2>7, <2>8, <2>9, <3>1 DEF BeforeBlocked
  <2>11. QueuedStays'
    <3>1. \A q \in PoolReq : answered'[q] = "queued" => answered[q] = "queued"
      BY <1>0, <2>3 DEF PoolTypes
    <3> QED BY <1>0, <2>1, <3>1 DEF QueuedStays
  <2>12. LedgerBalances'
    BY <1>0, <2>1, LedgerStays
  <2> QED BY <2>5, <2>10, <2>11, <2>12 DEF PoolInv
<1> QED BY <1>1, <1>2, <1>3, <1>4

\* What the allocator has in its hands and puts back stays between it and the queue.
LEMMA PendingKeeps ==
  ASSUME PoolInv, TakePending \/ DecidePending \/ PutBack
  PROVE  PoolInv'
<1>0. PoolTypes /\ BeforeBlocked /\ LedgerBalances /\ QueuedStays /\ ~poolBlocked
  BY DEF PoolInv, TakePending, DecidePending, PutBack
<1>1. UNCHANGED <<poolNodes, online, freeOf, allocatedOf, reserves, bookedAt, renewed, poolBlocked,
                  poolPc, poolReq, poolPick, answered>>
  BY DEF TakePending, DecidePending, PutBack, poolLedger, poolCalls
<1>2. /\ Range(<<>>) = {} /\ <<>> \in Seq(PoolReq)
      /\ batch # <<>> => Range(batch) = {Head(batch)} \cup Range(Tail(batch)) /\ Head(batch) \in PoolReq /\ Tail(batch) \in Seq(PoolReq)
      /\ \A x : Range(Append(left, x)) = Range(left) \cup {x}
      /\ \A x \in PoolReq : Append(left, x) \in Seq(PoolReq)
      /\ Range(pendingQueue \o left) = Range(pendingQueue) \cup Range(left) /\ pendingQueue \o left \in Seq(PoolReq)
  <2>1. pendingQueue \in Seq(PoolReq) /\ batch \in Seq(PoolReq) /\ left \in Seq(PoolReq)
    BY <1>0 DEF PoolTypes
  <2>2. batch # <<>> => Range(batch) = {Head(batch)} \cup Range(Tail(batch)) /\ Head(batch) \in PoolReq /\ Tail(batch) \in Seq(PoolReq)
    BY <2>1, RangeOf
  <2>3. \A x : Range(Append(left, x)) = Range(left) \cup {x}
    BY <2>1, RangeOf
  <2>4. Range(pendingQueue \o left) = Range(pendingQueue) \cup Range(left) /\ pendingQueue \o left \in Seq(PoolReq)
    BY <2>1, RangeOf
  <2>5. Range(<<>>) = {} /\ <<>> \in Seq(PoolReq) /\ \A x \in PoolReq : Append(left, x) \in Seq(PoolReq)
    BY <2>1 DEF Range
  <2> QED BY <2>2, <2>3, <2>4, <2>5
<1>3. /\ Held' = Held
      /\ pendingQueue' \in Seq(PoolReq) /\ batch' \in Seq(PoolReq) /\ left' \in Seq(PoolReq)
      /\ allocPc' = "book" => batch' # <<>> /\ allocPick' \in PoolNode
      /\ allocPc' = "idle" => batch' = <<>> /\ left' = <<>>
  <2>1. CASE TakePending
    <3>1. /\ batch' = pendingQueue /\ left' = <<>> /\ pendingQueue' = <<>> /\ allocPc' = "each"
          /\ batch = <<>> /\ left = <<>>
      BY <1>0, <2>1 DEF TakePending, BeforeBlocked
    <3> QED BY <1>0, <1>2, <3>1 DEF Held, PoolTypes
  <2>2. CASE DecidePending
    <3>1. pendingQueue' = pendingQueue /\ batch # <<>> /\ allocPc = "each"
      BY <2>2 DEF DecidePending
    <3>2. CASE batch' = batch /\ left' = left /\ allocPc' = "book" /\ allocPick' \in poolNodes
      BY <1>0, <3>1, <3>2 DEF Held, PoolTypes
    <3>3. CASE left' = Append(left, Head(batch)) /\ batch' = Tail(batch) /\ allocPc' = "each"
      BY <1>0, <1>2, <3>1, <3>3 DEF Held, PoolTypes
    <3> QED BY <2>2, <3>1, <3>2, <3>3 DEF DecidePending, PoolCandidates
  <2>3. CASE PutBack
    <3>1. /\ pendingQueue' = pendingQueue \o left /\ left' = <<>> /\ batch' = batch /\ batch = <<>> /\ allocPc' = "idle"
      BY <2>3 DEF PutBack, QueueWithLeft
    <3> QED BY <1>0, <1>2, <3>1 DEF Held, PoolTypes
  <2> QED BY <2>1, <2>2, <2>3
<1>4. PoolTypes'
  BY <1>0, <1>1, <1>3 DEF PoolTypes
<1>5. BeforeBlocked'
  <2>1. \A c \in PoolCall : CallHasRequest(c)'
    BY <1>0, <1>1 DEF BeforeBlocked, CallHasRequest
  <2> QED BY <1>0, <1>1, <1>3, <2>1 DEF BeforeBlocked
<1>6. QueuedStays'
  BY <1>0, <1>1, <1>3 DEF QueuedStays, Held
<1>7. LedgerBalances'
  BY <1>0, <1>1, LedgerStays
<1> QED BY <1>4, <1>5, <1>6, <1>7 DEF PoolInv

\* Nodes that come, go or change, and hooks that are set, keep the ledger of the
\* nodes that stay as they were.
LEMMA NodesKeep ==
  ASSUME PoolInv,
         \/ InjectOrRemovePolicy \/ SetForecastHook
         \/ \E n \in PoolNode : \/ AddPoolNode(n) \/ RemoveNode(n) \/ UpdateNodeStatus(n)
                               \/ \E amount \in 0..PoolCapacity : UpdateNodeResources(n, amount)
  PROVE  PoolInv'
<1>0. PoolTypes /\ BeforeBlocked /\ LedgerBalances /\ QueuedStays /\ ~poolBlocked /\ PoolCapacity \in Nat
  BY PoolAssumption DEF PoolInv, InjectOrRemovePolicy, SetForecastHook, AddPoolNode, RemoveNode, UpdateNodeStatus,
                        UpdateNodeResources
<1>1. UNCHANGED <<reserves, bookedAt, pendingQueue, poolPc, poolReq, poolPick, answered, batch, left, allocPick, allocPc>>
  BY DEF InjectOrRemovePolicy, SetForecastHook, AddPoolNode, RemoveNode, UpdateNodeStatus, UpdateNodeResources,
         poolLedger, poolCalls, poolAllocator
<1>2. /\ poolNodes' \in SUBSET PoolNode /\ online' \in SUBSET poolNodes'
      /\ freeOf' \in [PoolNode -> Nat] /\ allocatedOf' \in [PoolNode -> Nat]
      /\ poolBlocked' \in {TRUE, poolBlocked} /\ (poolBlocked' = TRUE \/ renewed' = renewed)
      /\ \A m \in poolNodes' \ renewed' :
           /\ m \in poolNodes \ renewed
           /\ freeOf'[m] = freeOf[m] /\ allocatedOf'[m] = allocatedOf[m]
  <2>1. CASE InjectOrRemovePolicy \/ SetForecastHook
    BY <1>0, <2>1 DEF InjectOrRemovePolicy, SetForecastHook, poolLedger, PoolTypes
  <2>2. ASSUME NEW n \in PoolNode, AddPoolNode(n) \/ RemoveNode(n) \/ UpdateNodeStatus(n)
                               \/ \E amount \in 0..PoolCapacity : UpdateNodeResources(n, amount)
        PROVE  /\ poolNodes' \in SUBSET PoolNode /\ online' \in SUBSET poolNodes'
               /\ freeOf' \in [PoolNode -> Nat] /\ allocatedOf' \in [PoolNode -> Nat]
               /\ poolBlocked' \in {TRUE, poolBlocked} /\ (poolBlocked' = TRUE \/ renewed' = renewed)
               /\ \A m \in poolNodes' \ renewed' :
                    /\ m \in poolNodes \ renewed
                    /\ freeOf'[m] = freeOf[m] /\ allocatedOf'[m] = allocatedOf[m]
    <3>1. CASE AddPoolNode(n)
      BY <1>0, <3>1 DEF AddPoolNode, PoolTypes
    <3>2. CASE RemoveNode(n)
      BY <1>0, <3>2 DEF RemoveNode, PoolTypes
    <3>3. CASE UpdateNodeStatus(n)
      BY <1>0, <3>3 DEF UpdateNodeStatus, PoolTypes
    <3>4. ASSUME NEW amount \in 0..PoolCapacity, UpdateNodeResources(n, amount)
          PROVE  /\ poolNodes' \in SUBSET PoolNode /\ online' \in SUBSET poolNodes'
                 /\ freeOf' \in [PoolNode -> Nat] /\ allocatedOf' \in [PoolNode -> Nat]
                 /\ poolBlocked' \in {TRUE, poolBlocked} /\ (poolBlocked' = TRUE \/ renewed' = renewed)
                 /\ \A m \in poolNodes' \ renewed' :
                      /\ m \in poolNodes \ renewed
                      /\ freeOf'[m] = freeOf[m] /\ allocatedOf'[m] = allocatedOf[m]
      BY <1>0, <3>4 DEF UpdateNodeResources, PoolTypes
    <3> QED BY <2>2, <3>1, <3>2, <3>3, <3>4
  <2> QED BY <2>1, <2>2
<1>3. PoolTypes'
  BY <1>0, <1>1, <1>2 DEF PoolTypes
<1>4. BeforeBlocked'
  <2>1. \A c \in PoolCall : CallHasRequest(c)'
    BY <1>0, <1>1 DEF BeforeBlocked, CallHasRequest
  <2>2. Held' = Held
    BY <1>1 DEF Held
  <2> QED BY <1>0, <1>1, <1>2, <2>1, <2>2 DEF BeforeBlocked
<1>5. QueuedStays'
  BY <1>0, <1>1 DEF QueuedStays
<1>6. LedgerBalances'
  <2>1. \A m : ReservedOn(m)' = ReservedOn(m)
    BY <1>1 DEF ReservedOn, At
  <2> QED BY <1>0, <1>2, <2>1 DEF LedgerBalances
<1> QED BY <1>3, <1>4, <1>5, <1>6 DEF PoolInv

\* When one request is reserved, moved or freed and its nodes count what it demands,
\* the ledger balances.
LEMMA LedgerStep ==
  ASSUME PoolInv, UNCHANGED <<poolNodes, renewed>>, NEW r \in PoolReq,
         \A m \in poolNodes :
           /\ \A q \in PoolReq \ {r} : q \in At(m)' <=> q \in At(m)
           /\ allocatedOf'[m] = allocatedOf[m] - (IF r \in At(m) THEN Demand[r] ELSE 0)
                                               + (IF r \in At(m)' THEN Demand[r] ELSE 0)
           /\ freeOf'[m] = freeOf[m] + (IF r \in At(m) THEN Demand[r] ELSE 0)
                                     - (IF r \in At(m)' THEN Demand[r] ELSE 0)
  PROVE  LedgerBalances'
<1> SUFFICES ASSUME NEW m \in poolNodes \ renewed
             PROVE  /\ allocatedOf'[m] = SumFunction(ReservedOn(m))'
                    /\ freeOf'[m] + allocatedOf'[m] = PoolCapacity
  BY DEF LedgerBalances
<1>1. /\ allocatedOf[m] = SumFunction(ReservedOn(m)) /\ freeOf[m] + allocatedOf[m] = PoolCapacity
      /\ allocatedOf[m] \in Nat /\ freeOf[m] \in Nat
  BY DEF PoolInv, LedgerBalances, PoolTypes
<1>2. SumFunction(ReservedOn(m))' = SumFunction(ReservedOn(m))
        - (IF r \in At(m) THEN Demand[r] ELSE 0) + (IF r \in At(m)' THEN Demand[r] ELSE 0)
  BY ReservedChange
<1>3. PICK x \in Nat : x = IF r \in At(m) THEN Demand[r] ELSE 0
  BY PoolAssumption
<1>4. PICK y \in Nat : y = IF r \in At(m)' THEN Demand[r] ELSE 0
  BY PoolAssumption
<1>5. SumFunction(ReservedOn(m))' = SumFunction(ReservedOn(m)) - x + y
  BY <1>2, <1>3, <1>4
<1>6. allocatedOf'[m] = allocatedOf[m] - x + y /\ freeOf'[m] = freeOf[m] + x - y
  BY <1>3, <1>4
<1> QED BY <1>1, <1>5, <1>6

\* A request that is put beside the reservations.
LEMMA ReservesMore ==
  ASSUME PoolTypes, NEW r \in PoolReq, NEW v, reserves' = With(r, v)
  PROVE  /\ DOMAIN reserves' = DOMAIN reserves \cup {r} /\ reserves'[r] = v
         /\ \A q \in DOMAIN reserves \ {r} : reserves'[q] = reserves[q]
BY DEF With

\* What the user fills in before the pool serves.
LEMMA PrefillKeeps ==
  ASSUME PoolInv, NEW r \in PoolReq, NEW n \in PoolNode, Prefill(r, n)
  PROVE  PoolInv'
<1>0. PoolTypes /\ BeforeBlocked /\ LedgerBalances /\ QueuedStays
      /\ Demand \in [PoolReq -> Nat \ {0}] /\ "none" \notin PoolNode
  BY PoolAssumption DEF PoolInv
<1>1. /\ answered[r] = "no" /\ (\A c \in PoolCall : poolPc[c] = "idle") /\ n \in poolNodes
      /\ freeOf[n] >= Demand[r] /\ ~poolBlocked /\ \A q \in PoolReq : answered[q] \in {"no", "given"}
      /\ reserves' = With(r, n)
      /\ freeOf' = [freeOf EXCEPT ![n] = @ - Demand[r]]
      /\ allocatedOf' = [allocatedOf EXCEPT ![n] = @ + Demand[r]]
      /\ answered' = [answered EXCEPT ![r] = "given"]
      /\ UNCHANGED <<poolNodes, online, bookedAt, renewed, pendingQueue, poolBlocked>>
      /\ UNCHANGED <<poolPc, poolReq, poolPick, batch, left, allocPick, allocPc>>
  BY DEF Prefill, poolAllocator
<1>2. r \notin DOMAIN reserves
  BY <1>0, <1>1 DEF BeforeBlocked
<1>3. /\ DOMAIN reserves' = DOMAIN reserves \cup {r} /\ reserves'[r] = n
      /\ \A q \in DOMAIN reserves : reserves'[q] = reserves[q]
  <2>1. /\ DOMAIN reserves' = DOMAIN reserves \cup {r} /\ reserves'[r] = n
        /\ \A q \in DOMAIN reserves \ {r} : reserves'[q] = reserves[q]
    BY <1>0, <1>1, ReservesMore
  <2> QED BY <1>2, <2>1
<1>4. PICK d \in Nat : d = Demand[r]
  BY <1>0
<1>5. freeOf[n] \in Nat /\ allocatedOf[n] \in Nat /\ freeOf[n] - d \in Nat /\ allocatedOf[n] + d \in Nat
  BY <1>0, <1>1, <1>4 DEF PoolTypes
<1>6. freeOf' = [freeOf EXCEPT ![n] = freeOf[n] - d] /\ allocatedOf' = [allocatedOf EXCEPT ![n] = allocatedOf[n] + d]
  BY <1>1, <1>4
<1>7. PoolTypes'
  <2>1. freeOf' \in [PoolNode -> Nat] /\ allocatedOf' \in [PoolNode -> Nat]
    BY <1>0, <1>5, <1>6 DEF PoolTypes
  <2> QED BY <1>0, <1>1, <1>3, <2>1 DEF PoolTypes
<1>8. BeforeBlocked'
  <2>1. Held' = Held /\ Held \subseteq PoolReq
    BY <1>0, <1>1, RangeOf DEF Held, PoolTypes
  <2>2. Held = {}
    BY <1>0, <1>1, <2>1 DEF BeforeBlocked
  <2>3. \A q \in DOMAIN reserves' : reserves'[q] \in PoolNode /\ answered'[q] = "given"
    BY <1>0, <1>1, <1>3 DEF BeforeBlocked, PoolTypes
  <2> QED BY <1>0, <1>1, <2>1, <2>2, <2>3 DEF BeforeBlocked, CallHasRequest
<1>9. QueuedStays'
  <2>1. \A q \in PoolReq : answered'[q] # "queued"
    BY <1>0, <1>1 DEF PoolTypes
  <2> QED BY <2>1 DEF QueuedStays
<1>10. LedgerBalances'
  <2>1. ASSUME NEW m \in poolNodes
        PROVE  /\ \A q \in PoolReq \ {r} : q \in At(m)' <=> q \in At(m)
               /\ allocatedOf'[m] = allocatedOf[m] - (IF r \in At(m) THEN Demand[r] ELSE 0)
                                                   + (IF r \in At(m)' THEN Demand[r] ELSE 0)
               /\ freeOf'[m] = freeOf[m] + (IF r \in At(m) THEN Demand[r] ELSE 0)
                                         - (IF r \in At(m)' THEN Demand[r] ELSE 0)
    <3>1. m \in PoolNode /\ freeOf[m] \in Nat /\ allocatedOf[m] \in Nat
      BY <1>0 DEF PoolTypes
    <3>2. r \notin At(m) /\ \A q \in PoolReq \ {r} : q \in At(m)' <=> q \in At(m)
      BY <1>1, <1>2, <1>3 DEF At
    <3>3. r \in At(m)' <=> m = n
      BY <1>0, <1>1, <1>3, <3>1 DEF At, BeforeBlocked
    <3>4. CASE m = n
      <4>1. freeOf'[m] = freeOf[m] - d /\ allocatedOf'[m] = allocatedOf[m] + d
        BY <1>0, <1>6, <3>1, <3>4 DEF PoolTypes
      <4> QED BY <1>4, <3>1, <3>2, <3>3, <3>4, <4>1
    <3>5. CASE m # n
      <4>1. freeOf'[m] = freeOf[m] /\ allocatedOf'[m] = allocatedOf[m]
        BY <1>0, <1>6, <3>1, <3>5 DEF PoolTypes
      <4> QED BY <3>1, <3>2, <3>3, <3>5, <4>1
    <3> QED BY <3>4, <3>5
  <2> QED BY <1>1, <2>1, LedgerStep
<1> QED BY <1>7, <1>8, <1>9, <1>10 DEF PoolInv

\* Allocate books what its policy has chosen, and names no node.
LEMMA BookKeeps ==
  ASSUME PoolInv, NEW c \in PoolCall, Book(c)
  PROVE  PoolInv'
<1>0. PoolTypes /\ BeforeBlocked /\ LedgerBalances /\ QueuedStays
      /\ Demand \in [PoolReq -> Nat \ {0}] /\ "none" \notin PoolNode
  BY PoolAssumption DEF PoolInv
<1>1. /\ ~poolBlocked /\ poolPc[c] = "book" /\ poolBlocked' = TRUE
      /\ poolPc' = [poolPc EXCEPT ![c] = "stuck"]
      /\ UNCHANGED <<poolNodes, online, renewed, pendingQueue, poolReq, poolPick, answered, batch, left, allocPick, allocPc>>
  BY DEF Book, PoolGoto, poolAllocator
<1>2. PICK r \in PoolReq, n \in PoolNode : r = poolReq[c] /\ n = poolPick[c] /\ n \in poolNodes
  BY <1>0, <1>1 DEF Book, BeforeBlocked, CallHasRequest
<1>3. answered[r] = "no" /\ r \notin DOMAIN reserves
  BY <1>0, <1>1, <1>2 DEF BeforeBlocked, CallHasRequest
<1>4. BeforeBlocked'
  BY <1>1 DEF BeforeBlocked
<1>5. CASE UNCHANGED <<freeOf, allocatedOf, reserves, bookedAt>>
  <2>1. PoolTypes'
    BY <1>0, <1>1, <1>5 DEF PoolTypes, PoolPlace
  <2>2. QueuedStays'
    BY <1>0, <1>1, <1>5 DEF QueuedStays
  <2>3. LedgerBalances'
    BY <1>0, <1>1, <1>5, LedgerStays
  <2> QED BY <1>4, <2>1, <2>2, <2>3 DEF PoolInv
<1>6. CASE ~(UNCHANGED <<freeOf, allocatedOf, reserves, bookedAt>>)
  <2>1. /\ ~(freeOf[n] < Demand[r]) /\ freeOf' = [freeOf EXCEPT ![n] = @ - Demand[r]]
        /\ allocatedOf' = [allocatedOf EXCEPT ![n] = @ + Demand[r]]
        /\ reserves' = With(r, "none") /\ bookedAt' = [bookedAt EXCEPT ![r] = n]
    BY <1>2, <1>6 DEF Book, Charge
  <2>2. /\ DOMAIN reserves' = DOMAIN reserves \cup {r} /\ reserves'[r] = "none"
        /\ \A q \in DOMAIN reserves : reserves'[q] = reserves[q]
    BY <1>0, <1>3, <2>1, ReservesMore
  <2>3. PICK d \in Nat : d = Demand[r]
    BY <1>0
  <2>4. freeOf[n] \in Nat /\ allocatedOf[n] \in Nat /\ freeOf[n] - d \in Nat /\ allocatedOf[n] + d \in Nat
    BY <1>0, <2>1, <2>3 DEF PoolTypes
  <2>5. freeOf' = [freeOf EXCEPT ![n] = freeOf[n] - d] /\ allocatedOf' = [allocatedOf EXCEPT ![n] = allocatedOf[n] + d]
    BY <2>1, <2>3
  <2>6. bookedAt'[r] = n /\ \A q \in PoolReq \ {r} : bookedAt'[q] = bookedAt[q]
    BY <1>0, <2>1 DEF PoolTypes
  <2>7. PoolTypes'
    <3>1. freeOf' \in [PoolNode -> Nat] /\ allocatedOf' \in [PoolNode -> Nat] /\ bookedAt' \in [PoolReq -> PoolNode \cup {"none"}]
      BY <1>0, <2>1, <2>4, <2>5 DEF PoolTypes
    <3>2. poolPc' \in [PoolCall -> PoolPlace]
      BY <1>0, <1>1 DEF PoolTypes, PoolPlace
    <3> QED BY <1>0, <1>1, <2>2, <3>1, <3>2 DEF PoolTypes
  <2>8. QueuedStays'
    BY <1>0, <1>1, <2>2 DEF QueuedStays
  <2>9. LedgerBalances'
    <3>1. ASSUME NEW m \in poolNodes
          PROVE  /\ \A q \in PoolReq \ {r} : q \in At(m)' <=> q \in At(m)
                 /\ allocatedOf'[m] = allocatedOf[m] - (IF r \in At(m) THEN Demand[r] ELSE 0)
                                                     + (IF r \in At(m)' THEN Demand[r] ELSE 0)
                 /\ freeOf'[m] = freeOf[m] + (IF r \in At(m) THEN Demand[r] ELSE 0)
                                           - (IF r \in At(m)' THEN Demand[r] ELSE 0)
      <4>1. m \in PoolNode /\ freeOf[m] \in Nat /\ allocatedOf[m] \in Nat
        BY <1>0 DEF PoolTypes
      <4>2. r \notin At(m) /\ \A q \in PoolReq \ {r} : q \in At(m)' <=> q \in At(m)
        BY <1>0, <1>3, <2>2, <2>6 DEF At, PoolTypes
      <4>3. r \in At(m)' <=> m = n
        BY <1>0, <2>2, <2>6, <4>1 DEF At
      <4>4. CASE m = n
        <5>1. freeOf'[m] = freeOf[m] - d /\ allocatedOf'[m] = allocatedOf[m] + d
          BY <1>0, <2>5, <4>1, <4>4 DEF PoolTypes
        <5> QED BY <2>3, <4>1, <4>2, <4>3, <4>4, <5>1
      <4>5. CASE m # n
        <5>1. freeOf'[m] = freeOf[m] /\ allocatedOf'[m] = allocatedOf[m]
          BY <1>0, <2>5, <4>1, <4>5 DEF PoolTypes
        <5> QED BY <4>1, <4>2, <4>3, <4>5, <5>1
      <4> QED BY <4>4, <4>5
    <3> QED BY <1>1, <3>1, LedgerStep
  <2> QED BY <1>4, <2>7, <2>8, <2>9 DEF PoolInv
<1> QED BY <1>5, <1>6

\* What the allocator books names its node.
LEMMA BookPendingKeeps ==
  ASSUME PoolInv, BookPending
  PROVE  PoolInv'
<1>0. PoolTypes /\ BeforeBlocked /\ LedgerBalances /\ QueuedStays /\ ~poolBlocked /\ allocPc = "book"
      /\ Demand \in [PoolReq -> Nat \ {0}] /\ "none" \notin PoolNode
  BY PoolAssumption DEF PoolInv, BookPending
<1>1. PICK r \in PoolReq, n \in PoolNode :
        /\ r = Head(batch) /\ n = allocPick /\ batch # <<>>
        /\ Range(batch) = {r} \cup Range(Tail(batch)) /\ Tail(batch) \in Seq(PoolReq)
  <2>1. batch # <<>> /\ allocPick \in PoolNode /\ batch \in Seq(PoolReq)
    BY <1>0 DEF BeforeBlocked, PoolTypes
  <2>2. Range(batch) = {Head(batch)} \cup Range(Tail(batch)) /\ Head(batch) \in PoolReq /\ Tail(batch) \in Seq(PoolReq)
    BY <2>1, RangeOf
  <2> QED BY <2>1, <2>2
<1>2. /\ allocPc' = "each" /\ batch' = Tail(batch)
      /\ UNCHANGED <<poolNodes, online, bookedAt, renewed, pendingQueue, poolPc, poolReq, poolPick, answered>>
  BY DEF BookPending, poolCalls
<1>3. answered[r] = "queued" /\ r \notin DOMAIN reserves
  <2>1. r \in Held
    BY <1>1 DEF Held
  <2> QED BY <1>0, <2>1 DEF BeforeBlocked
<1>4. CASE ~(n \in poolNodes /\ freeOf[n] >= Demand[r])
  <2>1. left' = Append(left, r) /\ UNCHANGED <<freeOf, allocatedOf, reserves, poolBlocked>>
    BY <1>1, <1>4 DEF BookPending
  <2>2. left' \in Seq(PoolReq) /\ Range(left') = Range(left) \cup {r}
    <3>1. left \in Seq(PoolReq)
      BY <1>0 DEF PoolTypes
    <3>2. Range(Append(left, r)) = Range(left) \cup {r}
      BY <3>1, RangeOf
    <3> QED BY <2>1, <3>1, <3>2
  <2>3. Held' = Held
    BY <1>1, <1>2, <2>2 DEF Held
  <2>4. PoolTypes'
    BY <1>0, <1>1, <1>2, <2>1, <2>2 DEF PoolTypes
  <2>5. BeforeBlocked'
    <3>1. \A c \in PoolCall : CallHasRequest(c)'
      BY <1>0, <1>2 DEF BeforeBlocked, CallHasRequest
    <3> QED BY <1>0, <1>2, <2>1, <2>3, <3>1 DEF BeforeBlocked
  <2>6. QueuedStays'
    BY <1>0, <1>2, <2>1, <2>3 DEF QueuedStays, Held
  <2>7. LedgerBalances'
    BY <1>0, <1>2, <2>1, LedgerStays
  <2> QED BY <2>4, <2>5, <2>6, <2>7 DEF PoolInv
<1>5. CASE n \in poolNodes /\ freeOf[n] >= Demand[r]
  <2>1. /\ freeOf' = [freeOf EXCEPT ![n] = @ - Demand[r]] /\ allocatedOf' = [allocatedOf EXCEPT ![n] = @ + Demand[r]]
        /\ reserves' = With(r, n) /\ poolBlocked' = TRUE /\ left' = left
    BY <1>1, <1>5 DEF BookPending, Charge
  <2>2. /\ DOMAIN reserves' = DOMAIN reserves \cup {r} /\ reserves'[r] = n
        /\ \A q \in DOMAIN reserves : reserves'[q] = reserves[q]
    BY <1>0, <1>3, <2>1, ReservesMore
  <2>3. PICK d \in Nat : d = Demand[r]
    BY <1>0
  <2>4. freeOf[n] \in Nat /\ allocatedOf[n] \in Nat /\ freeOf[n] - d \in Nat /\ allocatedOf[n] + d \in Nat
    BY <1>0, <1>5, <2>3 DEF PoolTypes
  <2>5. freeOf' = [freeOf EXCEPT ![n] = freeOf[n] - d] /\ allocatedOf' = [allocatedOf EXCEPT ![n] = allocatedOf[n] + d]
    BY <2>1, <2>3
  <2>6. PoolTypes'
    <3>1. freeOf' \in [PoolNode -> Nat] /\ allocatedOf' \in [PoolNode -> Nat]
      BY <1>0, <2>4, <2>5 DEF PoolTypes
    <3>2. DOMAIN reserves' \subseteq PoolReq /\ \A q \in DOMAIN reserves' : reserves'[q] \in PoolNode \cup {"none"}
      BY <1>0, <2>2 DEF PoolTypes
    <3> QED BY <1>0, <1>1, <1>2, <2>1, <3>1, <3>2 DEF PoolTypes
  <2>7. BeforeBlocked'
    BY <2>1 DEF BeforeBlocked
  <2>8. QueuedStays'
    <3>1. Range(batch) \subseteq Range(batch') \cup {r}
      BY <1>1, <1>2
    <3> QED BY <1>0, <1>2, <2>1, <2>2, <3>1 DEF QueuedStays
  <2>9. LedgerBalances'
    <3>1. ASSUME NEW m \in poolNodes
          PROVE  /\ \A q \in PoolReq \ {r} : q \in At(m)' <=> q \in At(m)
                 /\ allocatedOf'[m] = allocatedOf[m] - (IF r \in At(m) THEN Demand[r] ELSE 0)
                                                     + (IF r \in At(m)' THEN Demand[r] ELSE 0)
                 /\ freeOf'[m] = freeOf[m] + (IF r \in At(m) THEN Demand[r] ELSE 0)
                                           - (IF r \in At(m)' THEN Demand[r] ELSE 0)
      <4>1. m \in PoolNode /\ freeOf[m] \in Nat /\ allocatedOf[m] \in Nat
        BY <1>0 DEF PoolTypes
      <4>2. r \notin At(m) /\ \A q \in PoolReq \ {r} : q \in At(m)' <=> q \in At(m)
        BY <1>2, <1>3, <2>2 DEF At
      <4>3. r \in At(m)' <=> m = n
        BY <1>0, <1>2, <2>2, <4>1 DEF At, BeforeBlocked
      <4>4. CASE m = n
        <5>1. freeOf'[m] = freeOf[m] - d /\ allocatedOf'[m] = allocatedOf[m] + d
          BY <1>0, <2>5, <4>1, <4>4 DEF PoolTypes
        <5> QED BY <2>3, <4>1, <4>2, <4>3, <4>4, <5>1
      <4>5. CASE m # n
        <5>1. freeOf'[m] = freeOf[m] /\ allocatedOf'[m] = allocatedOf[m]
          BY <1>0, <2>5, <4>1, <4>5 DEF PoolTypes
        <5> QED BY <4>1, <4>2, <4>3, <4>5, <5>1
      <4> QED BY <4>4, <4>5
    <3> QED BY <1>2, <3>1, LedgerStep
  <2> QED BY <2>6, <2>7, <2>8, <2>9 DEF PoolInv
<1> QED BY <1>4, <1>5

\* A node of the pool counts at least what one of its reservations demands.
LEMMA CountedAtLeast ==
  ASSUME PoolInv, ~poolBlocked, NEW r \in DOMAIN reserves, reserves[r] \in poolNodes
  PROVE  allocatedOf[reserves[r]] >= Demand[r] /\ r \in PoolReq /\ reserves[r] \in PoolNode
<1>1. r \in PoolReq /\ reserves[r] \in PoolNode /\ reserves[r] \notin renewed
  BY DEF PoolInv, PoolTypes, BeforeBlocked
<1>2. r \in At(reserves[r])
  BY DEF At
<1>3. allocatedOf[reserves[r]] = SumFunction(ReservedOn(reserves[r]))
  BY <1>1 DEF PoolInv, LedgerBalances
<1>4. SumFunction(ReservedOn(reserves[r])) >= Demand[r]
  <2>1. PICK n : n = reserves[r]
    OBVIOUS
  <2>2. PICK f : f = ReservedOn(n)
    OBVIOUS
  <2>3. f \in [PoolReq -> Nat] /\ f[r] = Demand[r] /\ IsFiniteSet(PoolReq)
    BY <1>1, <1>2, <2>1, <2>2, PoolAssumption DEF ReservedOn
  <2>4. SumFunction(f) >= f[r]
    BY <1>1, <2>3, SumMember
  <2> QED BY <2>1, <2>2, <2>3, <2>4
<1> QED BY <1>1, <1>3, <1>4

\* What is freed goes back to the node it was reserved on, if that is in the pool.
LEMMA FreeKeeps ==
  ASSUME PoolInv, NEW r \in PoolReq, Free(r)
  PROVE  PoolInv'
<1>0. PoolTypes /\ BeforeBlocked /\ LedgerBalances /\ QueuedStays /\ ~poolBlocked /\ r \in DOMAIN reserves
      /\ Demand \in [PoolReq -> Nat \ {0}] /\ "none" \notin PoolNode
  BY PoolAssumption DEF PoolInv, Free
<1>1. PICK n \in PoolNode : n = reserves[r]
  BY <1>0 DEF BeforeBlocked
<1>2. PICK back \in Nat : back = IF n \in poolNodes THEN Demand[r] ELSE 0
  BY <1>0
<1>3. /\ freeOf' = [freeOf EXCEPT ![n] = @ + back]
      /\ allocatedOf' = [allocatedOf EXCEPT ![n] = IF @ > back THEN @ - back ELSE 0]
      /\ reserves' = [q \in DOMAIN reserves \ {r} |-> reserves[q]] /\ poolBlocked' = TRUE
      /\ UNCHANGED <<poolNodes, online, bookedAt, renewed, pendingQueue>>
      /\ UNCHANGED <<poolPc, poolReq, poolPick, answered, batch, left, allocPick, allocPc>>
  BY <1>1, <1>2 DEF Free, Returned, Without, poolCalls, poolAllocator
<1>4. freeOf[n] \in Nat /\ allocatedOf[n] \in Nat
  BY <1>0 DEF PoolTypes
<1>5. allocatedOf[n] >= back
  <2>1. CASE n \in poolNodes
    BY <1>0, <1>1, <1>2, <2>1, CountedAtLeast
  <2>2. CASE n \notin poolNodes
    BY <1>2, <1>4, <2>2
  <2> QED BY <2>1, <2>2
<1>6. /\ freeOf' = [freeOf EXCEPT ![n] = freeOf[n] + back] /\ freeOf[n] + back \in Nat
      /\ allocatedOf' = [allocatedOf EXCEPT ![n] = allocatedOf[n] - back] /\ allocatedOf[n] - back \in Nat
  <2>1. (IF allocatedOf[n] > back THEN allocatedOf[n] - back ELSE 0) = allocatedOf[n] - back
    BY <1>2, <1>4, <1>5
  <2>2. freeOf[n] + back \in Nat /\ allocatedOf[n] - back \in Nat
    BY <1>2, <1>4, <1>5
  <2>3. allocatedOf' = [allocatedOf EXCEPT ![n] = IF allocatedOf[n] > back THEN allocatedOf[n] - back ELSE 0]
    BY <1>3
  <2>4. freeOf' = [freeOf EXCEPT ![n] = freeOf[n] + back]
    BY <1>3
  <2> QED BY <2>1, <2>2, <2>3, <2>4
<1>7. PoolTypes'
  <2>1. freeOf' \in [PoolNode -> Nat] /\ allocatedOf' \in [PoolNode -> Nat]
    BY <1>0, <1>6 DEF PoolTypes
  <2> QED BY <1>0, <1>3, <2>1 DEF PoolTypes
<1>8. BeforeBlocked'
  BY <1>3 DEF BeforeBlocked
<1>9. QueuedStays'
  <2>1. answered[r] = "given"
    BY <1>0 DEF BeforeBlocked
  <2> QED BY <1>0, <1>3, <2>1 DEF QueuedStays
<1>10. LedgerBalances'
  <2>1. ASSUME NEW m \in poolNodes
        PROVE  /\ \A q \in PoolReq \ {r} : q \in At(m)' <=> q \in At(m)
               /\ allocatedOf'[m] = allocatedOf[m] - (IF r \in At(m) THEN Demand[r] ELSE 0)
                                                   + (IF r \in At(m)' THEN Demand[r] ELSE 0)
               /\ freeOf'[m] = freeOf[m] + (IF r \in At(m) THEN Demand[r] ELSE 0)
                                         - (IF r \in At(m)' THEN Demand[r] ELSE 0)
    <3>1. m \in PoolNode /\ freeOf[m] \in Nat /\ allocatedOf[m] \in Nat
      BY <1>0 DEF PoolTypes
    <3>2. r \notin At(m)' /\ \A q \in PoolReq \ {r} : q \in At(m)' <=> q \in At(m)
      BY <1>3 DEF At
    <3>3. r \in At(m) <=> m = n
      BY <1>0, <1>1, <3>1 DEF At, BeforeBlocked
    <3>4. CASE m = n
      <4>1. freeOf'[m] = freeOf[m] + back /\ allocatedOf'[m] = allocatedOf[m] - back /\ back = Demand[r]
        BY <1>0, <1>2, <1>6, <2>1, <3>1, <3>4 DEF PoolTypes
      <4> QED BY <1>2, <3>1, <3>2, <3>3, <3>4, <4>1
    <3>5. CASE m # n
      <4>1. freeOf'[m] = freeOf[m] /\ allocatedOf'[m] = allocatedOf[m]
        BY <1>0, <1>6, <3>1, <3>5 DEF PoolTypes
      <4> QED BY <3>1, <3>2, <3>3, <3>5, <4>1
    <3> QED BY <3>4, <3>5
  <2> QED BY <1>3, <2>1, LedgerStep
<1> QED BY <1>7, <1>8, <1>9, <1>10 DEF PoolInv

\* What is moved goes back to its node, if that is in the pool, and is charged to the
\* other one, which has room for it.
LEMMA MoveKeeps ==
  ASSUME PoolInv, ~poolBlocked, NEW r \in DOMAIN reserves, NEW n \in poolNodes,
         n # reserves[r], freeOf[n] >= Demand[r], Move(r, n)
  PROVE  PoolInv'
<1>0. PoolTypes /\ BeforeBlocked /\ LedgerBalances /\ QueuedStays /\ r \in PoolReq /\ n \in PoolNode
      /\ Demand \in [PoolReq -> Nat \ {0}] /\ "none" \notin PoolNode
  BY PoolAssumption DEF PoolInv, PoolTypes
<1>1. PICK src \in PoolNode : src = reserves[r]
  BY <1>0 DEF BeforeBlocked
<1>2. PICK back \in Nat : back = IF src \in poolNodes THEN Demand[r] ELSE 0
  BY <1>0
<1>3. PICK d \in Nat : d = Demand[r]
  BY <1>0
<1>4. /\ freeOf' = [m \in PoolNode |-> IF m = n THEN freeOf[m] - d ELSE IF m = src THEN freeOf[m] + back ELSE freeOf[m]]
      /\ allocatedOf' = [m \in PoolNode |-> IF m = n THEN allocatedOf[m] + d
                                            ELSE IF m # src THEN allocatedOf[m]
                                            ELSE IF allocatedOf[m] > back THEN allocatedOf[m] - back ELSE 0]
      /\ reserves' = [reserves EXCEPT ![r] = n] /\ poolBlocked' = TRUE
      /\ UNCHANGED <<poolNodes, online, bookedAt, renewed, pendingQueue>>
      /\ UNCHANGED <<poolPc, poolReq, poolPick, answered, batch, left, allocPick, allocPc>>
  BY <1>1, <1>2, <1>3 DEF Move, poolCalls, poolAllocator
<1>5. \A m \in PoolNode : freeOf[m] \in Nat /\ allocatedOf[m] \in Nat
  BY <1>0 DEF PoolTypes
<1>6. allocatedOf[src] >= back
  <2>1. CASE src \in poolNodes
    BY <1>0, <1>1, <1>2, <2>1, CountedAtLeast
  <2>2. CASE src \notin poolNodes
    BY <1>2, <1>5, <2>2
  <2> QED BY <2>1, <2>2
<1>7. /\ freeOf'[n] = freeOf[n] - d /\ allocatedOf'[n] = allocatedOf[n] + d
      /\ freeOf'[src] = freeOf[src] + back /\ allocatedOf'[src] = allocatedOf[src] - back
      /\ \A m \in PoolNode \ {n, src} : freeOf'[m] = freeOf[m] /\ allocatedOf'[m] = allocatedOf[m]
  <2>1. allocatedOf'[src] = IF allocatedOf[src] > back THEN allocatedOf[src] - back ELSE 0
    BY <1>0, <1>1, <1>4
  <2>2. allocatedOf'[src] = allocatedOf[src] - back
    BY <1>2, <1>5, <1>6, <2>1
  <2>3. /\ freeOf'[n] = freeOf[n] - d /\ allocatedOf'[n] = allocatedOf[n] + d
        /\ freeOf'[src] = freeOf[src] + back
        /\ \A m \in PoolNode \ {n, src} : freeOf'[m] = freeOf[m] /\ allocatedOf'[m] = allocatedOf[m]
    BY <1>0, <1>1, <1>4
  <2> QED BY <2>2, <2>3
<1>8. PoolTypes'
  <2>1. \A m \in PoolNode : freeOf'[m] \in Nat /\ allocatedOf'[m] \in Nat
    <3>1. freeOf[n] - d \in Nat /\ allocatedOf[n] + d \in Nat /\ freeOf[src] + back \in Nat /\ allocatedOf[src] - back \in Nat
      BY <1>0, <1>2, <1>3, <1>5, <1>6
    <3> QED BY <1>5, <1>7, <3>1
  <2>2. freeOf' \in [PoolNode -> Nat] /\ allocatedOf' \in [PoolNode -> Nat]
    BY <1>4, <2>1
  <2>3. DOMAIN reserves' = DOMAIN reserves /\ \A q \in DOMAIN reserves : reserves'[q] \in PoolNode \cup {"none"}
    BY <1>0, <1>4 DEF PoolTypes
  <2> QED BY <1>0, <1>4, <2>2, <2>3 DEF PoolTypes
<1>9. BeforeBlocked'
  BY <1>4 DEF BeforeBlocked
<1>10. QueuedStays'
  BY <1>0, <1>4 DEF QueuedStays
<1>11. LedgerBalances'
  <2>1. ASSUME NEW m \in poolNodes
        PROVE  /\ \A q \in PoolReq \ {r} : q \in At(m)' <=> q \in At(m)
               /\ allocatedOf'[m] = allocatedOf[m] - (IF r \in At(m) THEN Demand[r] ELSE 0)
                                                   + (IF r \in At(m)' THEN Demand[r] ELSE 0)
               /\ freeOf'[m] = freeOf[m] + (IF r \in At(m) THEN Demand[r] ELSE 0)
                                         - (IF r \in At(m)' THEN Demand[r] ELSE 0)
    <3>1. m \in PoolNode /\ freeOf[m] \in Nat /\ allocatedOf[m] \in Nat
      BY <1>0 DEF PoolTypes
    <3>2. \A q \in PoolReq \ {r} : q \in At(m)' <=> q \in At(m)
      BY <1>4 DEF At
    <3>3. r \in At(m) <=> m = src
      BY <1>0, <1>1, <3>1 DEF At, BeforeBlocked
    <3>4. r \in At(m)' <=> m = n
      BY <1>0, <1>4, <3>1 DEF At, BeforeBlocked
    <3>5. CASE m = n
      BY <1>1, <1>3, <1>7, <3>1, <3>2, <3>3, <3>4, <3>5
    <3>6. CASE m = src
      <4>1. back = Demand[r]
        BY <1>2, <2>1, <3>6
      <4> QED BY <1>1, <1>2, <1>7, <3>1, <3>2, <3>3, <3>4, <3>6, <4>1
    <3>7. CASE m \notin {n, src}
      BY <1>7, <3>1, <3>2, <3>3, <3>4, <3>7
    <3> QED BY <3>5, <3>6, <3>7
  <2> QED BY <1>0, <1>4, <2>1, LedgerStep
<1> QED BY <1>8, <1>9, <1>10, <1>11 DEF PoolInv

\* Every step of the pool keeps the invariant.
LEMMA PoolStep ==
  ASSUME PoolInv, [PoolNext]_rpVars
  PROVE  PoolInv'
<1>1. CASE UNCHANGED rpVars
  <2>1. /\ UNCHANGED <<poolNodes, online, freeOf, allocatedOf, reserves, bookedAt, renewed, pendingQueue, poolBlocked>>
        /\ UNCHANGED <<poolPc, poolReq, poolPick, answered, batch, left, allocPick, allocPc>>
    BY <1>1 DEF rpVars, poolLedger, poolCalls, poolAllocator
  <2>2. PoolTypes' /\ QueuedStays'
    BY <2>1 DEF PoolInv, PoolTypes, QueuedStays
  <2>3. BeforeBlocked'
    BY <2>1 DEF PoolInv, BeforeBlocked, CallHasRequest, Held
  <2>4. LedgerBalances'
    BY <2>1, LedgerStays DEF PoolInv
  <2> QED BY <2>2, <2>3, <2>4 DEF PoolInv
<1>2. ASSUME NEW c \in PoolCall,
             (\E r \in PoolReq : Allocate(c, r)) \/ DecideNode(c) \/ PolicyFailed(c) \/ NodeDisappeared(c) \/ Book(c)
      PROVE  PoolInv'
  BY <1>2, CallKeeps, BookKeeps
<1>3. ASSUME NEW r \in PoolReq, Free(r) \/ \E n \in PoolNode : Prefill(r, n) PROVE PoolInv'
  BY <1>3, FreeKeeps, PrefillKeeps
<1>4. CASE Rebalance \/ EnforceDeadlines
  <2>1. PICK r \in DOMAIN reserves, n \in poolNodes :
          ~poolBlocked /\ n # reserves[r] /\ Capable(n, r) /\ Move(r, n)
    <3>1. CASE Rebalance
      BY <3>1 DEF Rebalance, PoolCandidates
    <3>2. CASE EnforceDeadlines
      BY <3>2 DEF EnforceDeadlines
    <3> QED BY <1>4, <3>1, <3>2
  <2> QED BY <2>1, MoveKeeps DEF Capable
<1>5. CASE \/ InjectOrRemovePolicy \/ SetForecastHook
           \/ \E n \in PoolNode : \/ AddPoolNode(n) \/ RemoveNode(n) \/ UpdateNodeStatus(n)
                                 \/ \E amount \in 0..PoolCapacity : UpdateNodeResources(n, amount)
  BY <1>5, NodesKeep
<1>6. CASE TakePending \/ DecidePending \/ BookPending \/ PutBack
  BY <1>6, PendingKeeps, BookPendingKeeps
<1> QED BY <1>1, <1>2, <1>3, <1>4, <1>5, <1>6 DEF PoolNext

\* The invariant says what ReservationsHold asks of the pool.
LEMMA PoolHolds == PoolInv => PoolTypeOK /\ LedgerBalances /\ QueuedStays
<1> SUFFICES ASSUME PoolInv PROVE PoolTypeOK
  BY DEF PoolInv
<1>1. \A q \in {pendingQueue, batch, left} : Range(q) \subseteq PoolReq
  BY RangeOf DEF PoolInv, PoolTypes
<1> QED BY <1>1 DEF PoolInv, PoolTypes, PoolTypeOK

(***************************************************************************)
(* Beside the other components: MCAlgorithms                               *)
(***************************************************************************)
\* A step of MCAlgorithms is one of the pool and one of the account resources, or
\* leaves them.
LEMMA ReservingSteps ==
  [AlgorithmsNext]_algorithmsVars => [PoolNext]_rpVars /\ [SrmNext]_srmVars
<1>1. [AlgorithmsNext]_algorithmsVars => [PoolNext]_rpVars
  BY DEF AlgorithmsNext, algorithmsVars, OtherAlgorithms
<1>2. [AlgorithmsNext]_algorithmsVars => [SrmNext]_srmVars
  BY DEF AlgorithmsNext, algorithmsVars, OtherAlgorithms
<1> QED BY <1>1, <1>2

\* Allocate, Free, the policies, the allocator of pending requests, Rebalance and
\* EnforceDeadlines of the pool, beside nodes that come, go and report: what is
\* booked is what nodes have given, and a queued request is kept, for any number of
\* callers, nodes and requests.  ReserveResource, ReleaseResource and
\* MatchResources with their cache: no account over its quota, no match from a
\* reservation that had returned.
THEOREM ReservationsHoldAlways == AlgorithmsSpec => []ReservationsHold
<1>1. AlgorithmsInit => PoolInv /\ SrmInv
  BY PoolInitInv, SrmInitInv DEF AlgorithmsInit
<1>2. PoolInv /\ SrmInv /\ [AlgorithmsNext]_algorithmsVars => PoolInv' /\ SrmInv'
  BY ReservingSteps, PoolStep, SrmStepKeeps
<1>3. PoolInv /\ SrmInv => ReservationsHold
  BY PoolHolds, SrmHolds DEF ReservationsHold
<1> QED BY <1>1, <1>2, <1>3, PTL DEF AlgorithmsSpec

\* Nobody holds a lock but the refill that reads and the reservation that is to drop
\* the cache: every path unlocks, the one after a database error too.
LocksHeldInside ==
  /\ \A c \in SrmCall : cacheLock = c => srmPc[c] = "read"
  /\ \A c \in SrmCall : reservationLock = c => srmPc[c] = "drop"

\* Every step keeps it.
LEMMA SrmUnlocks == SrmInv /\ LocksHeldInside /\ [SrmNext]_srmVars => LocksHeldInside'
<1> SUFFICES ASSUME SrmInv, LocksHeldInside, [SrmNext]_srmVars PROVE LocksHeldInside'
  OBVIOUS
<1> USE SrmAssumption DEF SrmGoto
<1>1. /\ srmPc \in [SrmCall -> {"idle", "look", "fill", "read", "matched", "reserve", "release", "drop"}]
      /\ cacheLock \in SrmCall \cup {"none"} /\ reservationLock \in SrmCall \cup {"none"}
      /\ \A c \in SrmCall : /\ srmPc[c] = "read" => cacheLock = c
                            /\ srmPc[c] = "drop" => reservationLock = c
  BY DEF SrmInv, SrmTypes, SrmLocked
<1>2. CASE UNCHANGED srmVars \/ CacheExpires
  BY <1>2 DEF srmVars, srmLocks, CacheExpires, LocksHeldInside
<1>3. ASSUME NEW c \in SrmCall, NEW place, NEW a, NEW amount, SrmStart(c, place, a, amount)
      PROVE  LocksHeldInside'
  BY <1>1, <1>3 DEF SrmStart, srmLocks, LocksHeldInside
<1>4. CASE \E c \in SrmCall, amount \in Amount \ {NoAmount} :
             \/ MatchResources(c, amount)
             \/ \E a \in Account : ReserveResource(c, a, amount) \/ ReleaseResource(c, a, amount)
  BY <1>3, <1>4 DEF MatchResources, ReserveResource, ReleaseResource
<1>5. ASSUME NEW c \in SrmCall, LookInCache(c) \/ Matched(c) PROVE LocksHeldInside'
  BY <1>1, <1>5 DEF LookInCache, Matched, Answer, srmLocks, LocksHeldInside
<1>6. ASSUME NEW c \in SrmCall, BeginFill(c) PROVE LocksHeldInside'
  BY <1>1, <1>6 DEF BeginFill, LocksHeldInside
<1>7. ASSUME NEW c \in SrmCall, EndFill(c) \/ FillFails(c) PROVE LocksHeldInside'
  BY <1>1, <1>7 DEF EndFill, FillFails, UnlockAfterError, Answer, LocksHeldInside
<1>8. ASSUME NEW c \in SrmCall, NEW a \in Account, ReadAccount(c, a) PROVE LocksHeldInside'
  BY <1>8 DEF ReadAccount, srmLocks, LocksHeldInside
<1>9. ASSUME NEW c \in SrmCall, Reserve(c) \/ Release(c) PROVE LocksHeldInside'
  BY <1>1, <1>9 DEF Reserve, Release, LocksHeldInside
<1>10. ASSUME NEW c \in SrmCall, DropCache(c) PROVE LocksHeldInside'
  BY <1>1, <1>10 DEF DropCache, LocksHeldInside
<1> QED BY <1>2, <1>4, <1>5, <1>6, <1>7, <1>8, <1>9, <1>10 DEF SrmNext, SrmStep

\* Who holds a lock can go on, when the other lock is free; else anybody can.
LEMMA SrmGoesOn == SrmInv /\ LocksHeldInside => SomeCallGoesOn
<1> SUFFICES ASSUME SrmInv, LocksHeldInside, \A c \in SrmCall : srmPc[c] # "idle", ~LockedOut
             PROVE  \E c \in SrmCall : CanStep(c)
  BY DEF SomeCallGoesOn
<1>1. /\ srmPc \in [SrmCall -> {"idle", "look", "fill", "read", "matched", "reserve", "release", "drop"}]
      /\ cacheLock \in SrmCall \cup {"none"} /\ reservationLock \in SrmCall \cup {"none"}
      /\ \A c \in SrmCall : /\ srmPc[c] = "read" => cacheLock = c
                            /\ srmPc[c] = "drop" => reservationLock = c
  BY DEF SrmInv, SrmTypes, SrmLocked
<1>2. CASE cacheLock # "none"
  <2>1. cacheLock \in SrmCall /\ srmPc[cacheLock] = "read" /\ reservationLock = "none"
    BY <1>1, <1>2 DEF LocksHeldInside, LockedOut
  <2> QED BY <2>1 DEF CanStep
<1>3. CASE cacheLock = "none" /\ reservationLock # "none"
  <2>1. reservationLock \in SrmCall /\ srmPc[reservationLock] = "drop"
    BY <1>1, <1>3 DEF LocksHeldInside
  <2> QED BY <1>3, <2>1 DEF CanStep
<1>4. CASE cacheLock = "none" /\ reservationLock = "none"
  <2>1. PICK c \in SrmCall : TRUE
    BY SrmAssumption
  <2>2. c # "none"
    BY SrmAssumption
  <2> QED BY <1>1, <1>4, <2>1, <2>2 DEF CanStep
<1> QED BY <1>2, <1>3, <1>4

\* When every caller of the manager is in a call one can go on, unless a refill and a
\* reservation wait for each other's lock: no path, the one after a database error
\* least of all, returns with a lock taken.
THEOREM AccountCallsGoOnAlways == AlgorithmsSpec => []AccountCallsGoOn
<1>1. AlgorithmsInit => SrmInv /\ LocksHeldInside
  <2>1. SrmInit => LocksHeldInside
    BY SrmAssumption DEF SrmInit, LocksHeldInside
  <2> QED BY <2>1, SrmInitInv DEF AlgorithmsInit
<1>2. SrmInv /\ LocksHeldInside /\ [AlgorithmsNext]_algorithmsVars => SrmInv' /\ LocksHeldInside'
  BY ReservingSteps, SrmStepKeeps, SrmUnlocks
<1>3. SrmInv /\ LocksHeldInside => AccountCallsGoOn
  BY SrmGoesOn DEF AccountCallsGoOn
<1> QED BY <1>1, <1>2, <1>3, PTL DEF AlgorithmsSpec

(***************************************************************************)
(* Heuristics                                                              *)
(***************************************************************************)
Copies == [free : FreeOn, nodes : Orders(HrNode)]
Decision == [HrTask -> HrNode \cup {Undecided}]

HrTypes ==
  /\ hrAlgo \in Algorithm
  /\ hrIndex \in 0..Cardinality(HrNode)-1
  /\ hrExplain \in Decision
  /\ hrAt \in [HrCall -> {"idle", "decide", "read", "write", "told", "returned"}]
  /\ hrCopy \in [HrCall -> Copies \cup {NoCopy}]
  /\ hrTodo \in [HrCall -> Seq(HrTask)]
  /\ \A c \in HrCall : IsInjective(hrTodo[c]) /\ Len(hrTodo[c]) <= Cardinality(HrTask)
  /\ hrFrom \in [HrCall -> 0..Cardinality(HrNode)-1]
  /\ hrOut \in [HrCall -> Decision]
  /\ hrToldOf \in [HrCall -> Decision]
  /\ hrAlone \in [HrCall -> BOOLEAN]

\* What a call holds at its place: from its copy on the nodes, before its decisions
\* all tasks, and in a round some task.
HrPlaces ==
  \A c \in HrCall :
    /\ hrAt[c] # "idle" => hrCopy[c] \in Copies
    /\ hrAt[c] = "decide" =>
         hrTodo[c] \in Orders(HrTask) /\ (hrAlgo = "round-robin" => HrTask = {})
    /\ hrAt[c] \in {"read", "write"} => hrAlgo = "round-robin" /\ hrTodo[c] # <<>>

InRound(c) == hrAt[c] \in {"read", "write"}

\* Exactly the tasks that a round has left are undecided; a task that some node
\* admits gets one that does.
RoundDecided ==
  \A c \in HrCall : InRound(c) \/ (Done(c) /\ hrAlgo = "round-robin") =>
    \A t \in HrTask :
      IF InRound(c) /\ t \in ToSet(hrTodo[c]) THEN hrOut[c][t] = Undecided
      ELSE hrOut[c][t] \in HrNode /\ (Likes[t] # {} => hrOut[c][t] \in Likes[t])

LearnedWhereLiked ==
  \A c \in HrCall : Done(c) /\ hrAlgo = "learning" =>
    \A t \in HrTask : IF Likes[t] = {} THEN hrOut[c][t] = Undecided ELSE hrOut[c][t] \in Likes[t]

\* A call that has the object to itself has it while it works.
AloneInUse ==
  \A c \in HrCall : hrAlone[c] /\ ~Unused(c) => \A d \in HrCall \ {c} : Unused(d)

\* What such a call has decided so far is what the object explains, and the index
\* that it has read is still the object's.
OwnExplained ==
  \A c \in HrCall : hrAlone[c] /\ hrAt[c] \in {"read", "write", "told"} =>
    /\ \A t \in HrTask : hrOut[c][t] # Undecided => hrExplain[t] = hrOut[c][t]
    /\ hrAt[c] = "write" => hrFrom[c] = hrIndex

\* The places of a round from s up to i, and without i.
Passed(s, p, i) == IF s <= i THEN s <= p /\ p < i ELSE s <= p \/ p < i
\* Every node has q tasks, and those that the round has passed since s one more.
RoundFrom(out, nodes, s, q, i) ==
  \A p \in 0..Len(nodes)-1 :
    Cardinality(TasksOn(out, nodes[p + 1])) = IF Passed(s, p, i) THEN q + 1 ELSE q

\* The round of a call that has the object to itself has passed every node q times,
\* and some once more.
RoundGoesOn ==
  \A c \in HrCall :
    /\ hrAlone[c] /\ hrAlgo = "round-robin" /\ (InRound(c) \/ hrAt[c] = "told")
    /\ \A t \in HrTask : Likes[t] = HrNode
    => \E s \in 0..Cardinality(HrNode)-1, q \in Nat :
         RoundFrom(hrOut[c], hrCopy[c].nodes, s, q, hrIndex)

HrInv ==
  /\ HrTypes /\ HrPlaces /\ RoundDecided /\ LearnedWhereLiked /\ AloneInUse
  /\ OwnExplained /\ RoundGoesOn
  /\ DecidesAsAlone /\ RoundsAreEven /\ ExplainsItsDecision

\* A copy of the nodes, or the order of the tasks, has each of them once.
LEMMA OrderOf ==
  ASSUME NEW S, IsFiniteSet(S), NEW s \in Orders(S)
  PROVE  /\ s \in [1..Cardinality(S) -> S] /\ s \in Seq(S)
         /\ Cardinality(S) \in Nat /\ Len(s) = Cardinality(S) /\ DOMAIN s = 1..Len(s)
         /\ \A x \in S : \E i \in 1..Len(s) : s[i] = x
         /\ \A i, k \in 1..Len(s) : s[i] = s[k] => i = k
<1>1. Cardinality(S) \in Nat
  BY FS_CardinalityType
<1>2. PICK n \in Nat : n = Cardinality(S)
  BY <1>1
<1>3. s \in [1..n -> S] /\ Range(s) = S
  BY <1>2, Zenon DEF Orders
<1>4. s \in Seq(S) /\ Len(s) = n /\ DOMAIN s = 1..n
  BY <1>3
<1>5. \A x \in S : \E i \in 1..n : s[i] = x
  BY <1>3, <1>4, Zenon DEF Range
<1>6. IsFiniteSet(1..n) /\ Cardinality(1..n) = n
  <2>1. Cardinality(1..n) = IF 1 > n THEN 0 ELSE n - 1 + 1
    BY FS_Interval
  <2> QED BY <2>1, FS_Interval
<1>7. s \in Surjection(1..n, S)
  BY <1>3, <1>5, Zenon DEF Surjection
<1>8. s \in Injection(1..n, S)
  BY <1>2, <1>6, <1>7, FS_SurjSameCardinalityImpliesInj
<1>9. \A i, k \in 1..n : s[i] = s[k] => i = k
  BY <1>4, <1>8, Zenon DEF Injection, IsInjective
<1> QED BY <1>1, <1>2, <1>3, <1>4, <1>5, <1>9

\* There is a node, so that every copy of the nodes has a first one.
LEMMA SomeNode == Cardinality(HrNode) \in Nat /\ Cardinality(HrNode) # 0 /\ Cardinality(HrTask) \in Nat
BY HeuristicsAssumption, FS_CardinalityType, FS_EmptySet

\* The least of a set of natural numbers that has some.
LEMMA MinIs ==
  ASSUME NEW T, T \subseteq Nat, T # {}
  PROVE  Min(T) \in T /\ \A y \in T : Min(T) <= y
<1>1. \E x \in T : \A y \in T : x <= y
  BY LeastNumber
<1> QED BY <1>1, Zenon DEF Min

\* Among finitely many places, of which some are admitted, a relation that is total
\* and transitive has a best one.
LEMMA BestPlace ==
  ASSUME NEW n \in Nat, NEW A, A \subseteq 1..n, A # {}, NEW R,
         \A i, k \in A : <<i, k>> \in R \/ <<k, i>> \in R,
         \A i, j, k \in A : <<i, j>> \in R /\ <<j, k>> \in R => <<i, k>> \in R
  PROVE  \E i \in A : \A k \in A : <<k, i>> \in R
<1> DEFINE Best(m) == \E i \in A : i <= m /\ \A k \in A : k <= m => <<k, i>> \in R
           Some(m) == \E i \in A : i <= m
           T == {m \in Nat : Some(m) /\ ~Best(m)}
<1>1. CASE T = {}
  <2>1. Some(n)
    <3>1. PICK i : i \in A
      OBVIOUS
    <3>2. i <= n
      BY <3>1
    <3> QED BY <3>1, <3>2
  <2>2. Best(n)
    BY <1>1, <2>1
  <2> QED BY <2>2
<1>2. CASE T # {}
  <2>1. PICK m \in T : \A y \in T : m <= y
    BY <1>2, LeastNumber
  <2>2. m \in Nat /\ Some(m) /\ ~Best(m) /\ m # 0
    BY <2>1
  <2>3. m - 1 \in Nat /\ m - 1 \notin T
    <3>1. m - 1 \in Nat /\ ~(m <= m - 1)
      BY <2>2
    <3> HIDE DEF T
    <3> QED BY <2>1, <3>1
  <2>4. CASE ~Some(m - 1)
    <3>1. ASSUME NEW i \in A, i <= m PROVE i = m
      <4>1. i \in Nat /\ ~(i <= m - 1)
        BY <2>4
      <4> QED BY <2>2, <3>1, <4>1
    <3>2. m \in A
      BY <2>2, <3>1
    <3>3. \A k \in A : k <= m => <<k, m>> \in R
      BY <3>1, <3>2
    <3> QED BY <2>2, <3>2, <3>3
  <2>5. CASE Best(m - 1)
    <3>1. PICK i \in A : i <= m - 1 /\ \A k \in A : k <= m - 1 => <<k, i>> \in R
      BY <2>5
    <3>2. \A k \in A : k <= m => k <= m - 1 \/ k = m
      BY <2>2
    <3>3. CASE m \notin A \/ <<m, i>> \in R
      <4>1. \A k \in A : k <= m => <<k, i>> \in R
        BY <3>1, <3>2, <3>3
      <4> QED BY <2>2, <3>1, <4>1
    <3>4. CASE m \in A /\ <<m, i>> \notin R
      <4>1. <<i, m>> \in R /\ <<m, m>> \in R
        BY <3>4
      <4>2. \A k \in A : k <= m => <<k, m>> \in R
        BY <3>1, <3>2, <3>4, <4>1
      <4> QED BY <2>2, <3>4, <4>2
    <3> QED BY <3>3, <3>4
  <2> QED BY <2>3, <2>4, <2>5
<1> QED BY <1>1, <1>2

-----------------------------------------------------------------------------
(* The nodes of one task.                                                  *)

\* The scores are numbers.
LEMMA ScoreIs ==
  ASSUME NEW a \in Algorithm \ {"round-robin", "cost-aware", "learning"}, NEW t \in HrTask,
         NEW n \in HrNode, NEW free \in FreeOn
  PROVE  Score(a, t, n, free) \in Int
<1>1. free[n] \in Nat /\ Watts[n] \in Nat
  BY HeuristicsAssumption
<1>2. EnergyScore(n, free) \in Int /\ FreeScore(n, free) \in Int /\ RegionScore(t, n, free) \in Int
  BY <1>1 DEF EnergyScore, FreeScore, RegionScore
<1>3. CASE a \in {"energy-aware", "learning-hot"}
  <2>1. Score(a, t, n, free) = EnergyScore(n, free)
    BY <1>3, Zenon DEF Score
  <2> QED BY <1>2, <2>1
<1>4. CASE a \in {"fair-share", "throughput"}
  <2>1. Score(a, t, n, free) = FreeScore(n, free)
    BY <1>4 DEF Score
  <2> QED BY <1>2, <2>1
<1>5. CASE a = "deadline-first"
  <2>1. Score(a, t, n, free) = RegionScore(t, n, free)
    BY <1>5 DEF Score
  <2> QED BY <1>2, <2>1
<1> QED BY <1>3, <1>4, <1>5 DEF Algorithm

\* The places of the nodes that fit a task.
LEMMA AdmissibleIs ==
  ASSUME NEW copy \in [free : FreeOn, nodes : Orders(HrNode)], NEW t \in HrTask
  PROVE  /\ Admissible(t, copy) \subseteq 1..Len(copy.nodes)
         /\ \A i \in Admissible(t, copy) :
              /\ copy.nodes[i] \in HrNode /\ copy.nodes[i] \in Likes[t]
              /\ copy.free[copy.nodes[i]] >= Needs[t]
         /\ \A n \in Likes[t] : copy.free[n] >= Needs[t] =>
              \E i \in Admissible(t, copy) : copy.nodes[i] = n
<1>1. copy.nodes \in Orders(HrNode) /\ copy.free \in FreeOn
  OBVIOUS
<1>2. PICK s : s = copy.nodes
  OBVIOUS
<1>3. /\ s \in [1..Cardinality(HrNode) -> HrNode] /\ Len(s) = Cardinality(HrNode) /\ DOMAIN s = 1..Len(s)
      /\ \A x \in HrNode : \E i \in 1..Len(s) : s[i] = x
  <2>1. IsFiniteSet(HrNode) /\ s \in Orders(HrNode)
    BY <1>1, <1>2, HeuristicsAssumption
  <2> QED BY <2>1, OrderOf, Zenon
<1>4. Admissible(t, copy) = {i \in 1..Len(s) : s[i] \in Likes[t] /\ copy.free[s[i]] >= Needs[t]}
  BY <1>2, <1>3 DEF Admissible, Matches, HasRoomFor
<1>5. Likes[t] \subseteq HrNode
  BY HeuristicsAssumption
<1> QED BY <1>2, <1>3, <1>4, <1>5

\* x / y is no more than u / v, and that no more than p / q.
LEMMA RatioTransitive ==
  ASSUME NEW x \in Nat, NEW y \in Nat \ {0}, NEW u \in Nat, NEW v \in Nat \ {0},
         NEW p \in Nat, NEW q \in Nat \ {0}, x * v <= u * y, u * q <= p * v
  PROVE  x * q <= p * y
<1>1. (x * v) * q <= (u * y) * q /\ (u * q) * y <= (p * v) * y
  OBVIOUS
<1>2. v * (x * q) <= v * (p * y)
  BY <1>1
<1>3. x * q \in Nat /\ p * y \in Nat
  OBVIOUS
<1> QED BY <1>2, <1>3

\* Among nodes that fit, every algorithm that scores them finds a best one.
LEMMA NodesForIs ==
  ASSUME NEW a \in Algorithm \ {"round-robin", "learning"}, NEW t \in HrTask,
         NEW copy \in [free : FreeOn, nodes : Orders(HrNode)]
  PROVE  /\ NodesFor(a, t, copy) \subseteq Fitting(t, copy.free)
         /\ Fitting(t, copy.free) # {} => NodesFor(a, t, copy) # {}
<1> DEFINE A == Admissible(t, copy)
           n == Len(copy.nodes)
<1>1. /\ A \subseteq 1..n
      /\ \A i \in A : /\ copy.nodes[i] \in HrNode /\ copy.nodes[i] \in Likes[t]
                      /\ copy.free[copy.nodes[i]] >= Needs[t]
      /\ \A m \in Likes[t] : copy.free[m] >= Needs[t] => \E i \in A : copy.nodes[i] = m
  BY AdmissibleIs
<1>2. n \in Nat
  BY OrderOf, HeuristicsAssumption
<1>3. NodesFor(a, t, copy) \subseteq {copy.nodes[i] : i \in A}
  BY DEF NodesFor, CheapestFree, FirstBest
<1>4. NodesFor(a, t, copy) \subseteq Fitting(t, copy.free)
  BY <1>1, <1>3 DEF Fitting
<1> HIDE DEF A, n
<1>5. ASSUME A # {} PROVE NodesFor(a, t, copy) # {}
  <2>1. CASE a = "cost-aware"
    <3> DEFINE f(i) == copy.free[copy.nodes[i]]
               h(i) == HourCost[copy.nodes[i]]
               R == {p \in A \X A : f(p[1]) * h(p[2]) <= f(p[2]) * h(p[1])}
    <3>1. \A i \in A : f(i) \in Nat /\ h(i) \in Nat \ {0}
      BY <1>1, HeuristicsAssumption
    <3> HIDE DEF f, h
    <3>2. \A i, k \in A : <<i, k>> \in R <=> f(i) * h(k) <= f(k) * h(i)
      OBVIOUS
    <3> HIDE DEF R
    <3>3. ASSUME NEW i \in A, NEW k \in A PROVE <<i, k>> \in R \/ <<k, i>> \in R
      <4>1. f(i) * h(k) \in Nat /\ f(k) * h(i) \in Nat
        BY <3>1
      <4> QED BY <3>2, <4>1
    <3>4. ASSUME NEW i \in A, NEW j \in A, NEW k \in A, <<i, j>> \in R, <<j, k>> \in R
          PROVE  <<i, k>> \in R
      <4>1. f(i) * h(j) <= f(j) * h(i) /\ f(j) * h(k) <= f(k) * h(j)
        BY <3>2, <3>4
      <4>2. f(i) * h(k) <= f(k) * h(i)
        BY <3>1, <4>1, RatioTransitive
      <4> QED BY <3>2, <4>2
    <3>5. PICK i \in A : \A k \in A : <<k, i>> \in R
      BY <1>1, <1>2, <1>5, <3>3, <3>4, BestPlace
    <3>6. \A k \in A : f(k) * h(i) <= f(i) * h(k)
      BY <3>2, <3>5
    <3>7. copy.nodes[i] \in CheapestFree(t, copy)
      BY <3>6 DEF CheapestFree, A, f, h
    <3> QED BY <2>1, <3>7 DEF NodesFor
  <2>2. CASE a # "cost-aware"
    <3> DEFINE s(i) == Score(a, t, copy.nodes[i], copy.free)
               R == {p \in A \X A : s(p[1]) < s(p[2]) \/ (s(p[1]) = s(p[2]) /\ p[2] <= p[1])}
    <3>1. \A i \in A : s(i) \in Int /\ i \in Int
      BY <1>1, <1>2, <2>2, ScoreIs
    <3> HIDE DEF s
    <3>2. \A i, k \in A : <<k, i>> \in R <=> s(k) < s(i) \/ (s(k) = s(i) /\ i <= k)
      OBVIOUS
    <3> HIDE DEF R
    <3>3. ASSUME NEW i \in A, NEW k \in A PROVE <<i, k>> \in R \/ <<k, i>> \in R
      <4>1. s(i) \in Int /\ s(k) \in Int /\ i \in Int /\ k \in Int
        BY <3>1
      <4> QED BY <3>2, <4>1
    <3>4. ASSUME NEW i \in A, NEW j \in A, NEW k \in A, <<i, j>> \in R, <<j, k>> \in R
          PROVE  <<i, k>> \in R
      BY <3>1, <3>2, <3>4
    <3>5. PICK i \in A : \A k \in A : <<k, i>> \in R
      BY <1>1, <1>2, <1>5, <3>3, <3>4, BestPlace
    <3>6. \A k \in A : s(k) < s(i) \/ (s(k) = s(i) /\ i <= k)
      BY <3>2, <3>5
    <3>7. copy.nodes[i] \in FirstBest(a, t, copy)
      BY <3>6, Zenon DEF FirstBest, A, s
    <3> QED BY <2>2, <3>7 DEF NodesFor
  <2> QED BY <2>1, <2>2
<1> QED BY <1>1, <1>4, <1>5 DEF Fitting

-----------------------------------------------------------------------------
(* The rounds.                                                             *)

\* A step of the round of LearningAlgo, for the k-th task.
Advanced(tasks, nodes, k, i) == IF Found(tasks[k], i, nodes) = {} THEN i ELSE (i + 1) % Len(nodes)
RoundUpTo(f, tasks, nodes, m) ==
  /\ f \in [0..m -> 0..Len(nodes)-1]
  /\ f[0] = 0 /\ \A k \in 1..m : f[k] = Advanced(tasks, nodes, k, f[k-1])

\* The remainder of an index is an index.
LEMMA ModIndex == \A i \in Nat, n \in Nat \ {0} : i % n \in 0..n-1
OBVIOUS

\* An index is its own remainder, and that of the index one round on.
LEMMA ModBelow ==
  ASSUME NEW n \in Nat \ {0}, NEW k \in 0..n-1
  PROVE  k % n = k /\ (k + n) % n = k
<1>1. k % n = k
  OBVIOUS
<1>2. (k + n) % n = k
  OBVIOUS
<1> QED BY <1>1, <1>2

\* The indices up to every task exist.
LEMMA RoundsUpTo ==
  ASSUME NEW tasks, NEW nodes, Len(nodes) \in Nat \ {0}, NEW m \in Nat
  PROVE  \E f : RoundUpTo(f, tasks, nodes, m)
<1> DEFINE Is(k) == \E f : RoundUpTo(f, tasks, nodes, k)
           T == {k \in Nat : ~Is(k)}
<1> SUFFICES ASSUME T # {} PROVE FALSE
  OBVIOUS
<1>1. PICK k \in T : \A j \in T : k <= j
  BY LeastNumber
<1>2. CASE k = 0
  <2>1. RoundUpTo([j \in 0..0 |-> 0], tasks, nodes, 0)
    BY DEF RoundUpTo
  <2> QED BY <1>1, <1>2, <2>1
<1>3. CASE k # 0
  <2>1. k \in Nat /\ k - 1 \in Nat /\ ~(k <= k - 1) /\ ~Is(k)
    BY <1>1, <1>3
  <2>2. Is(k - 1)
    <3> HIDE DEF Is
    <3> QED BY <1>1, <2>1
  <2>3. PICK f : RoundUpTo(f, tasks, nodes, k - 1)
    BY <2>2
  <2>4. PICK i \in 0..Len(nodes)-1 : i = f[k-1]
    BY <2>1, <2>3 DEF RoundUpTo
  <2>5. PICK v \in 0..Len(nodes)-1 : v = Advanced(tasks, nodes, k, i)
    <3>0. i + 1 \in Nat
      BY <2>4
    <3>1. (i + 1) % Len(nodes) \in 0..Len(nodes)-1
      BY <3>0, ModIndex, Zenon
    <3> QED BY <3>1, <2>4 DEF Advanced
  <2>6. PICK g : g = [j \in 0..k |-> IF j = k THEN v ELSE f[j]]
    OBVIOUS
  <2>7. g \in [0..k -> 0..Len(nodes)-1] /\ g[0] = 0
    BY <2>1, <2>3, <2>6 DEF RoundUpTo
  <2>8. ASSUME NEW j \in 1..k PROVE g[j] = Advanced(tasks, nodes, j, g[j-1])
    <3>1. CASE j = k
      <4>1. g[j-1] = i /\ g[j] = v
        BY <2>1, <2>4, <2>6, <3>1
      <4> QED BY <2>5, <3>1, <4>1
    <3>2. CASE j # k
      <4>1. g[j-1] = f[j-1] /\ g[j] = f[j] /\ j \in 1..k-1
        BY <2>1, <2>6, <3>2
      <4> QED BY <2>3, <4>1 DEF RoundUpTo
    <3> QED BY <3>1, <3>2
  <2>9. RoundUpTo(g, tasks, nodes, k)
    BY <2>7, <2>8 DEF RoundUpTo
  <2> QED BY <2>1, <2>9
<1> QED BY <1>2, <1>3

\* So the indices that the loop goes through are places of the nodes.
LEMMA IndicesAre ==
  ASSUME NEW tasks, Len(tasks) \in Nat, NEW nodes, Len(nodes) \in Nat \ {0}
  PROVE  \A k \in 0..Len(tasks) : Indices(tasks, nodes)[k] \in 0..Len(nodes)-1
<1> DEFINE Body(g) == [k \in 0..Len(tasks) |->
                         IF k = 0 THEN 0
                         ELSE IF Found(tasks[k], g[k-1], nodes) = {} THEN g[k-1]
                              ELSE (g[k-1] + 1) % Len(nodes)]
<1>1. Indices(tasks, nodes) = CHOOSE g : g = Body(g)
  BY Zenon DEF Indices
<1>2. PICK m \in Nat : m = Len(tasks)
  OBVIOUS
<1>3. PICK f : RoundUpTo(f, tasks, nodes, m)
  BY RoundsUpTo
<1>4. f = Body(f)
  <2>1. f = [k \in 0..m |-> f[k]]
    BY <1>3 DEF RoundUpTo
  <2>2. ASSUME NEW k \in 0..m PROVE f[k] = Body(f)[k]
    <3>1. CASE k = 0
      BY <1>2, <1>3, <3>1 DEF RoundUpTo
    <3>2. CASE k # 0
      <4>1. f[k] = Advanced(tasks, nodes, k, f[k-1])
        BY <1>3, <3>2 DEF RoundUpTo
      <4> QED BY <1>2, <3>2, <4>1 DEF Advanced
    <3> QED BY <3>1, <3>2
  <2> QED BY <1>2, <2>1, <2>2
<1>5. PICK idx : idx = Indices(tasks, nodes) /\ idx = Body(idx)
  BY <1>1, <1>4, Zenon
<1>6. idx[0] = 0
  BY <1>2, <1>5
<1>7. ASSUME NEW k \in 1..m
      PROVE  idx[k] = IF Found(tasks[k], idx[k-1], nodes) = {} THEN idx[k-1]
                      ELSE (idx[k-1] + 1) % Len(nodes)
  <2>1. k \in 0..Len(tasks) /\ k # 0
    BY <1>2
  <2>2. idx[k] = Body(idx)[k]
    BY <1>5, Zenon
  <2> QED BY <2>1, <2>2, Zenon
<1> HIDE DEF Body
<1> DEFINE T == {k \in Nat : k <= m /\ idx[k] \notin 0..Len(nodes)-1}
<1>8. CASE T # {}
  <2>1. PICK k \in T : \A j \in T : k <= j
    BY <1>8, LeastNumber
  <2>2. k \in 1..m /\ k - 1 \in Nat /\ k - 1 <= m /\ ~(k <= k - 1) /\ idx[k] \notin 0..Len(nodes)-1
    BY <1>6, <2>1
  <2>3. idx[k-1] \in 0..Len(nodes)-1
    BY <2>1, <2>2
  <2>4. (idx[k-1] + 1) % Len(nodes) \in 0..Len(nodes)-1
    <3>1. idx[k-1] + 1 \in Nat
      BY <2>3
    <3> QED BY <3>1, ModIndex, Zenon
  <2> QED BY <1>7, <2>2, <2>3, <2>4
<1>9. CASE T = {}
  BY <1>2, <1>5, <1>9
<1> QED BY <1>8, <1>9

\* What a copy of the nodes is as a round.
LEMMA NodesAre ==
  ASSUME NEW nodes \in Orders(HrNode)
  PROVE  /\ nodes \in Seq(HrNode) /\ Len(nodes) = Cardinality(HrNode) /\ Len(nodes) \in Nat \ {0}
         /\ DOMAIN nodes = 1..Len(nodes)
         /\ \A x \in HrNode : \E i \in 1..Len(nodes) : nodes[i] = x
         /\ \A i, k \in 1..Len(nodes) : nodes[i] = nodes[k] => i = k
<1>1. IsFiniteSet(HrNode)
  BY HeuristicsAssumption
<1>2. /\ nodes \in Seq(HrNode) /\ Len(nodes) = Cardinality(HrNode)
      /\ DOMAIN nodes = 1..Len(nodes)
      /\ \A x \in HrNode : \E i \in 1..Len(nodes) : nodes[i] = x
      /\ \A i, k \in 1..Len(nodes) : nodes[i] = nodes[k] => i = k
  BY <1>1, OrderOf, Zenon
<1> QED BY <1>2, SomeNode

\* From wherever the round starts it finds the nodes that match, and the first one
\* at once if all of them do.
LEMMA FoundIs ==
  ASSUME NEW t \in HrTask, NEW nodes \in Orders(HrNode), NEW i \in 0..Len(nodes)-1
  PROVE  /\ Found(t, i, nodes) \subseteq 0..Len(nodes)-1
         /\ \A j \in Found(t, i, nodes) : nodes[((i + j) % Len(nodes)) + 1] \in Likes[t]
         /\ Likes[t] # {} <=> Found(t, i, nodes) # {}
         /\ Likes[t] = HrNode => 0 \in Found(t, i, nodes)
<1>1. PICK n \in Nat \ {0} : n = Len(nodes)
  BY NodesAre
<1>2. \A x \in HrNode : \E p \in 1..n : nodes[p] = x
  BY <1>1, NodesAre
<1>3. Likes[t] \subseteq HrNode /\ \A p \in 1..n : nodes[p] \in HrNode
  <2>1. Likes[t] \subseteq HrNode
    BY HeuristicsAssumption, Zenon
  <2>2. nodes \in Seq(HrNode)
    BY NodesAre
  <2> QED BY <1>1, <2>1, <2>2
<1>4. /\ Found(t, i, nodes) \subseteq 0..n-1
      /\ \A j \in 0..n-1 : j \in Found(t, i, nodes) <=> nodes[((i + j) % n) + 1] \in Likes[t]
  BY <1>1, Zenon DEF Found, Matches
<1>5. i \in 0..n-1
  BY <1>1
<1>6. ASSUME NEW x \in Likes[t] PROVE Found(t, i, nodes) # {}
  <2>1. PICK p \in 1..n : nodes[p] = x
    BY <1>2, <1>3
  <2>2. PICK j \in 0..n-1 : (i + j) % n = p - 1
    <3>1. CASE p - 1 >= i
      <4>1. p - 1 - i \in 0..n-1 /\ i + (p - 1 - i) = p - 1 /\ p - 1 \in 0..n-1
        BY <1>5, <3>1
      <4>2. (p - 1) % n = p - 1
        BY <4>1, ModBelow
      <4> QED BY <4>1, <4>2
    <3>2. CASE p - 1 < i
      <4>1. p - 1 - i + n \in 0..n-1 /\ i + (p - 1 - i + n) = p - 1 + n /\ p - 1 \in 0..n-1
        BY <1>5, <3>2
      <4>2. (p - 1 + n) % n = p - 1
        BY <4>1, ModBelow
      <4> QED BY <4>1, <4>2
    <3> QED BY <1>5, <3>1, <3>2
  <2>3. nodes[((i + j) % n) + 1] = x
    BY <2>1, <2>2
  <2> QED BY <1>4, <2>3
<1>7. ASSUME Likes[t] = HrNode PROVE 0 \in Found(t, i, nodes)
  <2>1. (i + 0) % n = i /\ i + 1 \in 1..n /\ 0 \in 0..n-1
    BY <1>5, ModBelow
  <2>2. nodes[((i + 0) % n) + 1] \in Likes[t]
    BY <1>3, <1>7, <2>1
  <2> QED BY <1>4, <2>1, <2>2
<1> QED BY <1>1, <1>4, <1>6, <1>7

\* What LearningAlgo decides below the limit is a node that the task likes, and a
\* decision exactly for the tasks that some node matches.
LEMMA LearnedIs ==
  ASSUME NEW tasks \in Orders(HrTask), NEW copy \in [free : FreeOn, nodes : Orders(HrNode)]
  PROVE  /\ LearnedRound(tasks, copy) \in [HrTask -> HrNode \cup {Undecided}]
         /\ \A t \in HrTask :
              IF Likes[t] = {} THEN LearnedRound(tasks, copy)[t] = Undecided
              ELSE LearnedRound(tasks, copy)[t] \in Likes[t]
<1>1. PICK nodes \in Orders(HrNode) : nodes = copy.nodes
  OBVIOUS
<1>2. Len(nodes) \in Nat \ {0}
  BY NodesAre
<1>3. /\ tasks \in Seq(HrTask) /\ Len(tasks) \in Nat /\ DOMAIN tasks = 1..Len(tasks)
      /\ \A x \in HrTask : \E i \in 1..Len(tasks) : tasks[i] = x
  <2>1. IsFiniteSet(HrTask)
    BY HeuristicsAssumption
  <2>2. /\ tasks \in Seq(HrTask)
        /\ DOMAIN tasks = 1..Len(tasks) /\ \A x \in HrTask : \E i \in 1..Len(tasks) : tasks[i] = x
    BY <2>1, OrderOf, Zenon
  <2> QED BY <2>2
<1>4. PICK n \in Nat \ {0} : n = Len(nodes)
  BY <1>2
<1>5. PICK idx : idx = Indices(tasks, nodes)
  OBVIOUS
<1>6. \A k \in 1..Len(tasks) : idx[k-1] \in 0..n-1
  BY <1>2, <1>3, <1>4, <1>5, IndicesAre
<1> DEFINE K(t) == {k \in DOMAIN tasks : tasks[k] = t /\ Found(t, idx[k-1], nodes) # {}}
           from(t) == idx[Min(K(t))-1]
           at(t) == ((from(t) + Min(Found(t, from(t), nodes))) % n) + 1
<1>7. LearnedRound(tasks, copy) = [t \in HrTask |-> IF K(t) = {} THEN Undecided ELSE nodes[at(t)]]
  BY <1>1, <1>4, <1>5, Zenon DEF LearnedRound
<1>8. ASSUME NEW t \in HrTask, K(t) # {} PROVE nodes[at(t)] \in Likes[t]
  <2>1. K(t) \subseteq Nat
    BY <1>3
  <2>2. PICK k \in K(t) : k = Min(K(t))
    BY <1>8, <2>1, MinIs
  <2>3. k \in 1..Len(tasks) /\ idx[k-1] \in 0..n-1 /\ Found(t, idx[k-1], nodes) # {}
    BY <1>3, <1>6, <2>2
  <2>4. PICK i \in 0..n-1 : i = from(t)
    BY <2>2, <2>3
  <2>5. /\ Found(t, i, nodes) \subseteq 0..n-1
        /\ \A j \in Found(t, i, nodes) : nodes[((i + j) % n) + 1] \in Likes[t]
    BY <1>4, FoundIs
  <2>6. Found(t, i, nodes) \subseteq Nat /\ Found(t, i, nodes) # {}
    <3>1. idx[k-1] = i
      BY <2>2, <2>4
    <3>2. Found(t, i, nodes) # {}
      BY <2>3, <3>1, Zenon
    <3>3. 0..n-1 \subseteq Nat
      OBVIOUS
    <3> QED BY <2>5, <3>2, <3>3, Zenon
  <2>7. PICK j \in Found(t, i, nodes) : j = Min(Found(t, i, nodes))
    BY <2>6, MinIs
  <2>8. at(t) = ((i + j) % n) + 1
    BY <2>4, <2>7
  <2> QED BY <2>5, <2>7, <2>8
<1>9. ASSUME NEW t \in HrTask PROVE Likes[t] # {} <=> K(t) # {}
  <2>1. PICK k \in 1..Len(tasks) : tasks[k] = t
    BY <1>3
  <2>2. \A i \in 1..Len(tasks) : Likes[t] # {} <=> Found(t, idx[i-1], nodes) # {}
    BY <1>4, <1>6, FoundIs
  <2> QED BY <1>3, <2>1, <2>2
<1> HIDE DEF K, at
<1>10. ASSUME NEW t \in HrTask
       PROVE  (IF K(t) = {} THEN Undecided ELSE nodes[at(t)]) \in HrNode \cup {Undecided}
  <2>1. Likes[t] \subseteq HrNode
    BY HeuristicsAssumption
  <2> QED BY <1>8, <2>1
<1> QED BY <1>7, <1>8, <1>9, <1>10

-----------------------------------------------------------------------------
(* The steps.                                                              *)

\* The initial state has the invariant.
LEMMA HrInitInv == HrInit => HrInv
<1> SUFFICES ASSUME HrInit PROVE HrInv
  OBVIOUS
<1>1. HrTypes
  <2>1. 0 \in 0..Cardinality(HrNode)-1 /\ Len(<<>>) <= Cardinality(HrTask)
    BY SomeNode
  <2>2. NoDecision \in Decision
    BY DEF NoDecision, Decision
  <2>3. <<>> \in Seq(HrTask) /\ IsInjective(<<>>)
    BY DEF IsInjective
  <2> QED BY <2>1, <2>2, <2>3 DEF HrInit, HrTypes
<1>2. \A c \in HrCall : hrAt[c] = "idle"
  BY DEF HrInit
<1> QED BY <1>1, <1>2 DEF HrInv, HrPlaces, RoundDecided, LearnedWhereLiked, AloneInUse,
       OwnExplained, RoundGoesOn, DecidesAsAlone, RoundsAreEven, ExplainsItsDecision,
       Done, InRound, Unused

\* What an order of the tasks is as what a call has to do.
LEMMA TasksAre ==
  ASSUME NEW tasks \in Orders(HrTask)
  PROVE  /\ tasks \in Seq(HrTask) /\ IsInjective(tasks) /\ Len(tasks) <= Cardinality(HrTask)
         /\ ToSet(tasks) = HrTask /\ Range(tasks) = HrTask
         /\ tasks = <<>> <=> HrTask = {}
<1>1. IsFiniteSet(HrTask)
  BY HeuristicsAssumption
<1>2. /\ tasks \in Seq(HrTask) /\ Cardinality(HrTask) \in Nat /\ Len(tasks) = Cardinality(HrTask)
      /\ DOMAIN tasks = 1..Len(tasks)
      /\ \A x \in HrTask : \E i \in 1..Len(tasks) : tasks[i] = x
      /\ \A i, k \in 1..Len(tasks) : tasks[i] = tasks[k] => i = k
  BY <1>1, OrderOf, Zenon
<1>3. IsInjective(tasks)
  BY <1>2, Zenon DEF IsInjective
<1>4. \A i \in 1..Len(tasks) : tasks[i] \in HrTask
  BY <1>2
<1>5. ToSet(tasks) = HrTask /\ Range(tasks) = HrTask
  BY <1>2, <1>4 DEF ToSet, Range
<1>6. tasks = <<>> <=> HrTask = {}
  <2>1. tasks = <<>> => HrTask = {}
    BY <1>2
  <2>2. HrTask = {} => tasks = <<>>
    BY <1>1, <1>2, FS_EmptySet
  <2> QED BY <2>1, <2>2
<1> QED BY <1>2, <1>3, <1>5, <1>6

\* What a call has, when a step of another call leaves it where it is.
Untouched(d) ==
  /\ hrAt'[d] = hrAt[d] /\ hrCopy'[d] = hrCopy[d] /\ hrTodo'[d] = hrTodo[d]
  /\ hrFrom'[d] = hrFrom[d] /\ hrOut'[d] = hrOut[d] /\ hrToldOf'[d] = hrToldOf[d]
  /\ hrAlone'[d] => hrAlone[d]

\* SimulateAlgorithm begins: the call is alone if no other is in use, and the
\* others are not any more.
LEMMA HrCopyKeeps == ASSUME HrInv, NEW c \in HrCall, HrCopy(c) PROVE HrInv'
<1> USE DEF HrInv
<1>1. PICK free \in FreeOn, nodes \in Orders(HrNode), tasks \in Orders(HrTask) :
        /\ hrCopy' = [hrCopy EXCEPT ![c] = [free |-> free, nodes |-> nodes]]
        /\ hrTodo' = [hrTodo EXCEPT ![c] = tasks]
        /\ hrAt' = [hrAt EXCEPT ![c] = IF hrAlgo = "round-robin" /\ tasks # <<>> THEN "read" ELSE "decide"]
  <2>1. PICK free \in FreeOn, nodes \in Orders(HrNode), tasks \in Orders(HrTask) :
          /\ hrCopy' = [hrCopy EXCEPT ![c] = [free |-> free, nodes |-> nodes]]
          /\ hrTodo' = [hrTodo EXCEPT ![c] = tasks]
          /\ HrGoto(c, IF hrAlgo = "round-robin" /\ tasks # <<>> THEN "read" ELSE "decide")
    BY Zenon DEF HrCopy
  <2> QED BY <2>1, Zenon DEF HrGoto
<1>2. /\ hrAt[c] = "idle" /\ UNCHANGED <<hrAlgo, hrIndex, hrExplain, hrFrom>>
      /\ hrOut' = [hrOut EXCEPT ![c] = NoDecision] /\ hrToldOf' = [hrToldOf EXCEPT ![c] = NoDecision]
      /\ hrAlone' = [d \in HrCall |->
           IF d = c THEN \A e \in HrCall \ {c} : Unused(e) ELSE hrAlone[d] /\ Unused(d)]
  BY Zenon DEF HrCopy
<1>3. NoDecision \in Decision /\ \A t \in HrTask : NoDecision[t] = Undecided
  BY DEF NoDecision, Decision
<1>4. [free |-> free, nodes |-> nodes] \in Copies
  BY DEF Copies
<1>5. /\ tasks \in Seq(HrTask) /\ IsInjective(tasks) /\ Len(tasks) <= Cardinality(HrTask)
      /\ ToSet(tasks) = HrTask /\ (tasks = <<>> <=> HrTask = {})
  BY TasksAre
<1>6. \A d \in HrCall \ {c} : Untouched(d) /\ (hrAlone'[d] => Unused(d))
  <2>1. ASSUME NEW d \in HrCall \ {c} PROVE hrAlone'[d] = (hrAlone[d] /\ Unused(d))
    BY <1>2, Zenon
  <2> QED BY <1>1, <1>2, <2>1 DEF Untouched, HrTypes
<1>7. hrAlone'[c] => \A e \in HrCall \ {c} : Unused(e)
  BY <1>2, Zenon
<1>8. /\ hrAt'[c] \in {"read", "decide"} /\ hrCopy'[c] \in Copies /\ hrTodo'[c] = tasks
      /\ hrOut'[c] = NoDecision
      /\ hrAt'[c] = "read" => hrAlgo = "round-robin" /\ tasks # <<>>
      /\ hrAt'[c] = "decide" => hrAlgo # "round-robin" \/ tasks = <<>>
  BY <1>1, <1>2, <1>4 DEF HrTypes
<1>9. HrTypes'
  <2>1. hrAlone' \in [HrCall -> BOOLEAN]
    <3>1. \A d \in HrCall : (IF d = c THEN \A e \in HrCall \ {c} : Unused(e) ELSE hrAlone[d] /\ Unused(d)) \in BOOLEAN
      OBVIOUS
    <3> QED BY <1>2, <3>1, Zenon
  <2>2. hrAt' \in [HrCall -> {"idle", "decide", "read", "write", "told", "returned"}]
    BY <1>1 DEF HrTypes
  <2>3. hrCopy' \in [HrCall -> Copies \cup {NoCopy}]
    BY <1>1, <1>4 DEF HrTypes
  <2>4. hrTodo' \in [HrCall -> Seq(HrTask)]
    BY <1>1, <1>5 DEF HrTypes
  <2>5. \A d \in HrCall : IsInjective(hrTodo'[d]) /\ Len(hrTodo'[d]) <= Cardinality(HrTask)
    BY <1>5, <1>6, <1>8 DEF HrTypes, Untouched
  <2>6. hrOut' \in [HrCall -> Decision] /\ hrToldOf' \in [HrCall -> Decision]
    BY <1>2, <1>3 DEF HrTypes
  <2> QED BY <1>2, <2>1, <2>2, <2>3, <2>4, <2>5, <2>6 DEF HrTypes
<1>10. HrPlaces'
  BY <1>2, <1>5, <1>6, <1>8 DEF HrPlaces, Untouched
<1>11. RoundDecided'
  <2>1. \A t \in HrTask : t \in ToSet(hrTodo'[c]) /\ hrOut'[c][t] = Undecided
    BY <1>3, <1>5, <1>8
  <2>2. ~Done(c)' /\ (InRound(c)' => hrAt'[c] = "read")
    BY <1>8 DEF Done, InRound
  <2> QED BY <1>2, <1>6, <2>1, <2>2 DEF RoundDecided, Untouched, Done, InRound
<1>12. LearnedWhereLiked' /\ DecidesAsAlone' /\ RoundsAreEven'
  <2>1. ~Done(c)'
    BY <1>8 DEF Done
  <2>2. LearnedWhereLiked'
    BY <1>2, <1>6, <2>1 DEF LearnedWhereLiked, Untouched, Done
  <2>3. DecidesAsAlone'
    BY <1>2, <1>6, <2>1 DEF DecidesAsAlone, Untouched, Done
  <2>4. RoundsAreEven'
    BY <1>2, <1>6, <2>1 DEF RoundsAreEven, Untouched, Done
  <2> QED BY <2>2, <2>3, <2>4
<1>13. ExplainsItsDecision'
  BY <1>6, <1>8 DEF ExplainsItsDecision, Untouched
<1>14. AloneInUse'
  BY <1>6, <1>7 DEF AloneInUse, Untouched, Unused
<1>15. OwnExplained'
  BY <1>3, <1>6, <1>8 DEF OwnExplained, Untouched, Unused
<1>16. RoundGoesOn'
  <2>1. \A n : Cardinality(TasksOn(hrOut'[c], n)) = IF n = Undecided THEN Cardinality(TasksOn(hrOut'[c], n)) ELSE 0
    <3>1. ASSUME NEW n, n # Undecided PROVE TasksOn(hrOut'[c], n) = {}
      BY <1>3, <1>8, <3>1 DEF TasksOn
    <3> QED BY <3>1, FS_EmptySet
  <2>2. RoundFrom(hrOut'[c], hrCopy'[c].nodes, hrIndex', 0, hrIndex')
    <3>1. hrCopy'[c].nodes \in Orders(HrNode) /\ IsFiniteSet(HrNode) /\ Undecided \notin HrNode
      BY <1>8, HeuristicsAssumption DEF Copies, Undecided
    <3>2. hrCopy'[c].nodes \in Seq(HrNode)
      BY <3>1, OrderOf, Zenon
    <3>3. PICK s : s = hrCopy'[c].nodes /\ s \in Seq(HrNode)
      BY <3>2
    <3>4. \A p \in 0..Len(s)-1 : s[p + 1] # Undecided /\ hrIndex' \in Int
      BY <1>2, <3>1, <3>3, SomeNode DEF HrTypes
    <3>5. \A p \in 0..Len(s)-1 : ~Passed(hrIndex', p, hrIndex')
      BY <1>2, <3>3, SomeNode DEF Passed, HrTypes
    <3> QED BY <2>1, <3>3, <3>4, <3>5 DEF RoundFrom
  <2>3. hrIndex' \in 0..Cardinality(HrNode)-1 /\ 0 \in Nat
    BY <1>2 DEF HrTypes
  <2>4. \A d \in HrCall \ {c} : hrAlone'[d] => ~InRound(d)' /\ hrAt'[d] # "told"
    BY <1>6 DEF Untouched, Unused, InRound
  <2> QED BY <2>2, <2>3, <2>4 DEF RoundGoesOn
<1> QED BY <1>9, <1>10, <1>11, <1>12, <1>13, <1>14, <1>15, <1>16

\* The algorithms that look at all tasks at once decide: each decision explained,
\* and nothing that another call had to itself.
LEMMA HrDecideKeeps == ASSUME HrInv, NEW c \in HrCall, HrDecide(c) PROVE HrInv'
<1> USE DEF HrInv
<1>1. PICK out : /\ out \in IF hrAlgo = "learning" THEN {LearnedRound(hrTodo[c], hrCopy[c])}
                            ELSE Decided(hrAlgo, hrTodo[c], hrCopy[c])
                 /\ hrOut' = [hrOut EXCEPT ![c] = out]
                 /\ hrExplain' = Explained(hrExplain, out)
  BY DEF HrDecide
<1>2. /\ hrAt[c] = "decide" /\ hrAt' = [hrAt EXCEPT ![c] = "told"]
      /\ hrTodo' = [hrTodo EXCEPT ![c] = <<>>]
      /\ UNCHANGED <<hrAlgo, hrIndex, hrCopy, hrFrom, hrToldOf, hrAlone>>
  BY DEF HrDecide, HrGoto
<1>3. hrCopy[c] \in Copies /\ hrTodo[c] \in Orders(HrTask) /\ (hrAlgo = "round-robin" => HrTask = {})
  BY <1>2 DEF HrPlaces
<1>4. Range(hrTodo[c]) = HrTask
  BY <1>3, TasksAre
<1>5. out \in Decision
  <2>1. CASE hrAlgo = "learning"
    <3>1. out = LearnedRound(hrTodo[c], hrCopy[c])
      BY <1>1, <2>1
    <3> QED BY <1>3, <3>1, LearnedIs DEF Copies, Decision
  <2>2. CASE hrAlgo # "learning"
    BY <1>1, <2>2, Zenon DEF Decided, Decision
  <2> QED BY <2>1, <2>2
<1>6. \A t \in HrTask : /\ Explained(hrExplain, out)[t] \in HrNode \cup {Undecided}
                        /\ out[t] # Undecided => Explained(hrExplain, out)[t] = out[t]
  BY <1>5 DEF Explained, Decision, HrTypes
<1>7. Explained(hrExplain, out) \in Decision
  BY <1>6 DEF Explained, Decision
<1>8. \A d \in HrCall \ {c} : Untouched(d)
  BY <1>1, <1>2 DEF Untouched, HrTypes
<1>9. hrAt'[c] = "told" /\ hrOut'[c] = out /\ hrCopy'[c] = hrCopy[c] /\ hrAlgo' = hrAlgo
  BY <1>1, <1>2 DEF HrTypes
<1>10. HrTypes'
  <2>1. <<>> \in Seq(HrTask) /\ IsInjective(<<>>) /\ Len(<<>>) <= Cardinality(HrTask)
    BY SomeNode DEF IsInjective
  <2>2. hrTodo' \in [HrCall -> Seq(HrTask)]
    BY <1>2, <2>1 DEF HrTypes
  <2>3. \A d \in HrCall : IsInjective(hrTodo'[d]) /\ Len(hrTodo'[d]) <= Cardinality(HrTask)
    BY <1>2, <2>1 DEF HrTypes
  <2>4. hrAt' \in [HrCall -> {"idle", "decide", "read", "write", "told", "returned"}]
    BY <1>2 DEF HrTypes
  <2>5. hrOut' \in [HrCall -> Decision] /\ hrExplain' \in Decision
    BY <1>1, <1>5, <1>7 DEF HrTypes
  <2> QED BY <1>2, <2>2, <2>3, <2>4, <2>5 DEF HrTypes
<1>11. HrPlaces'
  BY <1>3, <1>8, <1>9 DEF HrPlaces, Untouched
<1>12. RoundDecided'
  BY <1>3, <1>8, <1>9 DEF RoundDecided, Untouched, Done, InRound
<1>13. LearnedWhereLiked'
  <2>1. hrAlgo = "learning" =>
          \A t \in HrTask : IF Likes[t] = {} THEN out[t] = Undecided ELSE out[t] \in Likes[t]
    <3>1. hrAlgo = "learning" => out = LearnedRound(hrTodo[c], hrCopy[c])
      BY <1>1
    <3> QED BY <1>3, <3>1, LearnedIs DEF Copies
  <2> QED BY <1>8, <1>9, <2>1 DEF LearnedWhereLiked, Untouched, Done
<1>14. DecidesAsAlone'
  <2>1. ASSUME hrAlgo \notin {"round-robin", "learning"}, NEW t \in HrTask
        PROVE  IF Fitting(t, hrCopy[c].free) = {} THEN out[t] = Undecided
               ELSE out[t] \in Fitting(t, hrCopy[c].free) /\ out[t] \in NodesFor(hrAlgo, t, hrCopy[c])
    <3>1. out \in Decided(hrAlgo, hrTodo[c], hrCopy[c])
      BY <1>1, <2>1
    <3>2. IF NodesFor(hrAlgo, t, hrCopy[c]) # {} THEN out[t] \in NodesFor(hrAlgo, t, hrCopy[c])
          ELSE out[t] = Undecided
      BY <1>4, <3>1, Zenon DEF Decided
    <3>3. hrAlgo \in Algorithm \ {"round-robin", "learning"}
      BY <2>1 DEF HrTypes
    <3>4. /\ NodesFor(hrAlgo, t, hrCopy[c]) \subseteq Fitting(t, hrCopy[c].free)
          /\ Fitting(t, hrCopy[c].free) # {} => NodesFor(hrAlgo, t, hrCopy[c]) # {}
      BY <1>3, <3>3, NodesForIs DEF Copies
    <3> QED BY <3>2, <3>4
  <2> QED BY <1>8, <1>9, <2>1 DEF DecidesAsAlone, Untouched, Done
<1>15. RoundsAreEven'
  <2>1. hrAlgo = "round-robin" => \A n : Cardinality(TasksOn(out, n)) = 0
    <3>1. ASSUME hrAlgo = "round-robin", NEW n PROVE TasksOn(out, n) = {}
      BY <1>3, <3>1 DEF TasksOn
    <3> QED BY <3>1, FS_EmptySet
  <2> QED BY <1>8, <1>9, <2>1 DEF RoundsAreEven, Untouched, Done
<1>16. ExplainsItsDecision'
  BY <1>8, <1>9 DEF ExplainsItsDecision, Untouched
<1>17. AloneInUse'
  BY <1>2, <1>8, <1>9 DEF AloneInUse, Untouched, Unused
<1>18. \A d \in HrCall \ {c} : hrAlone'[d] => hrAt'[d] \notin {"read", "write", "told"}
  BY <1>2, <1>8 DEF AloneInUse, Untouched, Unused
<1>19. OwnExplained'
  BY <1>1, <1>6, <1>9, <1>5, <1>18 DEF OwnExplained, Decision
<1>20. RoundGoesOn'
  <2>1. hrAlgo = "round-robin" => RoundFrom(out, hrCopy[c].nodes, hrIndex, 0, hrIndex)
    <3>1. ASSUME hrAlgo = "round-robin", NEW n PROVE Cardinality(TasksOn(out, n)) = 0
      <4>1. TasksOn(out, n) = {}
        BY <1>3, <3>1 DEF TasksOn
      <4> QED BY <4>1, FS_EmptySet
    <3>2. Len(hrCopy[c].nodes) \in Nat
      <4>1. IsFiniteSet(HrNode) /\ hrCopy[c].nodes \in Orders(HrNode)
        BY <1>3, HeuristicsAssumption DEF Copies
      <4> QED BY <4>1, OrderOf
    <3>3. \A p \in 0..Len(hrCopy[c].nodes)-1 : ~Passed(hrIndex, p, hrIndex)
      BY <3>2, SomeNode DEF Passed, HrTypes
    <3> QED BY <3>1, <3>3 DEF RoundFrom
  <2>2. hrIndex' = hrIndex /\ hrIndex \in 0..Cardinality(HrNode)-1 /\ 0 \in Nat
    BY <1>2 DEF HrTypes
  <2> QED BY <1>9, <1>18, <2>1, <2>2 DEF RoundGoesOn, InRound
<1> QED BY <1>10, <1>11, <1>12, <1>13, <1>14, <1>15, <1>16, <1>17, <1>19, <1>20

\* RoundRobinAlgo reads the index.
LEMMA RoundReadKeeps == ASSUME HrInv, NEW c \in HrCall, RoundRead(c) PROVE HrInv'
<1> USE DEF HrInv
<1>1. /\ hrAt[c] = "read" /\ hrAt' = [hrAt EXCEPT ![c] = "write"]
      /\ hrFrom' = [hrFrom EXCEPT ![c] = hrIndex % Len(hrCopy[c].nodes)]
      /\ UNCHANGED <<hrAlgo, hrIndex, hrExplain, hrCopy, hrTodo, hrOut, hrToldOf, hrAlone>>
  BY DEF RoundRead, HrGoto
<1>2. hrIndex % Len(hrCopy[c].nodes) = hrIndex
  <2>1. hrCopy[c].nodes \in Orders(HrNode) /\ IsFiniteSet(HrNode)
    BY <1>1, HeuristicsAssumption DEF HrPlaces, Copies
  <2>2. Len(hrCopy[c].nodes) = Cardinality(HrNode)
    BY <2>1, OrderOf, Zenon
  <2>3. Len(hrCopy[c].nodes) \in Nat \ {0} /\ hrIndex \in 0..Len(hrCopy[c].nodes)-1
    BY <2>2, SomeNode DEF HrTypes
  <2> QED BY <2>3, ModBelow
<1>3. hrFrom'[c] = hrIndex /\ hrFrom' \in [HrCall -> 0..Cardinality(HrNode)-1] /\ hrAt'[c] = "write"
  BY <1>1, <1>2 DEF HrTypes
<1>4. \A d \in HrCall : /\ d # c => hrAt'[d] = hrAt[d] /\ hrFrom'[d] = hrFrom[d]
                        /\ (InRound(d)' <=> InRound(d)) /\ (Done(d)' <=> Done(d)) /\ (Unused(d)' <=> Unused(d))
  BY <1>1 DEF HrTypes, InRound, Done, Unused
<1>5. HrTypes'
  BY <1>1, <1>3 DEF HrTypes
<1>6. HrPlaces'
  BY <1>1, <1>3, <1>4 DEF HrPlaces
<1>7. RoundDecided' /\ LearnedWhereLiked' /\ DecidesAsAlone' /\ RoundsAreEven'
  BY <1>1, <1>4 DEF RoundDecided, LearnedWhereLiked, DecidesAsAlone, RoundsAreEven
<1>8. AloneInUse'
  BY <1>1, <1>4 DEF AloneInUse
<1>9. OwnExplained' /\ ExplainsItsDecision'
  BY <1>1, <1>3, <1>4 DEF OwnExplained, ExplainsItsDecision
<1>10. RoundGoesOn'
  BY <1>1, <1>3, <1>4 DEF RoundGoesOn, InRound
<1> QED BY <1>5, <1>6, <1>7, <1>8, <1>9, <1>10

\* The explanations are collected.
LEMMA HrToldKeeps == ASSUME HrInv, NEW c \in HrCall, HrTold(c) PROVE HrInv'
<1> USE DEF HrInv
<1>1. /\ hrAt[c] = "told" /\ hrAt' = [hrAt EXCEPT ![c] = "returned"]
      /\ hrToldOf' = [hrToldOf EXCEPT ![c] = hrExplain]
      /\ UNCHANGED <<hrAlgo, hrIndex, hrExplain, hrCopy, hrTodo, hrFrom, hrOut, hrAlone>>
  BY DEF HrTold, HrGoto
<1>2. hrToldOf'[c] = hrExplain /\ hrToldOf' \in [HrCall -> Decision] /\ hrAt'[c] = "returned"
  BY <1>1 DEF HrTypes
<1>3. \A d \in HrCall : /\ d # c => hrAt'[d] = hrAt[d] /\ hrToldOf'[d] = hrToldOf[d]
                        /\ (InRound(d)' <=> InRound(d)) /\ (Done(d)' <=> Done(d))
                        /\ Unused(d) => Unused(d)'
  BY <1>1 DEF HrTypes, InRound, Done, Unused
<1>4. HrTypes'
  BY <1>1, <1>2 DEF HrTypes
<1>5. HrPlaces'
  BY <1>1, <1>2, <1>3 DEF HrPlaces
<1>6. RoundDecided' /\ LearnedWhereLiked' /\ DecidesAsAlone' /\ RoundsAreEven'
  BY <1>1, <1>3 DEF RoundDecided, LearnedWhereLiked, DecidesAsAlone, RoundsAreEven
<1>7. AloneInUse'
  BY <1>1, <1>3 DEF AloneInUse
<1>8. OwnExplained' /\ ExplainsItsDecision'
  BY <1>1, <1>2, <1>3 DEF OwnExplained, ExplainsItsDecision
<1>9. RoundGoesOn'
  BY <1>1, <1>2, <1>3 DEF RoundGoesOn
<1> QED BY <1>4, <1>5, <1>6, <1>7, <1>8, <1>9

\* The caller comes back later, with a new copy.
LEMMA HrAgainKeeps == ASSUME HrInv, NEW c \in HrCall, HrAgain(c) PROVE HrInv'
<1> USE DEF HrInv
<1>1. /\ hrAt[c] = "returned" /\ hrAt' = [hrAt EXCEPT ![c] = "idle"]
      /\ hrOut' = [hrOut EXCEPT ![c] = NoDecision]
      /\ hrToldOf' = [hrToldOf EXCEPT ![c] = NoDecision]
      /\ hrCopy' = [hrCopy EXCEPT ![c] = NoCopy]
      /\ hrFrom' = [hrFrom EXCEPT ![c] = 0]
      /\ hrAlone' = [hrAlone EXCEPT ![c] = TRUE]
      /\ UNCHANGED <<hrAlgo, hrIndex, hrExplain, hrTodo>>
  BY DEF HrAgain, HrGoto
<1>2. NoDecision \in Decision /\ 0 \in 0..Cardinality(HrNode)-1
  BY SomeNode DEF NoDecision, Decision
<1>3. \A d \in HrCall \ {c} : Untouched(d)
  <2>1. \A d \in HrCall \ {c} : hrAlone'[d] = hrAlone[d]
    BY <1>1 DEF HrTypes
  <2> QED BY <1>1, <2>1 DEF Untouched, HrTypes
<1>4. hrAt'[c] = "idle"
  BY <1>1 DEF HrTypes
<1>5. HrTypes'
  <2>1. hrAlone' \in [HrCall -> BOOLEAN]
    BY <1>1 DEF HrTypes
  <2> QED BY <1>1, <1>2, <2>1 DEF HrTypes
<1>6. HrPlaces'
  BY <1>1, <1>3, <1>4 DEF HrPlaces, Untouched
<1>7. RoundDecided' /\ LearnedWhereLiked' /\ DecidesAsAlone' /\ RoundsAreEven'
  <2>1. RoundDecided'
    BY <1>1, <1>3, <1>4 DEF RoundDecided, Untouched, InRound, Done
  <2>2. LearnedWhereLiked'
    BY <1>1, <1>3, <1>4 DEF LearnedWhereLiked, Untouched, Done
  <2>3. DecidesAsAlone'
    BY <1>1, <1>3, <1>4 DEF DecidesAsAlone, Untouched, Done
  <2>4. RoundsAreEven'
    BY <1>1, <1>3, <1>4 DEF RoundsAreEven, Untouched, Done
  <2> QED BY <2>1, <2>2, <2>3, <2>4
<1>8. AloneInUse'
  BY <1>1, <1>3, <1>4 DEF AloneInUse, Untouched, Unused
<1>9. OwnExplained' /\ ExplainsItsDecision'
  BY <1>1, <1>3, <1>4 DEF OwnExplained, ExplainsItsDecision, Untouched
<1>10. RoundGoesOn'
  BY <1>1, <1>3, <1>4 DEF RoundGoesOn, Untouched, InRound
<1> QED BY <1>5, <1>6, <1>7, <1>8, <1>9, <1>10

\* A step of the round passes one place more, or ends a round.
LEMMA PassedStep ==
  ASSUME NEW n \in Nat \ {0}, NEW s \in 0..n-1, NEW p \in 0..n-1, NEW i \in 0..n-1
  PROVE  /\ (i + 1) % n = s => (Passed(s, p, i) <=> p # i)
         /\ (i + 1) % n # s => (Passed(s, p, (i + 1) % n) <=> Passed(s, p, i) \/ p = i)
         /\ ~Passed(s, i, i) /\ ~Passed(s, p, s)
<1>1. (i + 1) % n = IF i + 1 = n THEN 0 ELSE i + 1
  <2>1. CASE i + 1 = n
    <3>1. (0 + n) % n = 0 /\ 0 + n = i + 1
      BY <2>1, ModBelow
    <3> QED BY <2>1, <3>1
  <2>2. CASE i + 1 # n
    <3>1. i + 1 \in 0..n-1
      BY <2>2
    <3> QED BY <2>2, <3>1, ModBelow
  <2> QED BY <2>1, <2>2
<1> QED BY <1>1 DEF Passed

\* One task more on one node.
LEMMA OneTaskMore ==
  ASSUME NEW out \in Decision, NEW t \in HrTask, NEW v \in HrNode, out[t] = Undecided
  PROVE  /\ \A n \in HrNode : Cardinality(TasksOn(out, n)) \in Nat
         /\ \A n \in HrNode : Cardinality(TasksOn([out EXCEPT ![t] = v], n))
                                = Cardinality(TasksOn(out, n)) + (IF n = v THEN 1 ELSE 0)
<1>1. \A n : IsFiniteSet(TasksOn(out, n))
  <2>1. \A n : TasksOn(out, n) \in SUBSET HrTask
    BY DEF TasksOn
  <2> QED BY <2>1, FS_Subset, HeuristicsAssumption
<1>2. \A n : Cardinality(TasksOn(out, n)) \in Nat
  BY <1>1, FS_CardinalityType
<1>3. Undecided \notin HrNode
  BY HeuristicsAssumption, Zenon DEF Undecided
<1>4. t \notin TasksOn(out, v)
  BY <1>3 DEF TasksOn
<1>5. ASSUME NEW n \in HrNode
      PROVE  TasksOn([out EXCEPT ![t] = v], n) = IF n = v THEN TasksOn(out, n) \cup {t} ELSE TasksOn(out, n)
  BY <1>3 DEF TasksOn, Decision
<1>6. Cardinality(TasksOn(out, v) \cup {t}) = Cardinality(TasksOn(out, v)) + 1
  BY <1>1, <1>4, FS_AddElement
<1>7. ASSUME NEW n \in HrNode
      PROVE  Cardinality(TasksOn([out EXCEPT ![t] = v], n)) = Cardinality(TasksOn(out, n)) + (IF n = v THEN 1 ELSE 0)
  <2>1. CASE n = v
    BY <1>5, <1>6, <2>1
  <2>2. CASE n # v
    <3>1. TasksOn([out EXCEPT ![t] = v], n) = TasksOn(out, n)
      BY <1>5, <2>2
    <3>2. Cardinality(TasksOn(out, n)) \in Nat
      BY <1>2
    <3> QED BY <2>2, <3>1, <3>2
  <2> QED BY <2>1, <2>2
<1> QED BY <1>2, <1>7

\* What RoundRobinAlgo finds for a task is a place of the nodes, the index it has
\* read if every node matches.
LEMMA RoundAtIs ==
  ASSUME HrTypes, NEW t \in HrTask, NEW nodes \in Orders(HrNode), NEW from \in 0..Len(nodes)-1
  PROVE  /\ RoundAt(t, from, nodes) \in 0..Len(nodes)-1
         /\ Likes[t] # {} => nodes[RoundAt(t, from, nodes) + 1] \in Likes[t]
         /\ Likes[t] = HrNode => RoundAt(t, from, nodes) = from
<1> DEFINE F == Found(t, from, nodes)
<1>1. PICK n \in Nat \ {0} : n = Len(nodes)
  BY NodesAre
<1>2. /\ F \subseteq 0..n-1 /\ (Likes[t] # {} <=> F # {}) /\ (Likes[t] = HrNode => 0 \in F)
      /\ \A j \in F : nodes[((from + j) % n) + 1] \in Likes[t]
  BY <1>1, FoundIs
<1>3. RoundAt(t, from, nodes) = (IF F = {} THEN hrIndex ELSE from + Min(F)) % n
  BY <1>1 DEF RoundAt
<1>4. hrIndex \in Nat /\ from \in Nat /\ from < n
  BY <1>1, SomeNode DEF HrTypes
<1> HIDE DEF F
<1>5. CASE F = {}
  <2>1. RoundAt(t, from, nodes) \in 0..n-1
    BY <1>3, <1>4, <1>5, ModIndex
  <2>2. Likes[t] = {} /\ Likes[t] # HrNode
    BY <1>2, <1>5
  <2> QED BY <1>1, <2>1, <2>2
<1>6. CASE F # {}
  <2>1. PICK j \in F : j = Min(F) /\ \A k \in F : j <= k
    <3>1. F \subseteq Nat
      BY <1>2
    <3> QED BY <1>6, <3>1, MinIs
  <2>2. RoundAt(t, from, nodes) = (from + j) % n /\ from + j \in Nat
    <3>1. RoundAt(t, from, nodes) = (from + Min(F)) % n
      BY <1>3, <1>6, Zenon
    <3>2. j \in Nat
      BY <1>2, <2>1
    <3> QED BY <1>4, <2>1, <3>1, <3>2
  <2>3. (from + j) % n \in 0..n-1
    BY <2>2, ModIndex
  <2>4. Likes[t] = HrNode => (from + j) % n = from
    <3>1. 0 \in F => j = 0
      BY <1>2, <2>1
    <3>2. from % n = from
      BY <1>4, ModBelow
    <3> QED BY <1>2, <1>4, <3>1, <3>2
  <2> QED BY <1>1, <1>2, <2>1, <2>2, <2>3, <2>4
<1> QED BY <1>5, <1>6

\* The round goes on by one place for every task, and the index with it.
LEMMA RoundStep ==
  ASSUME NEW nodes \in Orders(HrNode), NEW out \in Decision, NEW t \in HrTask, out[t] = Undecided,
         NEW i \in 0..Len(nodes)-1, NEW s \in 0..Len(nodes)-1, NEW q \in Nat,
         RoundFrom(out, nodes, s, q, i)
  PROVE  \E r \in Nat : RoundFrom([out EXCEPT ![t] = nodes[i + 1]], nodes, s, r, (i + 1) % Len(nodes))
<1>1. PICK n \in Nat \ {0} : n = Len(nodes)
  BY NodesAre
<1>2. /\ \A p \in 0..n-1 : nodes[p + 1] \in HrNode
      /\ \A p \in 0..n-1 : nodes[p + 1] = nodes[i + 1] => p = i
  <2>1. nodes \in Seq(HrNode) /\ \A j, k \in 1..n : nodes[j] = nodes[k] => j = k
    BY <1>1, NodesAre, Zenon
  <2>2. \A p \in 0..n-1 : p + 1 \in 1..n /\ (p + 1 = i + 1 => p = i)
    BY <1>1
  <2>3. i \in 0..n-1
    BY <1>1
  <2> QED BY <1>1, <2>1, <2>2, <2>3
<1>3. PICK new : new = [out EXCEPT ![t] = nodes[i + 1]]
  OBVIOUS
<1>4. \A p \in 0..n-1 : Cardinality(TasksOn(new, nodes[p + 1]))
                          = Cardinality(TasksOn(out, nodes[p + 1])) + (IF p = i THEN 1 ELSE 0)
  <2>1. nodes[i + 1] \in HrNode
    BY <1>1, <1>2
  <2>2. \A m \in HrNode : Cardinality(TasksOn(new, m))
                            = Cardinality(TasksOn(out, m)) + (IF m = nodes[i + 1] THEN 1 ELSE 0)
    BY <1>3, <2>1, OneTaskMore
  <2> QED BY <1>1, <1>2, <2>2
<1>5. \A p \in 0..n-1 : Cardinality(TasksOn(out, nodes[p + 1])) = IF Passed(s, p, i) THEN q + 1 ELSE q
  BY <1>1, Zenon DEF RoundFrom
<1>6. s \in 0..n-1 /\ i \in 0..n-1 /\ ~Passed(s, i, i)
  BY <1>1, PassedStep
<1>7. CASE (i + 1) % n = s
  <2>1. ASSUME NEW p \in 0..n-1 PROVE (Passed(s, p, i) <=> p # i) /\ ~Passed(s, p, s)
    <3>1. n \in Nat \ {0} /\ s \in 0..n-1 /\ i \in 0..n-1
      BY <1>1, <1>6
    <3>2. ((i + 1) % n = s => (Passed(s, p, i) <=> p # i)) /\ ~Passed(s, p, s)
      BY <3>1, PassedStep, Zenon
    <3> QED BY <1>7, <3>2
  <2>2. ASSUME NEW p \in 0..n-1 PROVE Cardinality(TasksOn(new, nodes[p + 1])) = q + 1
    <3>1. CASE p = i
      <4>1. Cardinality(TasksOn(out, nodes[p + 1])) = q
        BY <1>5, <2>1, <3>1
      <4> QED BY <1>4, <3>1, <4>1
    <3>2. CASE p # i
      <4>1. Cardinality(TasksOn(out, nodes[p + 1])) = q + 1
        BY <1>5, <2>1, <3>2
      <4> QED BY <1>4, <3>2, <4>1
    <3> QED BY <3>1, <3>2
  <2>3. RoundFrom(new, nodes, s, q + 1, (i + 1) % n)
    BY <1>1, <1>7, <2>1, <2>2 DEF RoundFrom
  <2> QED BY <1>1, <1>3, <2>3
<1>8. CASE (i + 1) % n # s
  <2>1. ASSUME NEW p \in 0..n-1 PROVE Passed(s, p, (i + 1) % n) <=> Passed(s, p, i) \/ p = i
    BY <1>6, <1>8, PassedStep
  <2>2. \A p \in 0..n-1 : Cardinality(TasksOn(new, nodes[p + 1])) = IF Passed(s, p, (i + 1) % n) THEN q + 1 ELSE q
    BY <1>4, <1>5, <1>6, <2>1
  <2>3. RoundFrom(new, nodes, s, q, (i + 1) % n)
    BY <1>1, <2>2 DEF RoundFrom
  <2> QED BY <1>1, <1>3, <2>3
<1> QED BY <1>7, <1>8

\* A round is even wherever it stands.
LEMMA RoundIsEven ==
  ASSUME NEW nodes \in Orders(HrNode), NEW out, NEW s, NEW q \in Nat, NEW i,
         RoundFrom(out, nodes, s, q, i), NEW m \in HrNode, NEW n \in HrNode
  PROVE  Cardinality(TasksOn(out, m)) <= Cardinality(TasksOn(out, n)) + 1
<1>1. PICK j \in 1..Len(nodes), k \in 1..Len(nodes) : nodes[j] = m /\ nodes[k] = n
  BY NodesAre
<1>2. /\ j - 1 \in 0..Len(nodes)-1 /\ (j - 1) + 1 = j
      /\ k - 1 \in 0..Len(nodes)-1 /\ (k - 1) + 1 = k
  BY NodesAre
<1>3. Cardinality(TasksOn(out, m)) \in {q, q + 1} /\ Cardinality(TasksOn(out, n)) \in {q, q + 1}
  BY <1>1, <1>2 DEF RoundFrom
<1> QED BY <1>3

\* RoundRobinAlgo gives a node to one task, and moves the index behind it.
LEMMA RoundWriteKeeps == ASSUME HrInv, NEW c \in HrCall, RoundWrite(c) PROVE HrInv'
<1> USE DEF HrInv
<1>1. PICK nodes : nodes = hrCopy[c].nodes
  OBVIOUS
<1>2. PICK t : t = Head(hrTodo[c])
  OBVIOUS
<1>3. PICK i : i = RoundAt(t, hrFrom[c], nodes)
  OBVIOUS
<1>4. PICK v : v = nodes[i + 1]
  OBVIOUS
<1>5. /\ hrAt[c] = "write" /\ hrIndex' = NextIndex(i, Len(nodes))
      /\ hrOut' = [hrOut EXCEPT ![c][t] = v] /\ hrExplain' = [hrExplain EXCEPT ![t] = v]
      /\ hrTodo' = [hrTodo EXCEPT ![c] = Tail(@)]
      /\ hrAt' = [hrAt EXCEPT ![c] = IF Len(hrTodo[c]) = 1 THEN "told" ELSE "read"]
      /\ UNCHANGED <<hrAlgo, hrCopy, hrFrom, hrToldOf, hrAlone>>
  BY <1>1, <1>2, <1>3, <1>4 DEF RoundWrite, HrGoto
<1>6. /\ nodes \in Orders(HrNode) /\ hrCopy[c] \in Copies /\ hrAlgo = "round-robin"
      /\ hrTodo[c] \in Seq(HrTask) /\ hrTodo[c] # <<>> /\ IsInjective(hrTodo[c])
      /\ Len(hrTodo[c]) <= Cardinality(HrTask)
  BY <1>1, <1>5 DEF HrPlaces, HrTypes, Copies
<1>7. Len(nodes) = Cardinality(HrNode) /\ Len(nodes) \in Nat \ {0} /\ \A p \in 1..Len(nodes) : nodes[p] \in HrNode
  BY <1>6, NodesAre
<1>8. PICK rest \in Seq(HrTask) : /\ rest = Tail(hrTodo[c]) /\ IsInjective(rest)
                                  /\ Len(rest) = Len(hrTodo[c]) - 1 /\ ToSet(rest) = ToSet(hrTodo[c]) \ {t}
  BY <1>2, <1>6, TailSet
<1>9. t \in HrTask /\ t \in ToSet(hrTodo[c]) /\ hrOut[c][t] = Undecided
  <2>1. t \in HrTask /\ t \in ToSet(hrTodo[c])
    BY <1>2, <1>6, TailSet
  <2>2. InRound(c)
    BY <1>5 DEF InRound
  <2> QED BY <2>1, <2>2 DEF RoundDecided
<1>10. hrFrom[c] \in 0..Len(nodes)-1
  BY <1>7 DEF HrTypes
<1>11. i \in 0..Len(nodes)-1 /\ (Likes[t] # {} => v \in Likes[t]) /\ (Likes[t] = HrNode => i = hrFrom[c])
  BY <1>3, <1>4, <1>6, <1>9, <1>10, RoundAtIs
<1>12. v \in HrNode
  BY <1>4, <1>7, <1>11
<1>13. hrOut[c] \in Decision /\ [hrOut[c] EXCEPT ![t] = v] \in Decision
  BY <1>9, <1>12 DEF HrTypes, Decision
<1>14. hrOut' = [hrOut EXCEPT ![c] = [hrOut[c] EXCEPT ![t] = v]]
  BY <1>5
<1>15. hrOut'[c] = [hrOut[c] EXCEPT ![t] = v] /\ hrOut' \in [HrCall -> Decision]
  BY <1>13, <1>14 DEF HrTypes
<1>16. hrTodo'[c] = rest /\ hrAt'[c] \in {"told", "read"} /\ (hrAt'[c] = "told" <=> rest = <<>>)
  <2>1. Len(rest) = 0 <=> rest = <<>>
    <3>1. \A w \in Seq(HrTask) : Len(w) = 0 <=> w = <<>>
      OBVIOUS
    <3> QED BY <3>1
  <2> QED BY <1>5, <1>6, <1>8, <2>1 DEF HrTypes
<1>17. \A d \in HrCall \ {c} : Untouched(d)
  <2>1. \A d \in HrCall \ {c} : hrOut'[d] = hrOut[d]
    BY <1>14 DEF HrTypes
  <2> QED BY <1>5, <2>1 DEF Untouched, HrTypes
<1>18. HrTypes'
  <2>1. hrIndex' \in 0..Cardinality(HrNode)-1
    <3>1. i + 1 \in Nat
      BY <1>11
    <3>2. (i + 1) % Len(nodes) \in 0..Len(nodes)-1
      BY <1>7, <3>1, ModIndex
    <3> QED BY <1>5, <1>7, <3>2 DEF NextIndex
  <2>2. hrExplain' \in Decision
    BY <1>5, <1>9, <1>12 DEF HrTypes, Decision
  <2>3. hrTodo' \in [HrCall -> Seq(HrTask)]
    BY <1>5, <1>8 DEF HrTypes
  <2>4. \A d \in HrCall : IsInjective(hrTodo'[d]) /\ Len(hrTodo'[d]) <= Cardinality(HrTask)
    <3>1. Len(rest) <= Cardinality(HrTask)
      BY <1>6, <1>8, SomeNode
    <3> QED BY <1>8, <1>16, <1>17, <3>1 DEF HrTypes, Untouched
  <2>5. hrAt' \in [HrCall -> {"idle", "decide", "read", "write", "told", "returned"}]
    BY <1>5 DEF HrTypes
  <2> QED BY <1>5, <1>15, <2>1, <2>2, <2>3, <2>4, <2>5 DEF HrTypes
<1>19. HrPlaces'
  BY <1>5, <1>6, <1>16, <1>17 DEF HrPlaces, Untouched
<1>20. RoundDecided'
  <2>1. ASSUME NEW u \in HrTask
        PROVE  IF hrAt'[c] = "read" /\ u \in ToSet(rest) THEN hrOut'[c][u] = Undecided
               ELSE hrOut'[c][u] \in HrNode /\ (Likes[u] # {} => hrOut'[c][u] \in Likes[u])
    <3>1. CASE u = t
      <4>1. hrOut'[c][u] = v /\ u \notin ToSet(rest)
        BY <1>8, <1>9, <1>13, <1>15, <3>1 DEF Decision
      <4> QED BY <1>11, <1>12, <3>1, <4>1
    <3>2. CASE u # t
      <4>1. hrOut'[c][u] = hrOut[c][u] /\ (u \in ToSet(rest) <=> u \in ToSet(hrTodo[c]))
        BY <1>8, <1>13, <1>15, <3>2 DEF Decision
      <4>2. InRound(c)
        BY <1>5 DEF InRound
      <4>3. hrAt'[c] # "read" => u \notin ToSet(rest)
        <5>1. rest = <<>> => ToSet(rest) = {}
          BY DEF ToSet
        <5> QED BY <1>16, <5>1
      <4> QED BY <4>1, <4>2, <4>3 DEF RoundDecided
    <3> QED BY <3>1, <3>2
  <2>2. /\ InRound(c)' <=> hrAt'[c] = "read"
        /\ \A d \in HrCall \ {c} : (InRound(d)' <=> InRound(d)) /\ (Done(d)' <=> Done(d))
    BY <1>16, <1>17 DEF InRound, Done, Untouched
  <2> QED BY <1>5, <1>16, <1>17, <2>1, <2>2 DEF RoundDecided, Untouched
<1>21. LearnedWhereLiked' /\ DecidesAsAlone'
  BY <1>5, <1>6 DEF LearnedWhereLiked, DecidesAsAlone
<1>22. AloneInUse'
  BY <1>5, <1>16, <1>17 DEF AloneInUse, Untouched, Unused
<1>23. \A d \in HrCall \ {c} : hrAlone'[d] => hrAt'[d] \notin {"read", "write", "told"}
  BY <1>5, <1>17 DEF AloneInUse, Untouched, Unused
<1>24. OwnExplained'
  <2>1. ASSUME hrAlone[c], NEW u \in HrTask, hrOut'[c][u] # Undecided PROVE hrExplain'[u] = hrOut'[c][u]
    <3>1. CASE u = t
      BY <1>5, <1>9, <1>13, <1>15, <3>1 DEF HrTypes, Decision
    <3>2. CASE u # t
      <4>1. hrOut'[c][u] = hrOut[c][u] /\ hrExplain'[u] = hrExplain[u]
        BY <1>5, <1>13, <1>15, <3>2 DEF HrTypes, Decision
      <4> QED BY <1>5, <2>1, <4>1 DEF OwnExplained
    <3> QED BY <3>1, <3>2
  <2> QED BY <1>5, <1>16, <1>23, <2>1 DEF OwnExplained
<1>25. ExplainsItsDecision'
  BY <1>16, <1>17 DEF ExplainsItsDecision, Untouched
<1>26. ASSUME hrAlone[c], \A u \in HrTask : Likes[u] = HrNode
       PROVE  \E s \in 0..Cardinality(HrNode)-1, q \in Nat : RoundFrom(hrOut'[c], nodes, s, q, hrIndex')
  <2>1. i = hrIndex
    BY <1>5, <1>9, <1>11, <1>26 DEF OwnExplained
  <2>2. PICK s \in 0..Cardinality(HrNode)-1, q \in Nat : RoundFrom(hrOut[c], nodes, s, q, i)
    <3>1. InRound(c)
      BY <1>5 DEF InRound
    <3> QED BY <1>1, <1>6, <1>26, <2>1, <3>1 DEF RoundGoesOn
  <2>3. \E r \in Nat : RoundFrom([hrOut[c] EXCEPT ![t] = nodes[i + 1]], nodes, s, r, (i + 1) % Len(nodes))
    BY <1>6, <1>7, <1>9, <1>11, <1>13, <2>2, RoundStep
  <2> QED BY <1>4, <1>5, <1>15, <2>3 DEF NextIndex
<1>27. RoundGoesOn'
  <2>1. hrCopy'[c].nodes = nodes /\ hrAlone'[c] = hrAlone[c]
    BY <1>1, <1>5
  <2> QED BY <1>23, <1>26, <2>1 DEF RoundGoesOn, InRound
<1>28. RoundsAreEven'
  <2>1. ASSUME hrAlone[c], \A u \in HrTask : Likes[u] = HrNode, NEW m \in HrNode, NEW n \in HrNode
        PROVE  Cardinality(TasksOn(hrOut'[c], m)) <= Cardinality(TasksOn(hrOut'[c], n)) + 1
    <3>1. PICK s \in 0..Cardinality(HrNode)-1, q \in Nat : RoundFrom(hrOut'[c], nodes, s, q, hrIndex')
      BY <1>26, <2>1
    <3> QED BY <1>6, <3>1, RoundIsEven
  <2>2. \A d \in HrCall \ {c} : Done(d)' <=> Done(d)
    BY <1>17 DEF Done, Untouched
  <2> QED BY <1>5, <1>17, <2>1, <2>2 DEF RoundsAreEven, Untouched
<1> QED BY <1>18, <1>19, <1>20, <1>21, <1>22, <1>24, <1>25, <1>27, <1>28

\* Every step keeps the invariant.
LEMMA HrStep == HrInv /\ [HrNext]_hrVars => HrInv'
<1> SUFFICES ASSUME HrInv, [HrNext]_hrVars PROVE HrInv'
  OBVIOUS
<1>1. CASE HrNext
  BY <1>1, HrCopyKeeps, HrDecideKeeps, RoundReadKeeps, RoundWriteKeeps, HrToldKeeps, HrAgainKeeps DEF HrNext
<1>2. CASE UNCHANGED hrVars
  BY <1>2 DEF hrVars, HrInv, HrTypes, HrPlaces, RoundDecided, LearnedWhereLiked, AloneInUse,
     OwnExplained, RoundGoesOn, DecidesAsAlone, RoundsAreEven, ExplainsItsDecision,
     Done, InRound, Unused
<1> QED BY <1>1, <1>2

\* With it, every decision has the types and what it is to be.
LEMMA HrHolds == HrInv => HrTypeOK /\ DecidesAsAlone /\ RoundsAreEven /\ ExplainsItsDecision
<1> SUFFICES ASSUME HrInv PROVE HrTypeOK
  BY DEF HrInv
<1> USE DEF HrInv, HrTypes
<1>1. \A c \in HrCall : hrCopy[c] = NoCopy
                        \/ (hrCopy[c].free \in FreeOn /\ hrCopy[c].nodes \in Orders(HrNode))
  BY DEF Copies
<1>2. hrTodo \in [HrCall -> UNION {[1..k -> HrTask] : k \in 0..Cardinality(HrTask)}]
  <2>1. ASSUME NEW c \in HrCall
        PROVE  hrTodo[c] \in UNION {[1..k -> HrTask] : k \in 0..Cardinality(HrTask)}
    <3>1. PICK k \in 0..Cardinality(HrTask) : k = Len(hrTodo[c])
      BY SomeNode
    <3>2. hrTodo[c] \in [1..k -> HrTask]
      BY <3>1
    <3> QED BY <3>2
  <2> QED BY <2>1
<1> QED BY <1>1, <1>2 DEF HrTypeOK, Decision

\* What RoundRobinAlgo and LearningAlgo do about the affinity of a task.
AffinityKept ==
  \A c \in HrCall : Done(c) /\ hrAlgo \in {"round-robin", "learning"} =>
    \A t \in HrTask :
      /\ Likes[t] # {} => hrOut[c][t] \in Likes[t]
      /\ Likes[t] = {} => (hrOut[c][t] = Undecided <=> hrAlgo = "learning")

\* A task that some node admits gets one that does, from a round as well, however
\* the calls that share the index overlap; only the round of RoundRobinAlgo gives a
\* node to a task that none admits.
THEOREM AffinityKeptAlways == HrSpec => []AffinityKept
<1>1. HrInv => AffinityKept
  <2>1. Undecided \notin HrNode
    BY HeuristicsAssumption, Zenon DEF Undecided
  <2> QED BY <2>1 DEF HrInv, AffinityKept, RoundDecided, LearnedWhereLiked, Done, InRound
<1> QED BY <1>1, HrInitInv, HrStep, PTL DEF HrSpec

(***************************************************************************)
(* Quantum: the jobs                                                       *)
(***************************************************************************)
QjTypes ==
  /\ QjTypeOK
  /\ qjPollOf \in [QuantumPoll -> QuantumJob \cup {NoQuantum}]
  /\ qjPollResult \in [QuantumPoll -> {NoQuantum, "result"}]
  /\ qjPollStatus \in [QuantumPoll -> {NoQuantum, "pending", "running", "done", "failed"}]
  /\ qjPollLate \in [QuantumPoll -> BOOLEAN]

\* An id leads to a job submitted under it, and a goroutine works on one that has
\* the id of its own.
QjLeads ==
  /\ \A i \in 1..MaxInstant : qjTable[i] # NoQuantum => qjId[qjTable[i]] = i
  /\ \A j \in QuantumJob :
       /\ qjId[j] = 0 <=> qjAt[j] = "none"
       /\ qjId[j] # 0 => qjTable[qjId[j]] # NoQuantum
       /\ qjAt[j] \in {"chooses", "runs", "ended"} => qjOn[j] # NoQuantum /\ qjId[qjOn[j]] = qjId[j]

\* A job alone under its id is settled exactly when its goroutine has ended, and done
\* only with its result.
QjOutcome ==
  \A j \in QuantumJob :
    /\ qjId[j] = 0 => qjStatus[j] = "pending"
    /\ qjId[j] # 0 /\ Alone(j) =>
         /\ Settled(j) <=> qjAt[j] = "ended"
         /\ qjStatus[j] = "done" => qjResult[j] = "result"

\* What a late poll has read of a job alone under its id is still so.
QjRead ==
  \A p \in QuantumPoll : qjPollAt[p] # "none" =>
    /\ qjPollOf[p] # NoQuantum /\ qjId[qjPollOf[p]] # 0
    /\ qjPollLate[p] /\ Alone(qjPollOf[p]) =>
         /\ Settled(qjPollOf[p])
         /\ qjPollAt[p] \in {"status", "ended"} => qjPollResult[p] = qjResult[qjPollOf[p]]
         /\ qjPollAt[p] = "ended" => qjPollStatus[p] = qjStatus[qjPollOf[p]]

QjInv == QjTypes /\ QjLeads /\ QjOutcome /\ QjRead

\* The word for no job is no job.
LEMMA NoQuantumJob == NoQuantum \notin QuantumJob
BY QuantumAssumption, Zenon DEF NoQuantum

\* The initial state has the invariant.
LEMMA QjInitInv == QjInit => QjInv
<1> SUFFICES ASSUME QjInit PROVE QjInv
  OBVIOUS
<1>1. QjTypes
  BY QuantumAssumption DEF QjInit, QjTypes, QjTypeOK, NoQuantum, Local, Surrogate
<1>2. QjLeads /\ QjRead
  BY NoQuantumJob DEF QjInit, QjLeads, QjRead
<1>3. QjOutcome
  BY DEF QjInit, QjOutcome
<1> QED BY <1>1, <1>2, <1>3 DEF QjInv

\* A goroutine works on a job alone under its id only when it is the job's own.
LEMMA OwnGoroutine ==
  ASSUME QjInv, NEW j \in QuantumJob, NEW o \in QuantumJob, Alone(o)
  PROVE  /\ qjAt[j] \in {"chooses", "runs", "ended"} /\ qjOn[j] = o => j = o
         /\ qjAt[j] = "begins" /\ qjTable[qjId[j]] = o => j = o
<1>1. qjAt[j] \in {"chooses", "runs", "ended"} /\ qjOn[j] = o => qjId[j] = qjId[o]
  BY DEF QjInv, QjLeads
<1>2. qjAt[j] = "begins" => qjId[j] \in 1..MaxInstant
  BY QuantumAssumption DEF QjInv, QjLeads, QjTypes, QjTypeOK
<1>3. qjAt[j] = "begins" /\ qjTable[qjId[j]] = o => qjId[j] = qjId[o]
  BY <1>2, NoQuantumJob DEF QjInv, QjLeads
<1>4. j # o => qjId[j] # qjId[o]
  BY DEF Alone
<1> QED BY <1>1, <1>3, <1>4

\* The clock, the backends and the contexts: nothing that the invariant speaks of.
LEMMA QjQuiet ==
  ASSUME QjInv, QjTypeOK', UNCHANGED <<qjId, qjTable, qjFields, qjRun, qjPolls>>
  PROVE  QjInv'
<1>1. /\ qjId' = qjId /\ qjTable' = qjTable /\ qjStatus' = qjStatus /\ qjResult' = qjResult
      /\ qjAt' = qjAt /\ qjOn' = qjOn /\ qjPollOf' = qjPollOf /\ qjPollAt' = qjPollAt
      /\ qjPollResult' = qjPollResult /\ qjPollStatus' = qjPollStatus /\ qjPollLate' = qjPollLate
  BY DEF qjFields, qjRun, qjPolls
<1>2. QjTypes'
  BY <1>1 DEF QjInv, QjTypes
<1>3. QjLeads'
  BY <1>1 DEF QjInv, QjLeads
<1>4. QjOutcome' /\ QjRead'
  BY <1>1 DEF QjInv, QjOutcome, QjRead, Settled, Alone
<1> QED BY <1>2, <1>3, <1>4 DEF QjInv

\* A submission takes its id, and the entry of whoever had the instant.
LEMMA SubmitJobKeeps == ASSUME QjInv, NEW j \in QuantumJob, SubmitJob(j) PROVE QjInv'
<1>1. /\ qjId[j] = 0 /\ qjId' = [qjId EXCEPT ![j] = qjClock]
      /\ qjTable' = [qjTable EXCEPT ![qjClock] = j] /\ qjAt' = [qjAt EXCEPT ![j] = "begins"]
      /\ qjClock' = qjClock /\ qjContext' = qjContext /\ qjOn' = qjOn /\ qjBackends' = qjBackends
      /\ qjStatus' = qjStatus /\ qjResult' = qjResult /\ qjBackend' = qjBackend
      /\ qjPollOf' = qjPollOf /\ qjPollAt' = qjPollAt /\ qjPollResult' = qjPollResult
      /\ qjPollStatus' = qjPollStatus /\ qjPollLate' = qjPollLate
  BY DEF SubmitJob, qjFields, qjPolls
<1>2. QjTypes /\ QjTypeOK /\ qjClock \in 1..MaxInstant /\ MaxInstant \in Nat \ {0} /\ qjClock # 0
  BY QuantumAssumption DEF QjInv, QjTypes, QjTypeOK
<1>3. QjTypes'
  <2>1. /\ qjId' \in [QuantumJob -> 0..MaxInstant]
        /\ qjAt' \in [QuantumJob -> {"none", "begins", "chooses", "runs", "ended"}]
        /\ qjTable' \in [1..MaxInstant -> QuantumJob \cup {NoQuantum}]
    BY <1>1, <1>2 DEF QjTypeOK
  <2> QED BY <1>1, <1>2, <2>1 DEF QjTypes, QjTypeOK
<1>4. /\ qjId'[j] = qjClock /\ qjAt'[j] = "begins" /\ qjTable'[qjClock] = j
      /\ \A k \in QuantumJob \ {j} : qjId'[k] = qjId[k] /\ qjAt'[k] = qjAt[k]
      /\ \A i \in 1..MaxInstant : i # qjClock => qjTable'[i] = qjTable[i]
  BY <1>1, <1>2 DEF QjTypeOK
<1>5. ASSUME NEW k \in QuantumJob, qjId[k] # 0, Alone(k)' PROVE Alone(k)
  BY <1>1, <1>4, <1>5 DEF Alone
<1>6. QjLeads'
  <2>1. ASSUME NEW i \in 1..MaxInstant, qjTable'[i] # NoQuantum PROVE qjId'[qjTable'[i]] = i
    <3>1. CASE i = qjClock
      BY <1>4, <3>1
    <3>2. CASE i # qjClock
      <4>1. qjTable'[i] = qjTable[i] /\ qjTable[i] \in QuantumJob /\ qjId[qjTable[i]] = i /\ i # 0
        BY <1>2, <1>4, <2>1, <3>2 DEF QjInv, QjLeads, QjTypeOK
      <4> QED BY <1>1, <1>4, <4>1
    <3> QED BY <3>1, <3>2
  <2>2. ASSUME NEW k \in QuantumJob
        PROVE  /\ qjId'[k] = 0 <=> qjAt'[k] = "none"
               /\ qjId'[k] # 0 => qjTable'[qjId'[k]] # NoQuantum
    <3>1. CASE k = j
      BY <1>2, <1>4, <3>1, NoQuantumJob
    <3>2. CASE k # j
      <4>1. qjId'[k] = qjId[k] /\ qjAt'[k] = qjAt[k] /\ qjId[k] \in 0..MaxInstant
        BY <1>2, <1>4, <3>2 DEF QjTypeOK
      <4>2. /\ qjId[k] = 0 <=> qjAt[k] = "none"
            /\ qjId[k] # 0 => qjTable[qjId[k]] # NoQuantum
        BY DEF QjInv, QjLeads
      <4>3. qjId[k] # 0 => qjId[k] \in 1..MaxInstant
        BY <1>2, <4>1
      <4>4. qjId[k] # 0 => qjTable'[qjId[k]] # NoQuantum
        BY <1>4, <4>2, <4>3, NoQuantumJob
      <4> QED BY <4>1, <4>2, <4>4
    <3> QED BY <3>1, <3>2
  <2>3. ASSUME NEW k \in QuantumJob, qjAt'[k] \in {"chooses", "runs", "ended"}
        PROVE  qjOn'[k] # NoQuantum /\ qjId'[qjOn'[k]] = qjId'[k]
    <3>1. k # j /\ qjAt[k] \in {"chooses", "runs", "ended"} /\ qjId'[k] = qjId[k]
      BY <1>4, <2>3
    <3>2. qjOn[k] # NoQuantum /\ qjId[qjOn[k]] = qjId[k] /\ qjId[k] # 0 /\ qjOn[k] \in QuantumJob
      BY <1>2, <3>1 DEF QjInv, QjLeads, QjTypeOK
    <3> QED BY <1>1, <1>4, <3>1, <3>2
  <2> QED BY <2>1, <2>2, <2>3 DEF QjLeads
<1>7. QjOutcome'
  <2> SUFFICES ASSUME NEW k \in QuantumJob
               PROVE  /\ qjId'[k] = 0 => qjStatus[k] = "pending"
                      /\ qjId'[k] # 0 /\ Alone(k)' => /\ Settled(k) <=> qjAt'[k] = "ended"
                                                      /\ qjStatus[k] = "done" => qjResult[k] = "result"
    BY <1>1 DEF QjOutcome, Settled
  <2>1. CASE k = j
    BY <1>1, <1>2, <1>4, <2>1 DEF QjInv, QjOutcome, Settled
  <2>2. CASE k # j
    BY <1>4, <1>5, <2>2 DEF QjInv, QjOutcome
  <2> QED BY <2>1, <2>2
<1>8. QjRead'
  <2> SUFFICES ASSUME NEW p \in QuantumPoll, qjPollAt[p] # "none"
               PROVE  /\ qjPollOf[p] # NoQuantum /\ qjId'[qjPollOf[p]] # 0
                      /\ qjPollLate[p] /\ Alone(qjPollOf[p])' =>
                           /\ Settled(qjPollOf[p])
                           /\ qjPollAt[p] \in {"status", "ended"} => qjPollResult[p] = qjResult[qjPollOf[p]]
                           /\ qjPollAt[p] = "ended" => qjPollStatus[p] = qjStatus[qjPollOf[p]]
    BY <1>1 DEF QjRead, Settled, Alone
  <2>1. qjPollOf[p] \in QuantumJob /\ qjPollOf[p] # NoQuantum /\ qjId[qjPollOf[p]] # 0
    BY DEF QjInv, QjRead, QjTypes
  <2>2. qjId'[qjPollOf[p]] # 0
    BY <1>1, <1>4, <2>1
  <2>3. Alone(qjPollOf[p])' => Alone(qjPollOf[p])
    BY <1>1, <1>4, <2>1 DEF Alone
  <2> QED BY <2>1, <2>2, <2>3 DEF QjInv, QjRead
<1> QED BY <1>3, <1>6, <1>7, <1>8 DEF QjInv

\* A step that sets the status and the result of the job o that a goroutine works
\* on: FindJob and Settle.
LEMMA WorkKeeps ==
  ASSUME QjInv, QjTypes', UNCHANGED <<qjId, qjTable, qjPolls>>,
         NEW j \in QuantumJob, NEW o \in QuantumJob, qjId[j] # 0, qjId[o] = qjId[j],
         Alone(o) => j = o, Alone(o) => qjAt[o] # "ended",
         qjAt[j] # "none", qjAt'[j] # "none",
         \A k \in QuantumJob \ {j} : qjAt'[k] = qjAt[k] /\ qjOn'[k] = qjOn[k],
         qjOn'[j] = o,
         \A k \in QuantumJob \ {o} : qjStatus'[k] = qjStatus[k] /\ qjResult'[k] = qjResult[k],
         qjStatus'[o] \in {"done", "failed"} <=> qjAt'[j] = "ended",
         qjStatus'[o] = "done" => qjResult'[o] = "result"
  PROVE  QjInv'
<1>1. /\ qjId' = qjId /\ qjTable' = qjTable /\ qjPollOf' = qjPollOf /\ qjPollAt' = qjPollAt
      /\ qjPollResult' = qjPollResult /\ qjPollStatus' = qjPollStatus /\ qjPollLate' = qjPollLate
  BY DEF qjPolls
<1>2. QjLeads'
  <2>1. \A i \in 1..MaxInstant : qjTable'[i] # NoQuantum => qjId'[qjTable'[i]] = i
    BY <1>1 DEF QjInv, QjLeads
  <2>2. ASSUME NEW k \in QuantumJob
        PROVE  /\ qjId'[k] = 0 <=> qjAt'[k] = "none"
               /\ qjId'[k] # 0 => qjTable'[qjId'[k]] # NoQuantum
               /\ qjAt'[k] \in {"chooses", "runs", "ended"} =>
                    qjOn'[k] # NoQuantum /\ qjId'[qjOn'[k]] = qjId'[k]
    <3>1. CASE k = j
      BY <1>1, <3>1, NoQuantumJob DEF QjInv, QjLeads
    <3>2. CASE k # j
      BY <1>1, <3>2 DEF QjInv, QjLeads
    <3> QED BY <3>1, <3>2
  <2> QED BY <2>1, <2>2 DEF QjLeads
<1>3. QjOutcome'
  <2> SUFFICES ASSUME NEW k \in QuantumJob
               PROVE  /\ qjId[k] = 0 => qjStatus'[k] = "pending"
                      /\ qjId[k] # 0 /\ Alone(k) =>
                           /\ qjStatus'[k] \in {"done", "failed"} <=> qjAt'[k] = "ended"
                           /\ qjStatus'[k] = "done" => qjResult'[k] = "result"
    BY <1>1 DEF QjOutcome, Settled, Alone
  <2>1. CASE k = o
    BY <2>1
  <2>2. CASE k # o
    <3>1. Alone(k) /\ qjId[k] # 0 => k # j
      BY <2>2 DEF Alone
    <3>2. k # j => qjAt'[k] = qjAt[k]
      OBVIOUS
    <3> QED BY <2>2, <3>1, <3>2 DEF QjInv, QjOutcome, Settled
  <2> QED BY <2>1, <2>2
<1>4. QjRead'
  <2> SUFFICES ASSUME NEW p \in QuantumPoll, qjPollAt[p] # "none"
               PROVE  /\ qjPollOf[p] # NoQuantum /\ qjId[qjPollOf[p]] # 0
                      /\ qjPollLate[p] /\ Alone(qjPollOf[p]) =>
                           /\ qjStatus'[qjPollOf[p]] \in {"done", "failed"}
                           /\ qjPollAt[p] \in {"status", "ended"} => qjPollResult[p] = qjResult'[qjPollOf[p]]
                           /\ qjPollAt[p] = "ended" => qjPollStatus[p] = qjStatus'[qjPollOf[p]]
    BY <1>1 DEF QjRead, Settled, Alone
  <2>1. qjPollOf[p] \in QuantumJob /\ qjPollOf[p] # NoQuantum /\ qjId[qjPollOf[p]] # 0
    BY DEF QjInv, QjRead, QjTypes
  <2>2. qjPollLate[p] /\ Alone(qjPollOf[p]) => Settled(qjPollOf[p])
    BY DEF QjInv, QjRead
  <2>3. qjPollLate[p] /\ Alone(qjPollOf[p]) => qjPollOf[p] # o
    BY <2>1, <2>2 DEF QjInv, QjOutcome
  <2> QED BY <2>1, <2>2, <2>3 DEF QjInv, QjRead, Settled
<1> QED BY <1>2, <1>3, <1>4 DEF QjInv

\* runJob finds the job its id leads to and marks it running.
LEMMA FindJobKeeps == ASSUME QjInv, NEW j \in QuantumJob, FindJob(j) PROVE QjInv'
<1>1. PICK o : o = qjTable[qjId[j]]
  OBVIOUS
<1>2. /\ qjAt[j] = "begins" /\ qjOn' = [qjOn EXCEPT ![j] = o]
      /\ qjStatus' = [qjStatus EXCEPT ![o] = "running"] /\ qjAt' = [qjAt EXCEPT ![j] = "chooses"]
      /\ UNCHANGED <<qjId, qjTable, qjPolls>> /\ qjId' = qjId /\ qjTable' = qjTable
      /\ qjClock' = qjClock /\ qjContext' = qjContext /\ qjResult' = qjResult
      /\ qjBackend' = qjBackend /\ qjBackends' = qjBackends /\ qjPollAt' = qjPollAt
      /\ qjPollOf' = qjPollOf /\ qjPollResult' = qjPollResult /\ qjPollStatus' = qjPollStatus
      /\ qjPollLate' = qjPollLate
  BY <1>1 DEF FindJob, qjJobs, qjPolls
<1>3. QjTypes /\ QjTypeOK
  BY DEF QjInv, QjTypes
<1>4. qjId[j] # 0 /\ qjId[j] \in 1..MaxInstant
  BY <1>2, <1>3, QuantumAssumption DEF QjInv, QjLeads, QjTypeOK
<1>5. o \in QuantumJob /\ qjId[o] = qjId[j]
  BY <1>1, <1>3, <1>4 DEF QjInv, QjLeads, QjTypeOK
<1>6. Alone(o) => j = o
  BY <1>1, <1>2, <1>5, OwnGoroutine
<1>7. /\ qjOn' \in [QuantumJob -> QuantumJob \cup {NoQuantum}]
      /\ qjStatus' \in [QuantumJob -> {"pending", "running", "done", "failed"}]
      /\ qjAt' \in [QuantumJob -> {"none", "begins", "chooses", "runs", "ended"}]
  BY <1>2, <1>3, <1>5 DEF QjTypeOK
<1>8. QjTypes'
  BY <1>2, <1>3, <1>7 DEF QjTypes, QjTypeOK
<1>9. /\ qjAt'[j] = "chooses" /\ qjOn'[j] = o /\ qjStatus'[o] = "running"
      /\ \A k \in QuantumJob \ {j} : qjAt'[k] = qjAt[k] /\ qjOn'[k] = qjOn[k]
      /\ \A k \in QuantumJob \ {o} : qjStatus'[k] = qjStatus[k] /\ qjResult'[k] = qjResult[k]
  BY <1>2, <1>3, <1>5 DEF QjTypeOK
<1> QED BY <1>2, <1>4, <1>5, <1>6, <1>8, <1>9, WorkKeeps

\* The choice of a backend touches nothing that a poll sees.
LEMMA ChooseBackendKeeps == ASSUME QjInv, NEW j \in QuantumJob, ChooseBackend(j) PROVE QjInv'
<1>1. PICK o : o = qjOn[j]
  OBVIOUS
<1>2. PICK b \in BackendChoices(o) : qjBackend' = [qjBackend EXCEPT ![o] = b]
  BY <1>1 DEF ChooseBackend
<1>3. /\ qjAt[j] = "chooses" /\ qjAt' = [qjAt EXCEPT ![j] = "runs"]
      /\ qjId' = qjId /\ qjTable' = qjTable /\ qjClock' = qjClock /\ qjContext' = qjContext
      /\ qjStatus' = qjStatus /\ qjResult' = qjResult /\ qjOn' = qjOn /\ qjBackends' = qjBackends
      /\ qjPollAt' = qjPollAt /\ qjPollOf' = qjPollOf /\ qjPollResult' = qjPollResult
      /\ qjPollStatus' = qjPollStatus /\ qjPollLate' = qjPollLate
  BY DEF ChooseBackend, qjJobs, qjPolls
<1>4. QjTypes /\ QjTypeOK
  BY DEF QjInv, QjTypes
<1>5. b \in {NoQuantum, Surrogate, Added}
  BY <1>4 DEF BackendChoices, QjTypeOK
<1>6. qjBackend' \in [QuantumJob -> {NoQuantum, Surrogate, Added}]
  BY <1>2, <1>4, <1>5 DEF QjTypeOK
<1>7. /\ qjAt' \in [QuantumJob -> {"none", "begins", "chooses", "runs", "ended"}]
      /\ qjAt'[j] = "runs" /\ \A k \in QuantumJob \ {j} : qjAt'[k] = qjAt[k]
  BY <1>3, <1>4 DEF QjTypeOK
<1>8. QjTypes'
  BY <1>3, <1>4, <1>6, <1>7 DEF QjTypes, QjTypeOK
<1>9. QjLeads'
  <2>1. \A i \in 1..MaxInstant : qjTable'[i] # NoQuantum => qjId'[qjTable'[i]] = i
    BY <1>3 DEF QjInv, QjLeads
  <2>2. ASSUME NEW k \in QuantumJob
        PROVE  /\ qjId'[k] = 0 <=> qjAt'[k] = "none"
               /\ qjId'[k] # 0 => qjTable'[qjId'[k]] # NoQuantum
               /\ qjAt'[k] \in {"chooses", "runs", "ended"} =>
                    qjOn'[k] # NoQuantum /\ qjId'[qjOn'[k]] = qjId'[k]
    BY <1>3, <1>7 DEF QjInv, QjLeads
  <2> QED BY <2>1, <2>2 DEF QjLeads
<1>10. QjOutcome'
  <2>1. \A k \in QuantumJob : qjAt'[k] = "ended" <=> qjAt[k] = "ended"
    BY <1>3, <1>7
  <2> QED BY <1>3, <2>1 DEF QjInv, QjOutcome, Settled, Alone
<1>11. QjRead'
  BY <1>3 DEF QjInv, QjRead, Settled, Alone
<1> QED BY <1>8, <1>9, <1>10, <1>11 DEF QjInv

\* The outcome is stored, the result with it when the job is done.
LEMMA SettleKeeps ==
  ASSUME QjInv, NEW j \in QuantumJob, NEW outcome \in {"done", "failed"}, Settle(j, outcome)
  PROVE  QjInv'
<1>1. PICK o, r : /\ o = qjOn[j]
                  /\ r = IF outcome = "done" THEN Kept(o, outcome) ELSE qjResult[o]
  OBVIOUS
<1>2. /\ qjAt[j] = "runs" /\ qjStatus' = [qjStatus EXCEPT ![o] = outcome]
      /\ qjResult' = [qjResult EXCEPT ![o] = r] /\ qjAt' = [qjAt EXCEPT ![j] = "ended"]
      /\ UNCHANGED <<qjId, qjTable, qjPolls>> /\ qjId' = qjId /\ qjTable' = qjTable
      /\ qjClock' = qjClock /\ qjContext' = qjContext /\ qjOn' = qjOn
      /\ qjBackend' = qjBackend /\ qjBackends' = qjBackends /\ qjPollAt' = qjPollAt
      /\ qjPollOf' = qjPollOf /\ qjPollResult' = qjPollResult /\ qjPollStatus' = qjPollStatus
      /\ qjPollLate' = qjPollLate
  BY <1>1 DEF Settle, Stored, qjJobs, qjPolls
<1>3. QjTypes /\ QjTypeOK
  BY DEF QjInv, QjTypes
<1>4. qjId[j] # 0
  BY <1>2 DEF QjInv, QjLeads
<1>5. o \in QuantumJob /\ qjId[o] = qjId[j]
  BY <1>1, <1>2, <1>3 DEF QjInv, QjLeads, QjTypeOK
<1>6. Alone(o) => j = o
  BY <1>1, <1>2, <1>5, OwnGoroutine
<1>7. r \in {NoQuantum, "result"} /\ (outcome = "done" => r = "result")
  BY <1>1, <1>3, <1>5 DEF Kept, QjTypeOK
<1>8. /\ qjResult' \in [QuantumJob -> {NoQuantum, "result"}]
      /\ qjStatus' \in [QuantumJob -> {"pending", "running", "done", "failed"}]
      /\ qjAt' \in [QuantumJob -> {"none", "begins", "chooses", "runs", "ended"}]
  BY <1>2, <1>3, <1>5, <1>7 DEF QjTypeOK
<1>9. QjTypes'
  BY <1>2, <1>3, <1>8 DEF QjTypes, QjTypeOK
<1>10. /\ qjAt'[j] = "ended" /\ qjOn'[j] = o /\ qjStatus'[o] = outcome /\ qjResult'[o] = r
       /\ \A k \in QuantumJob \ {j} : qjAt'[k] = qjAt[k] /\ qjOn'[k] = qjOn[k]
       /\ \A k \in QuantumJob \ {o} : qjStatus'[k] = qjStatus[k] /\ qjResult'[k] = qjResult[k]
  BY <1>1, <1>2, <1>3, <1>5 DEF QjTypeOK
<1>11. qjAt'[j] # "none" /\ qjAt[j] # "none"
  BY <1>2, <1>10
<1>12. Alone(o) => qjAt[o] # "ended"
  BY <1>2, <1>6
<1>13. qjStatus'[o] \in {"done", "failed"} <=> qjAt'[j] = "ended"
  BY <1>10
<1> QED BY <1>2, <1>4, <1>5, <1>6, <1>7, <1>9, <1>10, <1>11, <1>12, <1>13, WorkKeeps

\* GetJob: a late look-up finds a job that stays as it is.
LEMMA PollQuantumKeeps ==
  ASSUME QjInv, NEW p \in QuantumPoll, NEW i \in 1..MaxInstant, PollQuantum(p, i)
  PROVE  QjInv'
<1>1. PICK o : o = qjTable[i]
  OBVIOUS
<1>2. /\ qjTable[i] # NoQuantum /\ qjPollOf' = [qjPollOf EXCEPT ![p] = o]
      /\ qjPollLate' = [qjPollLate EXCEPT ![p] = Settled(o)]
      /\ qjPollAt' = [qjPollAt EXCEPT ![p] = "result"]
      /\ qjId' = qjId /\ qjTable' = qjTable /\ qjClock' = qjClock /\ qjContext' = qjContext
      /\ qjStatus' = qjStatus /\ qjResult' = qjResult /\ qjBackend' = qjBackend
      /\ qjAt' = qjAt /\ qjOn' = qjOn /\ qjBackends' = qjBackends
      /\ qjPollResult' = qjPollResult /\ qjPollStatus' = qjPollStatus
  BY <1>1 DEF PollQuantum, qjJobs, qjFields, qjRun
<1>3. QjTypes /\ QjTypeOK
  BY DEF QjInv, QjTypes
<1>4. o \in QuantumJob /\ o # NoQuantum /\ qjId[o] = i /\ i # 0
  BY <1>1, <1>2, <1>3, QuantumAssumption DEF QjInv, QjLeads, QjTypeOK
<1>5. /\ qjPollOf' \in [QuantumPoll -> QuantumJob \cup {NoQuantum}]
      /\ qjPollAt' \in [QuantumPoll -> {"none", "result", "status", "ended"}]
  BY <1>2, <1>3, <1>4 DEF QjTypes, QjTypeOK
<1>6. qjPollLate' \in [QuantumPoll -> BOOLEAN] /\ (qjPollLate'[p] => Settled(o))
  <2>1. Settled(o) \in BOOLEAN
    BY DEF Settled
  <2>2. qjPollLate \in [QuantumPoll -> BOOLEAN]
    BY <1>3 DEF QjTypes
  <2>3. qjPollLate'[p] = Settled(o)
    BY <1>2, <2>2, Zenon
  <2>4. qjPollLate' \in [QuantumPoll -> BOOLEAN]
    BY <1>2, <2>1, <2>2, Zenon
  <2> QED BY <2>3, <2>4
<1>7. /\ qjPollAt'[p] = "result" /\ qjPollOf'[p] = o
      /\ \A q \in QuantumPoll \ {p} : /\ qjPollAt'[q] = qjPollAt[q] /\ qjPollOf'[q] = qjPollOf[q]
                                      /\ qjPollLate'[q] <=> qjPollLate[q]
  BY <1>2, <1>3, <1>4 DEF QjTypes, QjTypeOK
<1>8. QjTypes'
  BY <1>2, <1>3, <1>5, <1>6 DEF QjTypes, QjTypeOK
<1>9. QjLeads' /\ QjOutcome'
  BY <1>2 DEF QjInv, QjLeads, QjOutcome, Settled, Alone
<1>10. QjRead'
  <2> SUFFICES ASSUME NEW q \in QuantumPoll, qjPollAt'[q] # "none"
               PROVE  /\ qjPollOf'[q] # NoQuantum /\ qjId[qjPollOf'[q]] # 0
                      /\ qjPollLate'[q] /\ (\A k \in QuantumJob \ {qjPollOf'[q]} : qjId[k] # qjId[qjPollOf'[q]]) =>
                           /\ qjStatus[qjPollOf'[q]] \in {"done", "failed"}
                           /\ qjPollAt'[q] \in {"status", "ended"} => qjPollResult[q] = qjResult[qjPollOf'[q]]
                           /\ qjPollAt'[q] = "ended" => qjPollStatus[q] = qjStatus[qjPollOf'[q]]
    BY <1>2 DEF QjRead, Settled, Alone
  <2>1. CASE q = p
    BY <1>4, <1>6, <1>7, <2>1 DEF Settled
  <2>2. CASE q # p
    BY <1>7, <2>2 DEF QjInv, QjRead, Settled, Alone
  <2> QED BY <2>1, <2>2
<1> QED BY <1>8, <1>9, <1>10 DEF QjInv

\* The encoder reads the result, then the status.
LEMMA EncodeKeeps ==
  ASSUME QjInv, NEW p \in QuantumPoll, EncodeResult(p) \/ EncodeStatus(p)
  PROVE  QjInv'
<1>1. PICK o : o = qjPollOf[p]
  OBVIOUS
<1>2. /\ qjPollOf' = qjPollOf /\ qjPollLate' = qjPollLate
      /\ qjId' = qjId /\ qjTable' = qjTable /\ qjClock' = qjClock /\ qjContext' = qjContext
      /\ qjStatus' = qjStatus /\ qjResult' = qjResult /\ qjBackend' = qjBackend
      /\ qjAt' = qjAt /\ qjOn' = qjOn /\ qjBackends' = qjBackends
  BY DEF EncodeResult, EncodeStatus, qjJobs, qjFields, qjRun
<1>3. \/ /\ qjPollAt[p] = "result" /\ qjPollAt' = [qjPollAt EXCEPT ![p] = "status"]
         /\ qjPollResult' = [qjPollResult EXCEPT ![p] = qjResult[o]] /\ qjPollStatus' = qjPollStatus
      \/ /\ qjPollAt[p] = "status" /\ qjPollAt' = [qjPollAt EXCEPT ![p] = "ended"]
         /\ qjPollStatus' = [qjPollStatus EXCEPT ![p] = qjStatus[o]] /\ qjPollResult' = qjPollResult
  BY <1>1 DEF EncodeResult, EncodeStatus
<1>4. QjTypes /\ QjTypeOK
  BY DEF QjInv, QjTypes
<1>5. o \in QuantumJob
  BY <1>1, <1>3, <1>4 DEF QjInv, QjRead, QjTypes
<1>6. QjTypes'
  <2>1. /\ qjPollAt' \in [QuantumPoll -> {"none", "result", "status", "ended"}]
        /\ qjPollResult' \in [QuantumPoll -> {NoQuantum, "result"}]
        /\ qjPollStatus' \in [QuantumPoll -> {NoQuantum, "pending", "running", "done", "failed"}]
    <3>1. qjResult[o] \in {NoQuantum, "result"} /\ qjStatus[o] \in {"pending", "running", "done", "failed"}
      BY <1>4, <1>5 DEF QjTypeOK
    <3>2. CASE /\ qjPollAt' = [qjPollAt EXCEPT ![p] = "status"]
               /\ qjPollResult' = [qjPollResult EXCEPT ![p] = qjResult[o]] /\ qjPollStatus' = qjPollStatus
      BY <1>4, <3>1, <3>2 DEF QjTypes, QjTypeOK
    <3>3. CASE /\ qjPollAt' = [qjPollAt EXCEPT ![p] = "ended"]
               /\ qjPollStatus' = [qjPollStatus EXCEPT ![p] = qjStatus[o]] /\ qjPollResult' = qjPollResult
      BY <1>4, <3>1, <3>3 DEF QjTypes, QjTypeOK
    <3> QED BY <1>3, <3>2, <3>3
  <2> QED BY <1>2, <1>4, <2>1 DEF QjTypes, QjTypeOK
<1>7. QjLeads' /\ QjOutcome'
  BY <1>2 DEF QjInv, QjLeads, QjOutcome, Settled, Alone
<1>8. QjRead'
  <2> SUFFICES ASSUME NEW q \in QuantumPoll, qjPollAt'[q] # "none"
               PROVE  /\ qjPollOf[q] # NoQuantum /\ qjId[qjPollOf[q]] # 0
                      /\ qjPollLate[q] /\ Alone(qjPollOf[q]) =>
                           /\ Settled(qjPollOf[q])
                           /\ qjPollAt'[q] \in {"status", "ended"} => qjPollResult'[q] = qjResult[qjPollOf[q]]
                           /\ qjPollAt'[q] = "ended" => qjPollStatus'[q] = qjStatus[qjPollOf[q]]
    BY <1>2 DEF QjRead, Settled, Alone
  <2>1. CASE q = p
    <3>1. /\ qjPollAt'[q] = "status" => qjPollResult'[q] = qjResult[o]
          /\ qjPollAt'[q] = "ended" => /\ qjPollAt[q] = "status" /\ qjPollStatus'[q] = qjStatus[o]
                                       /\ qjPollResult'[q] = qjPollResult[q]
          /\ qjPollAt[q] # "none"
      BY <1>3, <1>4, <2>1 DEF QjTypes, QjTypeOK
    <3> QED BY <1>1, <2>1, <3>1 DEF QjInv, QjRead
  <2>2. CASE q # p
    <3>1. /\ qjPollAt'[q] = qjPollAt[q] /\ qjPollResult'[q] = qjPollResult[q]
          /\ qjPollStatus'[q] = qjPollStatus[q]
      BY <1>3, <1>4, <2>2 DEF QjTypes, QjTypeOK
    <3> QED BY <3>1 DEF QjInv, QjRead
  <2> QED BY <2>1, <2>2
<1> QED BY <1>6, <1>7, <1>8 DEF QjInv

\* Every step keeps the invariant.
LEMMA QjStep == QjInv /\ [QjNext]_qjVars => QjInv'
<1> SUFFICES ASSUME QjInv, [QjNext]_qjVars PROVE QjInv'
  OBVIOUS
<1>1. CASE \/ NanosecondPasses \/ RegisterBackend
           \/ (\E j \in QuantumJob : ContextCancelled(j)) \/ UNCHANGED qjVars
  <2>1. UNCHANGED <<qjId, qjTable, qjFields, qjRun, qjPolls>>
    BY <1>1 DEF NanosecondPasses, RegisterBackend, ContextCancelled, qjVars, qjJobs
  <2>2. QjTypeOK /\ qjStatus' = qjStatus /\ qjResult' = qjResult /\ qjBackend' = qjBackend /\ qjAt' = qjAt
        /\ qjOn' = qjOn /\ qjPollAt' = qjPollAt /\ qjId' = qjId /\ qjTable' = qjTable
    BY <2>1 DEF QjInv, QjTypes, qjFields, qjRun, qjPolls
  <2>3. ASSUME NanosecondPasses PROVE QjTypeOK'
    BY <2>2, <2>3, QuantumAssumption DEF NanosecondPasses, QjTypeOK
  <2>4. ASSUME RegisterBackend PROVE QjTypeOK'
    BY <2>2, <2>4 DEF RegisterBackend, QjTypeOK, qjJobs
  <2>5. ASSUME \E j \in QuantumJob : ContextCancelled(j) PROVE QjTypeOK'
    BY <2>2, <2>5 DEF ContextCancelled, QjTypeOK, qjJobs
  <2>6. ASSUME UNCHANGED qjVars PROVE QjTypeOK'
    BY <2>2, <2>6 DEF qjVars, qjJobs, QjTypeOK
  <2>7. QjTypeOK'
    BY <1>1, <2>3, <2>4, <2>5, <2>6
  <2> QED BY <2>1, <2>7, QjQuiet
<1>2. CASE \E j \in QuantumJob : \/ SubmitJob(j) \/ FindJob(j) \/ ChooseBackend(j)
                                 \/ Settle(j, "done") \/ Settle(j, "failed")
  BY <1>2, SubmitJobKeeps, FindJobKeeps, ChooseBackendKeeps, SettleKeeps
<1>3. CASE \E p \in QuantumPoll : \/ \E i \in 1..MaxInstant : PollQuantum(p, i)
                                  \/ EncodeResult(p) \/ EncodeStatus(p)
  BY <1>3, PollQuantumKeeps, EncodeKeeps
<1> QED BY <1>1, <1>2, <1>3, Zenon DEF QjNext

\* It says what DecisionsRight asks of the jobs.
LEMMA QjHolds == QjInv => QjTypeOK /\ LatePollHasResult /\ EndedIsSettled
<1> SUFFICES ASSUME QjInv PROVE QjTypeOK /\ LatePollHasResult /\ EndedIsSettled
  OBVIOUS
<1>1. QjTypes /\ QjTypeOK
  BY DEF QjInv, QjTypes
<1>2. LatePollHasResult
  <2> SUFFICES ASSUME NEW p \in QuantumPoll, qjPollAt[p] = "ended", qjPollLate[p],
                      qjPollStatus[p] = "done", Alone(qjPollOf[p])
               PROVE  qjPollResult[p] = "result"
    BY DEF LatePollHasResult
  <2>1. /\ qjPollOf[p] \in QuantumJob /\ qjId[qjPollOf[p]] # 0
        /\ qjPollResult[p] = qjResult[qjPollOf[p]] /\ qjStatus[qjPollOf[p]] = "done"
    BY <1>1 DEF QjInv, QjRead, QjTypes
  <2> QED BY <2>1 DEF QjInv, QjOutcome
<1>3. EndedIsSettled
  BY DEF QjInv, QjLeads, QjOutcome, EndedIsSettled
<1> QED BY <1>1, <1>2, <1>3

\* A step of the group is a step of each of these components or leaves it alone.
LEMMA DecidingSteps ==
  [AlgorithmsNext]_algorithmsVars => [Next]_vars /\ [HrNext]_hrVars /\ [QjNext]_qjVars
<1>1. [AlgorithmsNext]_algorithmsVars => [Next]_vars
  BY DEF AlgorithmsNext, algorithmsVars, OtherAlgorithms
<1>2. [AlgorithmsNext]_algorithmsVars => [HrNext]_hrVars
  BY DEF AlgorithmsNext, algorithmsVars, OtherAlgorithms
<1>3. [AlgorithmsNext]_algorithmsVars => [QjNext]_qjVars
  BY DEF AlgorithmsNext, algorithmsVars, OtherAlgorithms
<1> QED BY <1>1, <1>2, <1>3

\* Schedule, tryFallbacks and SimulateAlgorithm on a shared algorithm object decide as
\* for one task alone on the nodes that fit, in rounds that leave no node two tasks
\* behind, and a call that nobody disturbs explains its own decisions; the jobs of the
\* simulator are settled when their goroutine has ended, and a late poll of one that
\* is done has its result: for any number of calls, tasks, nodes, jobs and polls.
THEOREM DecisionsRightAlways == AlgorithmsSpec => []DecisionsRight
<1> DEFINE Inv == TypeInv /\ HrInv /\ QjInv
<1>1. AlgorithmsInit => Inv
  BY TypeInit, HrInitInv, QjInitInv DEF AlgorithmsInit
<1>2. Inv /\ [AlgorithmsNext]_algorithmsVars => Inv'
  BY DecidingSteps, TypeStep, HrStep, QjStep
<1>3. Inv => DecisionsRight
  <2> SUFFICES ASSUME Inv PROVE DecisionsRight
    OBVIOUS
  <2>1. TypeOK
    BY DEF TypeInv
  <2> QED BY <2>1, HrHolds, QjHolds, Zenon DEF DecisionsRight
<1> QED BY <1>1, <1>2, <1>3, PTL DEF AlgorithmsSpec
=============================================================================
