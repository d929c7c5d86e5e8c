----------------------------- MODULE VaultCache -----------------------------
(* internal/services/vault.go: StoreSecret and ReadSecretCachedTTL on one     *)
(* path, with doWithRetry and the cache with its time to live.  The vault is  *)
(* external: it holds the version written last, and any call of it may fail,  *)
(* before or after it took effect.                                            *)
EXTENDS Integers

CONSTANTS VcReader,      \* goroutines in ReadSecretCachedTTL
          VcStorer,      \* goroutines in StoreSecret
          MaxVersion,    \* bound on the versions of the secret
          StoreRetries,    \* cfg.MaxRetries
          CacheTTL,      \* cfg.CacheTTL, in ticks
          ShortTTL       \* the time to live that a caller may ask for

ASSUME VaultCacheAssumption ==
  /\ MaxVersion \in Nat \ {0} /\ StoreRetries \in Nat \ {0}
  /\ CacheTTL \in Nat \ {0} /\ ShortTTL \in 1..CacheTTL

VARIABLES vcVault,   \* the version in the vault
          vcNext,    \* the last version that a StoreSecret brought
          vcCache,   \* the cached version and the ticks it has left
          vcRead,    \* reader: its step, tries, asked time to live and value
          vcStore,   \* storer: its step, tries and version
          vcLate     \* versions that an overlapping or failed call may leave in
                     \* the cache for the rest of its time to live

vcVars == <<vcVault, vcNext, vcCache, vcRead, vcStore, vcLate>>

NoEntry == [version |-> 0, left |-> 0]
NotReading == [step |-> "idle", tries |-> 0, ttl |-> 0, version |-> 0]
NotStoring == [step |-> "idle", tries |-> 0, version |-> 0]

VaultCacheInit ==
  /\ vcVault = 1 /\ vcNext = 1 /\ vcCache = NoEntry /\ vcLate = {}
  /\ vcRead = [r \in VcReader |-> NotReading]
  /\ vcStore = [s \in VcStorer |-> NotStoring]

ReadTo(r, read) == vcRead' = [vcRead EXCEPT ![r] = read]
StoreTo(s, store) == vcStore' = [vcStore EXCEPT ![s] = store]
Fetched(v) == \E r \in VcReader : vcRead[r].step = "fetched" /\ vcRead[r].version = v
FetchedVersions == {v \in 1..vcNext : Fetched(v)}

-----------------------------------------------------------------------------
(* an entry that has not expired answers at once                              *)
FreshEntry == vcCache.left > 0

ReadSecret(r, ttl) ==
  /\ vcRead[r].step = "idle" /\ ~FreshEntry
  /\ ReadTo(r, [NotReading EXCEPT !.step = "trying", !.ttl = ttl])
  /\ UNCHANGED <<vcVault, vcNext, vcCache, vcStore, vcLate>>

FetchSecret(r) ==
  /\ vcRead[r].step = "trying" /\ vcRead[r].tries < StoreRetries
  /\ ReadTo(r, [vcRead[r] EXCEPT !.step = "fetched", !.version = vcVault])
  /\ UNCHANGED <<vcVault, vcNext, vcCache, vcStore, vcLate>>

(* doWithRetry, for a read: the last try or the end of the context gives up   *)
FetchFails(r) ==
  /\ vcRead[r].step = "trying"
  /\ \/ vcRead[r].tries < StoreRetries /\ ReadTo(r, [vcRead[r] EXCEPT !.tries = @ + 1])
     \/ ReadTo(r, NotReading)
  /\ UNCHANGED <<vcVault, vcNext, vcCache, vcStore, vcLate>>

(* a ttl of zero is the configured one                                        *)
UseTtl(ttl) == IF ttl <= 0 THEN CacheTTL ELSE ttl

(* time.Now() is taken when the value is cached                               *)
CacheSecret(r) ==
  /\ vcRead[r].step = "fetched"
  /\ vcCache' = [version |-> vcRead[r].version, left |-> UseTtl(vcRead[r].ttl)]
  /\ ReadTo(r, NotReading)
  /\ UNCHANGED <<vcVault, vcNext, vcStore, vcLate>>

-----------------------------------------------------------------------------
StoreSecret(s) ==
  /\ vcStore[s].step = "idle" /\ vcNext < MaxVersion
  /\ vcNext' = vcNext + 1
  /\ StoreTo(s, [step |-> "trying", tries |-> 0, version |-> vcNext'])
  /\ UNCHANGED <<vcVault, vcCache, vcRead, vcLate>>

WriteSecret(s) ==
  /\ vcStore[s].step = "trying" /\ vcStore[s].tries < StoreRetries
  /\ vcVault' = vcStore[s].version
  /\ StoreTo(s, [vcStore[s] EXCEPT !.step = "written"])
  /\ UNCHANGED <<vcNext, vcCache, vcRead, vcLate>>

(* the answer is lost, with or without the write; the try counts              *)
WriteFails(s) ==
  /\ vcStore[s].step = "trying" /\ vcStore[s].tries < StoreRetries
  /\ vcVault' \in {vcVault, vcStore[s].version}
  /\ StoreTo(s, [vcStore[s] EXCEPT !.tries = @ + 1])
  /\ UNCHANGED <<vcNext, vcCache, vcRead, vcLate>>

(* an error leaves the cache as it is                                         *)
StoreGivesUp(s) ==
  /\ vcStore[s].step = "trying" /\ StoreTo(s, NotStoring)
  /\ vcLate' = vcLate \cup {vcCache.version} \cup FetchedVersions
  /\ UNCHANGED <<vcVault, vcNext, vcCache, vcRead>>

\* Faulty variant: an entry that is not expired stays.
AfterStoreExpired == IF FreshEntry THEN vcCache ELSE NoEntry
(* the entry goes; what a reader has fetched before is cached after it        *)
AfterStore == NoEntry

DropEntry(s) ==
  /\ vcStore[s].step = "written"
  /\ vcCache' = AfterStore /\ StoreTo(s, NotStoring)
  /\ vcLate' = vcLate \cup FetchedVersions
  /\ UNCHANGED <<vcVault, vcNext, vcRead>>

CacheTicks ==
  /\ vcCache.left > 0 /\ vcCache' = [vcCache EXCEPT !.left = @ - 1]
  /\ UNCHANGED <<vcVault, vcNext, vcRead, vcStore, vcLate>>

VaultCacheNext ==
  \/ \E r \in VcReader :
       (\E ttl \in {0, ShortTTL} : ReadSecret(r, ttl)) \/ FetchSecret(r) \/ FetchFails(r) \/ CacheSecret(r)
  \/ \E s \in VcStorer :
       StoreSecret(s) \/ WriteSecret(s) \/ WriteFails(s) \/ StoreGivesUp(s) \/ DropEntry(s)
  \/ CacheTicks

VaultCacheSpec == VaultCacheInit /\ [][VaultCacheNext]_vcVars

-----------------------------------------------------------------------------
VcTypeOK ==
  /\ vcVault \in 1..vcNext /\ vcNext \in 1..MaxVersion
  /\ vcCache \in [version : 0..MaxVersion, left : 0..CacheTTL]
  /\ \A r \in VcReader :
       vcRead[r] \in [step : {"idle", "trying", "fetched"}, tries : 0..StoreRetries,
                      ttl : {0, ShortTTL}, version : 0..MaxVersion]
  /\ \A s \in VcStorer :
       vcStore[s] \in [step : {"idle", "trying", "written"}, tries : 0..StoreRetries, version : 0..MaxVersion]
  /\ vcLate \subseteq 0..MaxVersion

(* Once every StoreSecret is over, the cache answers with what the vault      *)
(* holds, but for a version that a read fetched before the store dropped the  *)
(* entry, or that a store found and then gave up.                             *)
CacheIsCurrent ==
  (FreshEntry /\ \A s \in VcStorer : vcStore[s].step = "idle")
    => (vcCache.version = vcVault \/ vcCache.version \in vcLate)
=============================================================================
