---------------------------- MODULE TokenRenewal ----------------------------
(* internal/services/vault.go: tokenAutoRenewalLoop with Close and with a     *)
(* RotateToken from outside, in seconds.  The vault is external: it gives a   *)
(* live token its whole time to live when it is renewed, and may fail.        *)
EXTENDS Integers

CONSTANTS TokenTtl,        \* the time to live of a token
          HalfJitter,      \* half of cfg.RenewJitter
          LookupPause,     \* time.Sleep after a failed lookup (10 s)
          RenewPause       \* time.Sleep after a failed renewal (5 s)

\* the jitter fits in what the threshold of 0.8 leaves
ASSUME TokenRenewalAssumption ==
  /\ TokenTtl \in Nat /\ HalfJitter \in Nat /\ 5 * HalfJitter < TokenTtl /\ TokenTtl > 5
  /\ LookupPause \in Nat \ {0} /\ RenewPause \in Nat \ {0}

VARIABLES tkLeft,     \* seconds that the client's token has left
          tkLoop,     \* where the loop is
          tkWait,     \* seconds until its timer or sleep ends
          tkClosed,   \* stopCh is closed
          tkFailed    \* some call has failed

tkVars == <<tkLeft, tkLoop, tkWait, tkClosed, tkFailed>>

TokenRenewalInit ==
  /\ tkLeft = TokenTtl /\ tkLoop = "lookup" /\ tkWait = 0
  /\ tkClosed = FALSE /\ tkFailed = FALSE

LoopTo(where, wait) == tkLoop' = where /\ tkWait' = wait

-----------------------------------------------------------------------------
(* only at the top of the loop and while it waits                             *)
SeesStop == tkLoop \in {"lookup", "waiting"}

LoopStops ==
  /\ tkClosed /\ SeesStop /\ LoopTo("ended", 0)
  /\ UNCHANGED <<tkLeft, tkClosed, tkFailed>>

MayLookup == tkLoop = "lookup" /\ ~(tkClosed /\ SeesStop)

(* an expired token fails its lookup, and nobody asks ReauthFunc              *)
LookupFails ==
  /\ MayLookup
  /\ tkFailed' = TRUE /\ LoopTo("sleeping", LookupPause)
  /\ UNCHANGED <<tkLeft, tkClosed>>

AtLeastOne(n) == IF n < 1 THEN 1 ELSE n
(* the wait is 0.8 of what is left, more or less the jitter, but a second     *)
Waits(ttl) == {AtLeastOne(((8 * ttl) \div 10) + j) : j \in (0 - HalfJitter)..HalfJitter}

Lookup ==
  /\ MayLookup /\ tkLeft > 0
  /\ \E wait \in Waits(tkLeft) : LoopTo("waiting", wait)
  /\ UNCHANGED <<tkLeft, tkClosed, tkFailed>>

(* in its last second a token has a ttl of zero, which ends the loop like a   *)
(* token that never expires                                                   *)
NotRenewable ==
  /\ MayLookup /\ tkLeft = 0
  /\ LoopTo("ended", 0)
  /\ UNCHANGED <<tkLeft, tkClosed, tkFailed>>

TimerFires ==
  /\ tkLoop = "waiting" /\ tkWait = 0 /\ LoopTo("renewing", 0)
  /\ UNCHANGED <<tkLeft, tkClosed, tkFailed>>

RenewSelf ==
  /\ tkLoop = "renewing" /\ tkLeft > 0
  /\ tkLeft' = TokenTtl /\ LoopTo("lookup", 0)
  /\ UNCHANGED <<tkClosed, tkFailed>>

RenewFails ==
  /\ tkLoop = "renewing"
  /\ tkFailed' = TRUE /\ LoopTo("reauth", 0)
  /\ UNCHANGED <<tkLeft, tkClosed>>

(* SetToken takes what ReauthFunc returns                                     *)
Reauthenticated == TokenTtl

Reauth ==
  /\ tkLoop = "reauth"
  /\ tkLeft' = Reauthenticated /\ LoopTo("lookup", 0)
  /\ UNCHANGED <<tkClosed, tkFailed>>

(* there is no ReauthFunc, or it fails                                        *)
NoReauth ==
  /\ tkLoop = "reauth" /\ LoopTo("sleeping", RenewPause)
  /\ UNCHANGED <<tkLeft, tkClosed, tkFailed>>

WakesUp ==
  /\ tkLoop = "sleeping" /\ tkWait = 0 /\ LoopTo("lookup", 0)
  /\ UNCHANGED <<tkLeft, tkClosed, tkFailed>>

RenewalStep ==
  \/ LoopStops \/ LookupFails \/ Lookup \/ NotRenewable \/ TimerFires
  \/ RenewSelf \/ RenewFails \/ Reauth \/ NoReauth \/ WakesUp

-----------------------------------------------------------------------------
(* RotateToken: renews a token that is alive, asks ReauthFunc otherwise       *)
RotateToken ==
  /\ tkLeft' = TokenTtl
  /\ UNCHANGED <<tkLoop, tkWait, tkClosed, tkFailed>>

(* Close, and then waits for the loop                                         *)
CloseVault ==
  /\ ~tkClosed /\ tkClosed' = TRUE
  /\ UNCHANGED <<tkLeft, tkLoop, tkWait, tkFailed>>

(* a second passes for a loop that waits; what else it does takes no time     *)
Less1(n) == IF n > 0 THEN n - 1 ELSE 0
SecondPasses ==
  /\ tkLoop \in {"waiting", "sleeping"} /\ tkWait > 0
  /\ tkWait' = tkWait - 1 /\ tkLeft' = Less1(tkLeft)
  /\ UNCHANGED <<tkLoop, tkClosed, tkFailed>>

TokenRenewalNext == RenewalStep \/ RotateToken \/ CloseVault \/ SecondPasses
TokenRenewalSpec == TokenRenewalInit /\ [][TokenRenewalNext]_tkVars

-----------------------------------------------------------------------------
TokenTypeOK ==
  /\ tkLeft \in 0..TokenTtl
  /\ tkLoop \in {"lookup", "waiting", "renewing", "reauth", "sleeping", "ended"}
  /\ tkWait \in 0..(TokenTtl + LookupPause + RenewPause)
  /\ tkClosed \in BOOLEAN /\ tkFailed \in BOOLEAN

(* While no call has failed the token does not expire before the loop renews  *)
(* it, whatever the jitter, and a rotation in between does not hurt.          *)
RenewedInTime == (tkLoop = "renewing" /\ ~tkFailed) => tkLeft > 0

(* Close returns: the loop ends, though every call to the vault may fail.     *)
CloseReturns == tkClosed ~> (tkLoop = "ended")
=============================================================================
