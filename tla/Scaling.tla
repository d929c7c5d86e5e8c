------------------------------ MODULE Scaling ------------------------------
(***************************************************************************)
(* PredictiveScaler of scaling/predictive_scaling.go for one service:      *)
(* PredictAndScale from the copy of its state to the start of a bootstrap, *)
(* the bootstrap's goroutine, and the state saved by periodicPersist and   *)
(* loaded by a restarted process.                                          *)
(*                                                                         *)
(* Forecasts are left to the environment: a call finds the threshold hit   *)
(* or returns.  Time is what it is compared with: cooling says that the    *)
(* last trigger is younger than the backoff, windowOld that the window of  *)
(* the rate limit is an hour old or was never opened.                      *)
(***************************************************************************)
EXTENDS Naturals, FiniteSets

CONSTANTS ScaleCall, MaxAttempts, BootstrapsPerHour

ASSUME ScalingAssumption == MaxAttempts \in Nat \ {0} /\ BootstrapsPerHour \in Nat \ {0}

VARIABLES
  dryRun,      \* DryRun, or no EnableAutoBootstrap
  scAttempts, inFlight, cooling,
  rateCount, windowOld,
  scPc,        \* [ScaleCall -> place]
  sawFailed, sawCooling,  \* [ScaleCall -> copy of scAttempts > 0, of cooling]
  flight,      \* [ScaleCall -> place of the goroutine it has started]
  scStored,      \* the Store: [there, attempts, count, windowOld]
  encoded,     \* saveStateToStore between encoding and Save
  triggered,   \* history: [ScaleCall -> lastTriggered was set since its copy]
  taken,       \* history: tokens given in this hour
  unsaved, mark,   \* history: those no stored state knows, those since encoded
  forgotten    \* history: those a restart has forgotten

scRate == <<rateCount, windowOld, taken, unsaved, forgotten>>
scCall == <<scPc, sawFailed, sawCooling>>
scSave == <<scStored, encoded, mark>>
scState == <<scAttempts, inFlight, cooling>>
scVars == <<dryRun, scState, scRate, scCall, flight, scSave, triggered>>

NoSavedState == [there |-> FALSE, attempts |-> 0, count |-> 0, windowOld |-> TRUE]

ScInit ==
  /\ dryRun \in BOOLEAN
  /\ scAttempts = 0 /\ inFlight = FALSE /\ cooling = FALSE
  /\ rateCount = 0 /\ windowOld = TRUE
  /\ scPc = [c \in ScaleCall |-> "idle"] /\ flight = [c \in ScaleCall |-> "none"]
  /\ sawFailed = [c \in ScaleCall |-> FALSE] /\ sawCooling = [c \in ScaleCall |-> FALSE]
  /\ scStored = NoSavedState /\ encoded = NoSavedState
  /\ triggered = [c \in ScaleCall |-> FALSE]
  /\ taken = 0 /\ unsaved = 0 /\ mark = 0 /\ forgotten = 0

ScGoto(c, place) == scPc' = [scPc EXCEPT ![c] = place]

\* lastTriggered = now.
Trigger ==
  /\ cooling' = TRUE
  /\ triggered' = [c \in ScaleCall |-> TRUE]
-----------------------------------------------------------------------------
\* The copies made under ps.mu.
PredictAndScale(c) ==
  /\ scPc[c] = "idle" /\ flight[c] = "none"
  /\ sawFailed' = [sawFailed EXCEPT ![c] = scAttempts > 0]
  /\ sawCooling' = [sawCooling EXCEPT ![c] = cooling]
  /\ triggered' = [triggered EXCEPT ![c] = FALSE]
  /\ ScGoto(c, "predict")
  /\ UNCHANGED <<dryRun, scState, scRate, flight, scSave>>

\* No history, an anomaly, an invalid forecast, or no need or too dear.
NoNeed(c) ==
  /\ scPc[c] = "predict"
  /\ ScGoto(c, "idle")
  /\ UNCHANGED <<dryRun, scState, scRate, sawFailed, sawCooling, flight, scSave, triggered>>

\* The token is gone whatever comes of the call.
AllowBootstrap(c) ==
  LET count == IF windowOld THEN 0 ELSE rateCount IN
  /\ scPc[c] = "predict"
  /\ windowOld' = FALSE
  /\ IF count >= BootstrapsPerHour
     THEN ScGoto(c, "idle") /\ rateCount' = count /\ UNCHANGED <<taken, unsaved>>
     ELSE /\ ScGoto(c, "backoff")
          /\ rateCount' = count + 1 /\ taken' = taken + 1 /\ unsaved' = unsaved + 1
  /\ UNCHANGED <<dryRun, scState, forgotten, sawFailed, sawCooling, flight, scSave, triggered>>

ScWaits(c) == sawFailed[c] /\ sawCooling[c]

Backoff(c) ==
  /\ scPc[c] = "backoff"
  /\ ScGoto(c, IF ScWaits(c) THEN "idle" ELSE "check")
  /\ UNCHANGED <<dryRun, scState, scRate, sawFailed, sawCooling, flight, scSave, triggered>>

\* Faulty variants: the flag is not tested; one attempt too many.
MayBootstrapTwice == scAttempts < MaxAttempts

MayBootstrap == scAttempts < MaxAttempts /\ ~inFlight

\* Under ps.mu; a replica that does not lead starts nothing.
StartBootstrap(c, leads) ==
  /\ scPc[c] = "check"
  /\ ScGoto(c, "idle")
  /\ IF MayBootstrap /\ leads
     THEN /\ inFlight' = TRUE /\ Trigger
          /\ flight' = [flight EXCEPT ![c] = "verify"]
     ELSE UNCHANGED <<inFlight, cooling, triggered, flight>>
  /\ UNCHANGED <<dryRun, scAttempts, scRate, sawFailed, sawCooling, scSave>>
-----------------------------------------------------------------------------
FlightTo(c, place) == flight' = [flight EXCEPT ![c] = place]

\* Without trust there is no bootstrap, and no failed attempt either.
Verify(c) ==
  /\ flight[c] = "verify"
  /\ FlightTo(c, "clear") \/ FlightTo(c, IF dryRun THEN "simulated" ELSE "run")
  /\ UNCHANGED <<dryRun, scState, scRate, scCall, scSave, triggered>>

Simulated(c) ==
  /\ flight[c] = "simulated"
  /\ scAttempts' = 0
  /\ FlightTo(c, "clear")
  /\ UNCHANGED <<dryRun, inFlight, cooling, scRate, scCall, scSave, triggered>>

\* AutoBootstrapHTTP or the bootstrap function has answered.
BootstrapEnds(c) ==
  /\ flight[c] = "run"
  /\ scAttempts' \in {0, scAttempts + 1}
  /\ Trigger
  /\ FlightTo(c, "clear")
  /\ UNCHANGED <<dryRun, inFlight, scRate, scCall, scSave>>

\* The deferred function, behind the unlock of the one above.
ClearInFlight(c) ==
  /\ flight[c] = "clear"
  /\ inFlight' = FALSE
  /\ FlightTo(c, "none")
  /\ UNCHANGED <<dryRun, scAttempts, cooling, scRate, scCall, scSave, triggered>>
-----------------------------------------------------------------------------
BackoffPasses ==
  /\ cooling
  /\ cooling' = FALSE
  /\ sawCooling' = [c \in ScaleCall |-> FALSE]
  /\ UNCHANGED <<dryRun, scAttempts, inFlight, scRate, scPc, sawFailed, flight, scSave,
                 triggered>>

ScHourPasses ==
  /\ ~windowOld
  /\ windowOld' = TRUE
  /\ scStored' = [scStored EXCEPT !.windowOld = TRUE]
  /\ encoded' = [encoded EXCEPT !.windowOld = TRUE]
  /\ taken' = 0 /\ unsaved' = 0 /\ mark' = 0 /\ forgotten' = 0
  /\ UNCHANGED <<dryRun, scState, rateCount, scCall, flight, triggered>>

PersistedState == [there |-> TRUE, attempts |-> scAttempts, count |-> rateCount, windowOld |-> windowOld]

\* The maps are encoded behind the unlock: as they are then.
SaveScState ==
  /\ ~encoded.there
  /\ encoded' = PersistedState
  /\ mark' = unsaved
  /\ UNCHANGED <<dryRun, scState, scRate, scCall, flight, scStored, triggered>>

StoreState ==
  /\ encoded.there
  /\ scStored' = encoded /\ encoded' = NoSavedState
  /\ unsaved' = unsaved - mark /\ mark' = 0
  /\ UNCHANGED <<dryRun, scState, rateCount, windowOld, taken, forgotten, scCall, flight,
                 triggered>>

\* loadStateFromStore; lastTriggered and inFlight are not saved.
ScRestart ==
  /\ scAttempts' = scStored.attempts /\ rateCount' = scStored.count /\ windowOld' = scStored.windowOld
  /\ inFlight' = FALSE /\ cooling' = FALSE
  /\ scPc' = [c \in ScaleCall |-> "idle"] /\ flight' = [c \in ScaleCall |-> "none"]
  /\ forgotten' = forgotten + unsaved /\ unsaved' = 0 /\ mark' = 0
  /\ encoded' = NoSavedState
  /\ sawFailed' = [c \in ScaleCall |-> FALSE] /\ sawCooling' = [c \in ScaleCall |-> FALSE]
  /\ triggered' = [c \in ScaleCall |-> FALSE]
  /\ UNCHANGED <<dryRun, scStored, taken>>
-----------------------------------------------------------------------------
ScNext ==
  \/ \E c \in ScaleCall :
       \/ PredictAndScale(c) \/ NoNeed(c) \/ AllowBootstrap(c) \/ Backoff(c)
       \/ \E leads \in BOOLEAN : StartBootstrap(c, leads)
       \/ Verify(c) \/ Simulated(c) \/ BootstrapEnds(c) \/ ClearInFlight(c)
  \/ BackoffPasses \/ ScHourPasses \/ SaveScState \/ StoreState
  \/ (taken <= BootstrapsPerHour /\ ScRestart)   \* bound on restarts in an hour

ScSpec == ScInit /\ [][ScNext]_scVars
-----------------------------------------------------------------------------
ScTypeOK ==
  /\ scAttempts \in Nat /\ rateCount \in 0..BootstrapsPerHour
  /\ scPc \in [ScaleCall -> {"idle", "predict", "backoff", "check"}]
  /\ flight \in [ScaleCall -> {"none", "verify", "simulated", "run", "clear"}]
  /\ taken \in Nat /\ mark <= unsaved /\ unsaved <= taken

\* No two goroutines bootstrap the service at once.
OneBootstrap ==
  \A c, d \in ScaleCall : flight[c] # "none" /\ flight[d] # "none" => c = d

\* The attempts that failed one after the other never outnumber MaxAttempts,
\* whatever calls overlap and whatever a restart has loaded.
BootstrapsBounded == scAttempts <= MaxAttempts

\* A bootstrap starts within the backoff of a failed one only on behalf of a
\* call that had copied its state before that one was triggered.
BackoffKept ==
  \A c \in ScaleCall :
    flight[c] = "none" /\ flight'[c] = "verify" /\ cooling /\ scAttempts > 0 => triggered[c]

\* Restarts do not give back the tokens of an hour that a stored state knows.
RateAcrossRestart == taken <= BootstrapsPerHour + forgotten
=============================================================================
