------------------------------- MODULE AIMode -------------------------------
(***************************************************************************)
(* AIFallbackController of server/ai_mode.go: the mode and the lock of the *)
(* fallback, SetMode, TriggerFallback, EndFallback, the poller of the      *)
(* health probes, the goroutines that save the state, Start and Stop.      *)
(*                                                                         *)
(* TriggerFallback and EndFallback hold stateMu when setModeAtomic calls   *)
(* IsLocked, which takes it again: neither returns, and nothing that needs *)
(* stateMu returns after them.  What comes behind that call in them (the   *)
(* alert, the save, autoRecoverLoop) is never reached and not here.        *)
(***************************************************************************)
EXTENDS Naturals

CONSTANTS ModeCall,       \* callers of the routes
          ModeSaver,      \* bound: saves of one process, and its files
          FailThreshold,
          MaxRestart      \* bound: crashes

ASSUME AIModeAssumption == FailThreshold \in Nat \ {0} /\ MaxRestart \in Nat

Mode == {"proxy", "direct", "fallback"}
NoFile == <<"none", FALSE>>
Torn == <<"torn", FALSE>>  \* what cannot be decoded

VARIABLES
  aiMode, aiLocked,
  stateHeld,      \* stateMu is held for good
  modePc, modeArg,  \* [ModeCall -> place, mode to set or none]
  modePollPc, pollBad, \* place of the poller, consecutive
  badRounds,      \* history: bad rounds since the last good one
  saverPc, saverRead, \* [ModeSaver -> place, <<mode, locked>> read]
  modeFile,       \* the file: <<mode, locked>>, none, or torn
  stopPc, aiRestarts

modeCallVars == <<modePc, modeArg>>
pollVars == <<modePollPc, pollBad, badRounds>>
saverVars == <<saverPc, saverRead, modeFile>>
aiVars == <<aiMode, aiLocked, stateHeld, modeCallVars, pollVars, saverVars, stopPc, aiRestarts>>

AIModeInit ==
  /\ aiMode = "proxy" /\ aiLocked = FALSE
  /\ modePc = [c \in ModeCall |-> "idle"] /\ modeArg = [c \in ModeCall |-> "none"]
  /\ modePollPc = "idle" /\ pollBad = 0 /\ badRounds = 0 /\ stopPc = "idle" /\ stateHeld = FALSE
  /\ saverPc = [s \in ModeSaver |-> "unused"] /\ saverRead = [s \in ModeSaver |-> NoFile]
  /\ modeFile = NoFile /\ aiRestarts = 0

ModeGoto(c, place) == modePc' = [modePc EXCEPT ![c] = place]
-----------------------------------------------------------------------------
CallSetMode(c, m) ==
  /\ modePc[c] = "idle"
  /\ ModeGoto(c, "look") /\ modeArg' = [modeArg EXCEPT ![c] = m]
  /\ UNCHANGED <<aiMode, aiLocked, stateHeld, pollVars, saverVars, stopPc, aiRestarts>>

\* Faulty variant: the fallback may be left, but no other mode be changed.
RefusesOthers(m) == aiLocked /\ m = "fallback"

Refuses(m) == aiLocked /\ m # "fallback"

LookAtLock(c) ==
  /\ modePc[c] = "look" /\ ~stateHeld
  /\ IF Refuses(modeArg[c]) THEN ModeGoto(c, "idle") /\ modeArg' = [modeArg EXCEPT ![c] = "none"]
     ELSE ModeGoto(c, "set") /\ UNCHANGED modeArg
  /\ UNCHANGED <<aiMode, aiLocked, stateHeld, pollVars, saverVars, stopPc, aiRestarts>>

\* setModeAtomic: the lock is no longer held.
StoreMode(c) ==
  /\ modePc[c] = "set"
  /\ aiMode' = modeArg[c]
  /\ ModeGoto(c, "note")
  /\ UNCHANGED <<aiLocked, stateHeld, modeArg, pollVars, saverVars, stopPc, aiRestarts>>

\* The event, with IsLocked, and the goroutine that saves.
NoteMode(c, s) ==
  /\ modePc[c] = "note" /\ ~stateHeld /\ saverPc[s] = "unused"
  /\ saverPc' = [saverPc EXCEPT ![s] = "mode"]
  /\ ModeGoto(c, "idle") /\ modeArg' = [modeArg EXCEPT ![c] = "none"]
  /\ UNCHANGED <<aiMode, aiLocked, stateHeld, pollVars, saverRead, modeFile, stopPc,
                 aiRestarts>>

\* EndFallback, which asks for no condition and gets no further than the mode.
EndFallback(c) ==
  /\ modePc[c] = "idle" /\ ~stateHeld
  /\ stateHeld' = TRUE /\ aiLocked' = FALSE
  /\ ModeGoto(c, "end")
  /\ UNCHANGED <<aiMode, modeArg, pollVars, saverVars, stopPc, aiRestarts>>

EndsWithProxy(c) ==
  /\ modePc[c] = "end"
  /\ aiMode' = "proxy"
  /\ ModeGoto(c, "stuck")
  /\ UNCHANGED <<aiLocked, stateHeld, modeArg, pollVars, saverVars, stopPc, aiRestarts>>

\* TriggerFallback through its route; without the lock it is refused.
TriggerFallback(c) ==
  /\ modePc[c] = "idle" /\ ~stateHeld /\ ~aiLocked
  /\ stateHeld' = TRUE /\ aiLocked' = TRUE
  /\ ModeGoto(c, "trigger")
  /\ UNCHANGED <<aiMode, modeArg, pollVars, saverVars, stopPc, aiRestarts>>

TriggerSetsMode(c) ==
  /\ modePc[c] = "trigger"
  /\ aiMode' = "fallback"
  /\ ModeGoto(c, "stuck")
  /\ UNCHANGED <<aiLocked, stateHeld, modeArg, pollVars, saverVars, stopPc, aiRestarts>>
-----------------------------------------------------------------------------
PollHealth ==
  /\ modePollPc = "idle" /\ stopPc = "idle"
  /\ modePollPc' = "tick"
  /\ UNCHANGED <<aiMode, aiLocked, stateHeld, modeCallVars, pollBad, badRounds, saverVars,
                 stopPc, aiRestarts>>

\* A tick in fallback mode runs no probe and leaves the count.
PollTick ==
  /\ modePollPc = "tick" /\ stopPc = "idle" /\ aiMode # "fallback"
  /\ modePollPc' = "probe"
  /\ UNCHANGED <<aiMode, aiLocked, stateHeld, modeCallVars, pollBad, badRounds, saverVars,
                 stopPc, aiRestarts>>

CountAfterGood == 0

\* runAllProbes: none fails, or one fails, panics or takes too long.
ProbesGood ==
  /\ modePollPc = "probe" /\ modePollPc' = "tick"
  /\ pollBad' = CountAfterGood /\ badRounds' = 0
  /\ UNCHANGED <<aiMode, aiLocked, stateHeld, modeCallVars, saverVars, stopPc, aiRestarts>>

ProbesBad ==
  /\ modePollPc = "probe"
  /\ pollBad' = pollBad + 1 /\ badRounds' = badRounds + 1
  /\ modePollPc' = IF pollBad + 1 >= FailThreshold THEN "trigger" ELSE "tick"
  /\ UNCHANGED <<aiMode, aiLocked, stateHeld, modeCallVars, saverVars, stopPc, aiRestarts>>

\* The threshold is reached: TriggerFallback, or its refusal.
PollTriggers ==
  /\ modePollPc = "trigger" /\ ~stateHeld /\ ~aiLocked
  /\ stateHeld' = TRUE /\ aiLocked' = TRUE /\ modePollPc' = "fallback"
  /\ UNCHANGED <<aiMode, modeCallVars, pollBad, badRounds, saverVars, stopPc, aiRestarts>>

PollSetsMode ==
  /\ modePollPc = "fallback"
  /\ aiMode' = "fallback" /\ modePollPc' = "stuck"
  /\ UNCHANGED <<aiLocked, stateHeld, modeCallVars, pollBad, badRounds, saverVars, stopPc,
                 aiRestarts>>

PollRefused ==
  /\ modePollPc = "trigger" /\ ~stateHeld /\ aiLocked
  /\ modePollPc' = "tick" /\ pollBad' = 0 /\ badRounds' = 0
  /\ UNCHANGED <<aiMode, aiLocked, stateHeld, modeCallVars, saverVars, stopPc, aiRestarts>>

\* Stop cancels the context and waits for the poller.
CallStop ==
  /\ stopPc = "idle" /\ modePollPc # "idle"
  /\ stopPc' = "waits"
  /\ UNCHANGED <<aiMode, aiLocked, stateHeld, modeCallVars, pollVars, saverVars, aiRestarts>>

PollEnds ==
  /\ modePollPc = "tick" /\ stopPc = "waits"
  /\ modePollPc' = "ended"
  /\ UNCHANGED <<aiMode, aiLocked, stateHeld, modeCallVars, pollBad, badRounds, saverVars,
                 stopPc, aiRestarts>>

StopReturns ==
  /\ stopPc = "waits" /\ modePollPc = "ended"
  /\ stopPc' = "stopped"
  /\ UNCHANGED <<aiMode, aiLocked, stateHeld, modeCallVars, pollVars, saverVars, aiRestarts>>
-----------------------------------------------------------------------------
\* persistState takes no lock, and the mode and the lock one after the other.
SaverReadsMode(s) ==
  /\ saverPc[s] = "mode"
  /\ saverRead' = [saverRead EXCEPT ![s] = <<aiMode, FALSE>>]
  /\ saverPc' = [saverPc EXCEPT ![s] = "locked"]
  /\ UNCHANGED <<aiMode, aiLocked, stateHeld, modeCallVars, pollVars, modeFile, stopPc,
                 aiRestarts>>

SaverReadsLock(s) ==
  /\ saverPc[s] = "locked"
  /\ saverRead' = [saverRead EXCEPT ![s] = <<@[1], aiLocked>>]
  /\ saverPc' = [saverPc EXCEPT ![s] = "save"]
  /\ UNCHANGED <<aiMode, aiLocked, stateHeld, modeCallVars, pollVars, modeFile, stopPc,
                 aiRestarts>>

\* FileStore.Save: every save writes and renames the same temporary file, so
\* of two at a time one may fail, or publish what the other is writing.
SaveMode(s) ==
  /\ saverPc[s] = "save"
  /\ modeFile' \in {saverRead[s], modeFile}
                  \cup {Torn : r \in {r \in ModeSaver \ {s} : saverPc[r] = "save"}}
  /\ saverPc' = [saverPc EXCEPT ![s] = "saved"]
  /\ UNCHANGED <<aiMode, aiLocked, stateHeld, modeCallVars, pollVars, saverRead, stopPc,
                 aiRestarts>>

\* Start in a new process: a file that cannot be decoded leaves the default.
ControllerRestart ==
  /\ aiRestarts < MaxRestart /\ aiRestarts' = aiRestarts + 1
  /\ aiMode' = IF modeFile \in {NoFile, Torn} THEN "proxy" ELSE modeFile[1]
  /\ aiLocked' = modeFile[2]
  /\ modePc' = [c \in ModeCall |-> "idle"] /\ modeArg' = [c \in ModeCall |-> "none"]
  /\ modePollPc' = "idle" /\ pollBad' = 0 /\ badRounds' = 0 /\ stopPc' = "idle" /\ stateHeld' = FALSE
  /\ saverPc' = [s \in ModeSaver |-> IF saverPc[s] = "unused" THEN "unused" ELSE "saved"]
  /\ UNCHANGED <<saverRead, modeFile>>
-----------------------------------------------------------------------------
PollStep == PollTick \/ ProbesGood \/ ProbesBad \/ PollTriggers \/ PollSetsMode \/ PollRefused \/ PollEnds

AIModeNext ==
  \/ \E c \in ModeCall :
       \/ LookAtLock(c) \/ StoreMode(c) \/ EndFallback(c) \/ EndsWithProxy(c)
       \/ TriggerFallback(c) \/ TriggerSetsMode(c)
       \/ \E m \in Mode : CallSetMode(c, m)
       \/ \E s \in ModeSaver : NoteMode(c, s)
  \/ PollHealth \/ PollStep \/ CallStop \/ StopReturns
  \/ \E s \in ModeSaver : \/ SaverReadsMode(s) \/ SaverReadsLock(s)
                          \/ SaveMode(s)
  \/ ControllerRestart

AIModeSpec == AIModeInit /\ [][AIModeNext]_aiVars
-----------------------------------------------------------------------------
AIModeTypeOK ==
  /\ aiMode \in Mode /\ aiLocked \in BOOLEAN /\ stateHeld \in BOOLEAN
  /\ \A c \in ModeCall : modePc[c] \in {"idle", "look", "set", "note", "end", "trigger", "stuck"}
                         /\ modeArg[c] \in Mode \cup {"none"}
  /\ modePollPc \in {"idle", "tick", "probe", "trigger", "fallback", "stuck", "ended"}
  /\ pollBad \in 0..FailThreshold /\ badRounds \in 0..FailThreshold
  /\ modeFile \in (Mode \X BOOLEAN) \cup {NoFile, Torn}
  /\ stopPc \in {"idle", "waits", "stopped"}

\* While the fallback is locked the mode is left by nobody who could have seen
\* the lock: only by a SetMode that had looked before, or by the end of the
\* fallback or of the process.
LockedModeKept ==
  aiLocked /\ aiMode = "fallback" /\ aiMode' # "fallback" /\ aiRestarts' = aiRestarts =>
    \E c \in ModeCall : modePc[c] = "set" /\ stateHeld

\* The poller asks for a fallback after FailThreshold bad rounds on end.
FallbackEarned == modePollPc \in {"trigger", "fallback"} => badRounds >= FailThreshold
=============================================================================
