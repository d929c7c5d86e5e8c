------------------------------ MODULE Monitor ------------------------------
(***************************************************************************)
(* ServiceMonitor of monitoring/service_monitor.go for one service: Report *)
(* with the ring of the last samples, the snapshot, and the restart by the *)
(* auto healer with its cooldown; subscribers are told and change nothing. *)
(*                                                                         *)
(* Samples are numbered in the order in which they are pushed; whether a   *)
(* snapshot calls for a restart is left open.                              *)
(***************************************************************************)
EXTENDS Naturals, Sequences

CONSTANTS Reporter,
          RingSize,      \* HistorySize
          Cooldown,      \* AutoHealCooldown
          MaxSample,     \* bound: reports
          MaxClock       \* bound: time

ASSUME MonitorAssumption == /\ RingSize \in Nat \ {0} /\ Cooldown \in Nat
                            /\ MaxSample \in Nat /\ MaxClock \in Nat \ {0}

VARIABLES
  ring, ringPtr, ringFull,  \* rollingWindow: samples, 0 where there is none
  pushed,        \* samples so far
  reportPc,      \* [Reporter -> place]
  reportOwn,     \* [Reporter -> its sample, and the time of its push]
  reportSeen,    \* [Reporter -> the samples listed, the latest one]
  reportLast,    \* [Reporter -> lastAutoHeal as it was read]
  lastHeal,      \* lastAutoHeal, 0 for never
  endedAt,       \* history: when the last restart ended
  healing,       \* [Reporter -> its goroutine is in Restart]
  clock

ringVars == <<ring, ringPtr, ringFull, pushed>>
reportVars == <<reportPc, reportOwn, reportSeen, reportLast>>
monitorVars == <<ringVars, reportVars, lastHeal, endedAt, healing, clock>>

MonitorInit ==
  /\ ring = [i \in 0..RingSize - 1 |-> 0] /\ ringPtr = 0 /\ ringFull = FALSE /\ pushed = 0
  /\ reportPc = [r \in Reporter |-> "idle"] /\ reportOwn = [r \in Reporter |-> <<0, 0>>]
  /\ reportSeen = [r \in Reporter |-> <<<<>>, 0>>] /\ reportLast = [r \in Reporter |-> 0]
  /\ lastHeal = 0 /\ endedAt = 0 /\ healing = [r \in Reporter |-> FALSE] /\ clock = 1

ReportGoto(r, place) == reportPc' = [reportPc EXCEPT ![r] = place]
-----------------------------------------------------------------------------
Push(r) ==
  /\ reportPc[r] = "idle" /\ pushed < MaxSample
  /\ pushed' = pushed + 1
  /\ ring' = [ring EXCEPT ![ringPtr] = pushed + 1]
  /\ ringPtr' = (ringPtr + 1) % RingSize
  /\ ringFull' = (ringFull \/ ringPtr + 1 = RingSize)
  /\ reportOwn' = [reportOwn EXCEPT ![r] = <<pushed + 1, clock>>]
  /\ ReportGoto(r, "latest")
  /\ UNCHANGED <<reportSeen, reportLast, lastHeal, endedAt, healing, clock>>

\* Faulty variant: the place the next sample goes to.
LatestAtPtr == ring[ringPtr]

Latest == ring[(ringPtr + RingSize - 1) % RingSize]

ListedSamples ==
  IF ringFull THEN [i \in 1..RingSize |-> ring[(ringPtr + i - 1) % RingSize]]
  ELSE [i \in 1..ringPtr |-> ring[i - 1]]

\* evaluateSnapshot takes the latest sample and then the list, and the ring's
\* lock for each.
TakeLatest(r) ==
  /\ reportPc[r] = "latest"
  /\ reportSeen' = [reportSeen EXCEPT ![r] = <<<<>>, Latest>>]
  /\ ReportGoto(r, "list")
  /\ UNCHANGED <<ringVars, reportOwn, reportLast, lastHeal, endedAt, healing, clock>>

TakeList(r) ==
  /\ reportPc[r] = "list"
  /\ reportSeen' = [reportSeen EXCEPT ![r] = <<ListedSamples, @[2]>>]
  /\ ReportGoto(r, "heal")
  /\ UNCHANGED <<ringVars, reportOwn, reportLast, lastHeal, endedAt, healing, clock>>
-----------------------------------------------------------------------------
ReadLastHeal(r) ==
  /\ reportPc[r] = "heal"
  /\ reportLast' = [reportLast EXCEPT ![r] = lastHeal]
  /\ ReportGoto(r, "decide")
  /\ UNCHANGED <<ringVars, reportOwn, reportSeen, lastHeal, endedAt, healing, clock>>

\* Not enabled, or the snapshot is well: no restart.
NoHeal(r) ==
  /\ reportPc[r] = "decide"
  /\ ReportGoto(r, "idle")
  /\ UNCHANGED <<ringVars, reportOwn, reportSeen, reportLast, lastHeal, endedAt, healing,
                 clock>>

Cooled(r) == reportLast[r] = 0 \/ clock - reportLast[r] >= Cooldown

StartHeal(r) ==
  /\ reportPc[r] = "decide" /\ Cooled(r) /\ ~healing[r]
  /\ healing' = [healing EXCEPT ![r] = TRUE]
  /\ ReportGoto(r, "idle")
  /\ UNCHANGED <<ringVars, reportOwn, reportSeen, reportLast, lastHeal, endedAt, clock>>

Stamp(ok) == clock

\* Restart returns, with an error or without one.
HealEnds(r, ok) ==
  /\ healing[r]
  /\ healing' = [healing EXCEPT ![r] = FALSE]
  /\ lastHeal' = Stamp(ok) /\ endedAt' = clock
  /\ UNCHANGED <<ringVars, reportVars, clock>>

ClockTicks ==
  /\ clock < MaxClock
  /\ clock' = clock + 1
  /\ UNCHANGED <<ringVars, reportVars, lastHeal, endedAt, healing>>
-----------------------------------------------------------------------------
MonitorNext ==
  \/ \E r \in Reporter :
       \/ Push(r) \/ TakeLatest(r) \/ TakeList(r) \/ ReadLastHeal(r)
       \/ NoHeal(r) \/ StartHeal(r) \/ \E ok \in BOOLEAN : HealEnds(r, ok)
  \/ ClockTicks

MonitorSpec == MonitorInit /\ [][MonitorNext]_monitorVars
-----------------------------------------------------------------------------
MonitorTypeOK ==
  /\ ringPtr \in 0..RingSize - 1 /\ pushed \in 0..MaxSample /\ clock \in 1..MaxClock
  /\ \A i \in DOMAIN ring : ring[i] \in 0..MaxSample
  /\ \A r \in Reporter : reportPc[r] \in {"idle", "latest", "list", "heal", "decide"}
                         /\ healing[r] \in BOOLEAN /\ reportLast[r] \in 0..MaxClock
  /\ lastHeal \in 0..MaxClock

\* The list of a snapshot is the last samples in the order of their reports, as
\* many as the ring holds, wherever the ring has wrapped around, and it has the
\* report's own sample or as many later ones.
ListIsTail ==
  \A r \in Reporter : reportPc[r] = "heal" =>
    LET list == reportSeen[r][1] IN
    /\ \A i \in 1..Len(list) - 1 : list[i + 1] = list[i] + 1
    /\ Len(list) = IF list[Len(list)] < RingSize THEN list[Len(list)] ELSE RingSize
    /\ list[Len(list)] >= reportOwn[r][1]

\* The latest sample of a snapshot is not older than the one reported, nor newer
\* than the list taken after it.
LatestNotOlder ==
  \A r \in Reporter : reportPc[r] = "heal" =>
    LET list == reportSeen[r][1] IN
    reportOwn[r][1] <= reportSeen[r][2] /\ reportSeen[r][2] <= list[Len(list)]

\* A restart waits for the cooldown of every restart, failed ones too, that had
\* ended before its report.
HealSpaced ==
  \A r \in Reporter : healing'[r] /\ ~healing[r] =>
    (endedAt # 0 /\ endedAt < reportOwn[r][2] => clock - endedAt >= Cooldown)
=============================================================================
