------------------------------ MODULE Repairs ------------------------------
(***************************************************************************)
(* The rest of internal/selfhealing/self_healing.go: failures and          *)
(* incidents, the log of actions, patches, and Shutdown of the two         *)
(* cleaners.                                                               *)
(*                                                                         *)
(* An incident is named by its node and the second of the clock.  RCA      *)
(* hooks, repair plugins and reports read only.                            *)
(***************************************************************************)
EXTENDS Naturals, FiniteSets, Sequences

CONSTANTS HealCall, FailNode, Patch,  \* callers, nodes, patches (all for one path)
          MaxSecond,  \* bound: seconds of the clock
          MaxFailure, \* bound: failures reported
          MaxAction   \* bound: actions logged

ASSUME RepairsAssumption ==
  MaxSecond \in Nat \ {0} /\ MaxFailure \in Nat /\ MaxAction \in Nat

VARIABLES
  second,
  failures,   \* s.events: sequence of [node, second]
  incidents,  \* s.incidents: [node and second -> number of the failure], 0 when there is none
  actions,    \* s.actions: sequence of [by, done, open]: open while it is carried out
  patches,    \* [Patch -> "absent", "proposed", "applied"]
  patchTmp, patchTarget,  \* the path's temporary file and the path: a patch or "none"
  written,    \* history: patches that have been the content of the path
  patchesOverlap,  \* history: two ApplyPatch have overlapped
  healPc, healArg, \* [HealCall -> place of the call], [HealCall -> its variable]
  stopBg, cleaners \* the channel is closed; cleaners that run

healLog == <<second, failures, incidents, actions>>
healPatches == <<patches, patchTmp, patchTarget, written, patchesOverlap>>
healStop == <<stopBg, cleaners>>
healVars == <<healLog, healPatches, healPc, healArg, healStop>>

HealInit ==
  /\ second = 1
  /\ failures = <<>>
  /\ incidents = [i \in FailNode \X (1..MaxSecond) |-> 0]
  /\ actions = <<>>
  /\ patches = [p \in Patch |-> "absent"]
  /\ patchTmp = "none" /\ patchTarget = "none"
  /\ written = {} /\ patchesOverlap = FALSE
  /\ healPc = [c \in HealCall |-> "idle"] /\ healArg = [c \in HealCall |-> "none"]
  /\ stopBg = FALSE /\ cleaners = {"counts", "approvals"}

HealGoto(c, place) == healPc' = [healPc EXCEPT ![c] = place]
HealEnter(c, place, x) == healPc[c] = "idle" /\ HealGoto(c, place) /\ healArg' = [healArg EXCEPT ![c] = x]
HealReturn(c) == HealGoto(c, "idle") /\ healArg' = [healArg EXCEPT ![c] = "none"]
-----------------------------------------------------------------------------
HealSecondPasses ==
  /\ second < MaxSecond
  /\ second' = second + 1
  /\ UNCHANGED <<failures, incidents, actions, healPatches, healPc, healArg, healStop>>

\* A new incident, in place of one of the same node and second.
ReportFailure(n) ==
  /\ Len(failures) < MaxFailure
  /\ failures' = Append(failures, [node |-> n, second |-> second])
  /\ incidents' = [incidents EXCEPT ![<<n, second>>] = Len(failures) + 1]
  /\ UNCHANGED <<second, actions, healPatches, healPc, healArg, healStop>>

\* ApplyRepair logs the action before it is carried out.
ApplyRepair(c) ==
  /\ Len(actions) < MaxAction
  /\ HealEnter(c, "repair", "none")
  /\ actions' = Append(actions, [by |-> c, done |-> FALSE, open |-> TRUE])
  /\ UNCHANGED <<second, failures, incidents, healPatches, healStop>>

OwnAction(c) == {i \in DOMAIN actions : actions[i].by = c /\ actions[i].open}

\* It has been carried out; or the caller's context ends first, and the log stays.
EndRepair(c, done) ==
  /\ healPc[c] = "repair"
  /\ actions' = [i \in DOMAIN actions |->
                   IF i \in OwnAction(c) THEN [actions[i] EXCEPT !.done = done, !.open = FALSE]
                   ELSE actions[i]]
  /\ HealReturn(c)
  /\ UNCHANGED <<second, failures, incidents, healPatches, healStop>>

\* One step of ApplyPlaybook, which an approval or autoApprove has let in.
PlaybookStep(c) ==
  /\ healPc[c] = "idle"
  /\ Len(actions) < MaxAction
  /\ actions' = Append(actions, [by |-> c, done |-> TRUE, open |-> FALSE])
  /\ UNCHANGED <<second, failures, incidents, healPatches, healPc, healArg, healStop>>
-----------------------------------------------------------------------------
\* Registered before its file is written, and whether or not that succeeds.
ProposePatch(p) ==
  /\ patches[p] = "absent"
  /\ patches' = [patches EXCEPT ![p] = "proposed"]
  /\ UNCHANGED <<healLog, patchTmp, patchTarget, written, patchesOverlap, healPc, healArg,
                 healStop>>

ApplyPatch(c, p) ==
  /\ patches[p] # "absent"
  /\ HealEnter(c, "write", p)
  /\ patchesOverlap' = (patchesOverlap \/ \E d \in HealCall : healPc[d] \in {"write", "rename"})
  /\ UNCHANGED <<healLog, patches, patchTmp, patchTarget, written, healStop>>

\* Faulty variant: applied as soon as it is being written.
AppliedAtWrite(c) == [patches EXCEPT ![healArg[c]] = "applied"]

PatchesAtWrite(c) == patches

WritePatch(c) ==
  /\ healPc[c] = "write"
  /\ patchTmp' = healArg[c]
  /\ patches' = PatchesAtWrite(c)
  /\ HealGoto(c, "rename")
  /\ UNCHANGED <<healLog, patchTarget, written, patchesOverlap, healArg, healStop>>

\* The write fails, and the call returns the error.
WritePatchFails(c) ==
  /\ healPc[c] = "write"
  /\ HealReturn(c)
  /\ UNCHANGED <<healLog, healPatches, healStop>>

\* The temporary file may be another call's, or gone: an error.
RenamePatch(c) ==
  /\ healPc[c] = "rename"
  /\ IF patchTmp = "none" THEN UNCHANGED <<patches, patchTarget, written>>
     ELSE /\ patchTarget' = patchTmp
          /\ written' = written \cup {patchTmp}
          /\ patches' = [patches EXCEPT ![healArg[c]] = "applied"]
  /\ patchTmp' = "none"
  /\ HealReturn(c)
  /\ UNCHANGED <<healLog, patchesOverlap, healStop>>
-----------------------------------------------------------------------------
Shutdown(c) ==
  /\ HealEnter(c, "shutdown", "none")
  /\ stopBg' = TRUE
  /\ UNCHANGED <<healLog, healPatches, cleaners>>

MayEnd(w) == stopBg

CleanerEnds(w) ==
  /\ w \in cleaners
  /\ stopBg /\ MayEnd(w)
  /\ cleaners' = cleaners \ {w}
  /\ UNCHANGED <<healLog, healPatches, healPc, healArg, stopBg>>

\* All cleaners have ended.
ShutdownEnds(c) ==
  /\ healPc[c] = "shutdown"
  /\ cleaners = {}
  /\ HealReturn(c)
  /\ UNCHANGED <<healLog, healPatches, healStop>>
-----------------------------------------------------------------------------
HealNext ==
  \/ HealSecondPasses
  \/ \E n \in FailNode : ReportFailure(n)
  \/ \E p \in Patch : ProposePatch(p)
  \/ \E c \in HealCall :
       \/ ApplyRepair(c) \/ PlaybookStep(c) \/ (\E done \in BOOLEAN : EndRepair(c, done))
       \/ (\E p \in Patch : ApplyPatch(c, p)) \/ WritePatch(c) \/ WritePatchFails(c) \/ RenamePatch(c)
       \/ Shutdown(c) \/ ShutdownEnds(c)
  \/ \E w \in cleaners : CleanerEnds(w)

HealSpec == HealInit /\ [][HealNext]_healVars
-----------------------------------------------------------------------------
HealTypeOK ==
  /\ second \in 1..MaxSecond
  /\ \A i \in DOMAIN incidents : incidents[i] \in 0..MaxFailure
  /\ Len(actions) <= MaxAction
  /\ patches \in [Patch -> {"absent", "proposed", "applied"}]
  /\ patchTmp \in Patch \cup {"none"} /\ patchTarget \in Patch \cup {"none"}
  /\ healPc \in [HealCall -> {"idle", "repair", "write", "rename", "shutdown"}]

\* A patch that counts as applied has been the content of its file, unless two
\* applications, which share the temporary file, have overlapped.
AppliedWasWritten == \A p \in Patch : patches[p] = "applied" => p \in written \/ patchesOverlap

\* Shutdown returns (its caller's context aside).
ShutdownReturns == \A c \in HealCall : healPc[c] = "shutdown" ~> healPc[c] = "idle"
=============================================================================
