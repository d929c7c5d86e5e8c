----------------------------- MODULE CfePlugins -----------------------------
(* internal/cryptoengine/cfe_engine.go: RegisterPluginByToken and CallPlugin. *)
(* A plugin binary has a build; deployments bring new builds of the file that *)
(* is registered, under one base name and one plugin name, so each of them    *)
(* goes to the same file in PluginDir.  The process that runs a plugin is     *)
(* external.                                                                  *)
EXTENDS Integers, FiniteSets

CONSTANTS Registrar,     \* goroutines in RegisterPluginByToken
          PluginCall,    \* goroutines in CallPlugin
          MaxBuild,      \* bound on the builds
          PluginCrashes  \* bound on the crashes

ASSUME CfePluginsAssumption == MaxBuild \in Nat \ {0} /\ PluginCrashes \in Nat

VARIABLES plSource,    \* the build at pluginPath
          plFile,      \* the file in PluginDir: 0 for none, a build, or part of one
          plEntry,     \* plugins: the build that is registered, 0 for none
          plRegister,  \* RegisterPluginByToken calls
          plCall,      \* CallPlugin calls
          plCrashes,
          plClash      \* two registrations were past os.Stat at once

plVars == <<plSource, plFile, plEntry, plRegister, plCall, plCrashes, plClash>>

NoBuild == 0
Part == -1       \* WriteFile has begun
NotRegistering == [step |-> "idle", build |-> NoBuild]

PluginsInit ==
  /\ plSource = 1 /\ plFile = NoBuild /\ plEntry = NoBuild
  /\ plRegister = [r \in Registrar |-> NotRegistering]
  /\ plCall = [c \in PluginCall |-> "idle"]
  /\ plCrashes = 0 /\ plClash = FALSE

RegisterTo(r, register) == plRegister' = [plRegister EXCEPT ![r] = register]
PastStat == {r \in Registrar : plRegister[r].step \in {"create", "writing", "copied"}}

(* the pipeline puts a new build where plugins are registered from            *)
NewBuild ==
  /\ plSource < MaxBuild /\ plSource' = plSource + 1
  /\ UNCHANGED <<plFile, plEntry, plRegister, plCall, plCrashes, plClash>>

(* the file is read, its HMAC is the token's, and --meta gives the name       *)
ReadPlugin(r) ==
  /\ plRegister[r].step = "idle"
  /\ RegisterTo(r, [step |-> "checked", build |-> plSource])
  /\ UNCHANGED <<plSource, plFile, plEntry, plCall, plCrashes, plClash>>

(* token mismatch, a failed --meta, or a name or version that is missing      *)
RefusePlugin(r) ==
  /\ plRegister[r].step = "checked" /\ RegisterTo(r, NotRegistering)
  /\ UNCHANGED <<plSource, plFile, plEntry, plCall, plCrashes, plClash>>

(* a file that is there is never replaced                                     *)
MayCopyPlugin == plFile = NoBuild

StatDestination(r) ==
  /\ plRegister[r].step = "checked"
  /\ RegisterTo(r, IF MayCopyPlugin THEN [plRegister[r] EXCEPT !.step = "create"] ELSE NotRegistering)
  /\ plClash' = (plClash \/ (MayCopyPlugin /\ PastStat # {}))
  /\ UNCHANGED <<plSource, plFile, plEntry, plCall, plCrashes>>

(* os.WriteFile truncates, and then writes; it may fail in between            *)
CreatePlugin(r) ==
  /\ plRegister[r].step = "create"
  /\ plFile' = Part /\ RegisterTo(r, [plRegister[r] EXCEPT !.step = "writing"])
  /\ UNCHANGED <<plSource, plEntry, plCall, plCrashes, plClash>>

WritePlugin(r) ==
  /\ plRegister[r].step = "writing"
  /\ plFile' = plRegister[r].build /\ RegisterTo(r, [plRegister[r] EXCEPT !.step = "copied"])
  /\ UNCHANGED <<plSource, plEntry, plCall, plCrashes, plClash>>

WritePluginFails(r) ==
  /\ plRegister[r].step = "writing" /\ RegisterTo(r, NotRegistering)
  /\ UNCHANGED <<plSource, plFile, plEntry, plCall, plCrashes, plClash>>

EnterPlugin(r) ==
  /\ plRegister[r].step = "copied"
  /\ plEntry' = plRegister[r].build /\ RegisterTo(r, NotRegistering)
  /\ UNCHANGED <<plSource, plFile, plCall, plCrashes, plClash>>

-----------------------------------------------------------------------------
(* CallPlugin looks the entry up under the lock and starts its path without   *)
FindPlugin(c) ==
  /\ plCall[c] \in {"idle", "ok", "failed"} /\ plEntry # NoBuild
  /\ plCall' = [plCall EXCEPT ![c] = "found"]
  /\ UNCHANGED <<plSource, plFile, plEntry, plRegister, plCrashes, plClash>>

(* a file that is being written cannot be run                                 *)
CanStart == plFile \in 1..MaxBuild
RunPlugin(c) ==
  /\ plCall[c] = "found"
  /\ plCall' = [plCall EXCEPT ![c] = IF CanStart THEN "running" ELSE "failed"]
  /\ UNCHANGED <<plSource, plFile, plEntry, plRegister, plCrashes, plClash>>

(* its output ends, or the timeout kills it                                   *)
PluginEnds(c) ==
  /\ plCall[c] = "running" /\ plCall' = [plCall EXCEPT ![c] = "ok"]
  /\ UNCHANGED <<plSource, plFile, plEntry, plRegister, plCrashes, plClash>>

(* the engine dies: the file stays, and the entries do not                    *)
EngineCrash ==
  /\ plCrashes < PluginCrashes /\ plCrashes' = plCrashes + 1
  /\ plEntry' = NoBuild
  /\ plRegister' = [r \in Registrar |-> NotRegistering]
  /\ plCall' = [c \in PluginCall |-> "idle"]
  /\ UNCHANGED <<plSource, plFile, plClash>>

PluginsNext ==
  \/ NewBuild \/ EngineCrash
  \/ \E r \in Registrar : \/ ReadPlugin(r) \/ RefusePlugin(r) \/ StatDestination(r) \/ CreatePlugin(r)
                          \/ WritePlugin(r) \/ WritePluginFails(r) \/ EnterPlugin(r)
  \/ \E c \in PluginCall : FindPlugin(c) \/ RunPlugin(c) \/ PluginEnds(c)

PluginsSpec == PluginsInit /\ [][PluginsNext]_plVars

-----------------------------------------------------------------------------
PluginTypeOK ==
  /\ plSource \in 1..MaxBuild /\ plFile \in Part..MaxBuild /\ plEntry \in 0..MaxBuild
  /\ \A r \in Registrar : plRegister[r].step \in {"idle", "checked", "create", "writing", "copied"}
  /\ \A c \in PluginCall : plCall[c] \in {"idle", "found", "running", "ok", "failed"}
  /\ plCrashes \in 0..PluginCrashes /\ plClash \in BOOLEAN

(* The file of a registered plugin is whole and of the build that was         *)
(* registered, so that a call finds what it was told of, unless two           *)
(* registrations had both found no file and one then writes over the other's. *)
EntryHasItsFile == (plEntry # NoBuild /\ ~plClash) => plFile = plEntry
=============================================================================
