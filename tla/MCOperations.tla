--------------------------- MODULE MCOperations -----------------------------
(* What operates the platform: microtasks, tool builds, scaling and its      *)
(* leader, the mode controller, service monitoring, shared connections and   *)
(* plugins.                                                                  *)
(* They share no state: part tells which of them a behaviour is of, and the  *)
(* others stay where they start.                                             *)
EXTENDS MicroTask, ToolChain, Scaling, LeaderLease, AIMode, Monitor, FabricConns,
        CfePlugins

VARIABLE part   \* the component that runs

Parts == {"microtask", "tools", "scaling", "lease", "mode", "monitor", "fabric", "plugins"}
operationsVars == <<part, vars, toolVars, scVars, leaseVars, aiVars, monitorVars,
                      fabricVars, plVars>>

OperationsInit ==
  /\ part \in Parts
  /\ Init
  /\ ToolInit
  /\ ScInit /\ (part # "scaling" => ~dryRun)
  /\ LeaseInit
  /\ AIModeInit
  /\ MonitorInit
  /\ FabricInit
  /\ PluginsInit

Others(p) ==
  /\ p # "microtask" => UNCHANGED vars
  /\ p # "tools" => UNCHANGED toolVars
  /\ p # "scaling" => UNCHANGED scVars
  /\ p # "lease" => UNCHANGED leaseVars
  /\ p # "mode" => UNCHANGED aiVars
  /\ p # "monitor" => UNCHANGED monitorVars
  /\ p # "fabric" => UNCHANGED fabricVars
  /\ p # "plugins" => UNCHANGED plVars

OperationsNext ==
  /\ part' = part
  /\ \/ part = "microtask" /\ Next /\ Others("microtask")
     \/ part = "tools" /\ ToolNext /\ Others("tools")
     \/ part = "scaling" /\ ScNext /\ Others("scaling")
     \/ part = "lease" /\ LeaseNext /\ Others("lease")
     \/ part = "mode" /\ AIModeNext /\ Others("mode")
     \/ part = "monitor" /\ MonitorNext /\ Others("monitor")
     \/ part = "fabric" /\ FabricNext /\ Others("fabric")
     \/ part = "plugins" /\ PluginsNext /\ Others("plugins")
OperationsSpec == OperationsInit /\ [][OperationsNext]_operationsVars

\* What is built, deployed or registered is what was asked for: one valid build
\* for each tool, whole targets within the hourly quota, plugins with their files.
BuildsSafe ==
  /\ part = "tools" => ToolTypeOK /\ OneBuildPerTool /\ BuiltIsValid /\ TargetWhole /\ HourlyQuota
  /\ part = "plugins" => PluginTypeOK /\ EntryHasItsFile

\* One bootstrap at a time, as many as attempts and the hour allow, over restarts
\* too; and a leader whose flag and key belong together.
ScalingSafe ==
  /\ part = "scaling" => ScTypeOK /\ OneBootstrap /\ BootstrapsBounded /\ RateAcrossRestart
  /\ part = "lease" => LeaseTypeOK /\ FlagMeansKey /\ LostKeyUnrenewed

\* No shared connection is used after it was closed, nor lost from the cache
\* while it is the latest.
ConnectionsSafe ==
  /\ part = "fabric" => FabricTypeOK /\ NoUseAfterClose /\ LatestStaysCached

\* What is observed was so: samples in their order beside readers, and as many
\* bad rounds as a fallback takes.
ObservedRight ==
  /\ part = "monitor" => MonitorTypeOK /\ ListIsTail /\ LatestNotOlder
  /\ part = "mode" => AIModeTypeOK /\ FallbackEarned

\* No step comes too early: a bootstrap within the backoff, a way out of a locked
\* fallback, a restart within the cooldown.
OperationsKept == [][BackoffKept /\ LockedModeKept /\ HealSpaced]_operationsVars
=============================================================================
