----------------------------- MODULE ToolChain -----------------------------
(***************************************************************************)
(* The tools of internal/selfhealing/self_healing.go: CreateTool,          *)
(* BuildTool under a lock for each tool, ApproveDeploy and DeployTool with *)
(* its hourly quota.                                                       *)
(*                                                                         *)
(* A ToolMeta is shared by pointer: a build reads the one in s.tools,      *)
(* validates the one that is there by then, and puts its own one back.  A  *)
(* binary is known by the source it was built from, and so is the content  *)
(* of a target.  RunTool and the dry runs keep no state.                   *)
(***************************************************************************)
EXTENDS Naturals, FiniteSets

CONSTANTS ToolCall,  \* callers
          Tool, Target,
          Prod,      \* targets that need an approval
          Source, Dangerous,  \* sources, and those ValidateTool refuses
          MaxMeta,   \* bound: ToolMeta objects made
          MaxHour,   \* bound: hours that begin
          MaxDeploy  \* safety.MaxToolDeployPerHour

ASSUME ToolAssumption ==
  /\ Prod \subseteq Target /\ Dangerous \subseteq Source
  /\ MaxMeta \in Nat /\ MaxHour \in Nat \ {0} /\ MaxDeploy \in Nat
  /\ IsFiniteSet(Tool) /\ IsFiniteSet(ToolCall)
  /\ "none" \notin ToolCall /\ "part" \notin Source

Meta == 1..MaxMeta
Hour == 1..MaxHour

VARIABLES
  tools,       \* s.tools: [Tool -> Meta], 0 when there is none
  metaSource, metaBinary,  \* [Meta -> source], [Meta -> binary or "none"]
  madeMetas,   \* how many have been made
  binDir,      \* [Tool -> executables in its bin directory]
  toolLocks,   \* toolBuildLocks: [Tool -> number of its lock], 0 when there is none
  lockOwner,   \* [lock -> caller or "none"]
  toolPc, toolArg,  \* [ToolCall -> place of the call], [ToolCall -> its variables]
  recreatedIn, \* history: [ToolCall -> its tool was created anew during the call]
  approvals,   \* approvals that have not expired: pairs of a tool and a target
  hour,        \* the hour of the clock
  deployCounts, \* toolDeployCounts: [Hour -> number]
  admitted,    \* history: [Hour -> deployments that passed the quota in that hour]
  tmpFile, targetFile,  \* [Target -> content: a binary, "none", or "part"]
  deploysOverlap  \* history: targets two deployments have written at once

toolRegistry == <<tools, metaSource, metaBinary, madeMetas, binDir>>
toolLocking == <<toolLocks, lockOwner>>
toolQuota == <<hour, deployCounts, admitted>>
toolFiles == <<tmpFile, targetFile, deploysOverlap>>
toolVars == <<toolRegistry, toolLocking, toolPc, toolArg, recreatedIn, approvals, toolQuota, toolFiles>>

Lock == 1..(Cardinality(Tool) + Cardinality(ToolCall))
NoToolArg == [tool |-> "none", meta |-> 0, lock |-> 0, target |-> "none", hour |-> 0]

ToolInit ==
  /\ tools = [t \in Tool |-> 0]
  /\ metaSource = [m \in Meta |-> "none"] /\ metaBinary = [m \in Meta |-> "none"]
  /\ madeMetas = 0
  /\ binDir = [t \in Tool |-> {}]
  /\ toolLocks = [t \in Tool |-> 0] /\ lockOwner = [l \in Lock |-> "none"]
  /\ toolPc = [c \in ToolCall |-> "idle"] /\ toolArg = [c \in ToolCall |-> NoToolArg]
  /\ recreatedIn = [c \in ToolCall |-> FALSE]
  /\ approvals = {}
  /\ hour = 1
  /\ deployCounts = [h \in Hour |-> 0] /\ admitted = [h \in Hour |-> 0]
  /\ tmpFile = [x \in Target |-> "none"] /\ targetFile = [x \in Target |-> "none"]
  /\ deploysOverlap = {}

ToolGoto(c, place) == toolPc' = [toolPc EXCEPT ![c] = place]
ToolReturn(c) ==
  /\ ToolGoto(c, "idle")
  /\ toolArg' = [toolArg EXCEPT ![c] = NoToolArg]
  /\ recreatedIn' = [recreatedIn EXCEPT ![c] = FALSE]
-----------------------------------------------------------------------------
\* A fresh ToolMeta, not built, in place of the one the tool has.
CreateTool(t, s) ==
  /\ madeMetas < MaxMeta
  /\ madeMetas' = madeMetas + 1
  /\ metaSource' = [metaSource EXCEPT ![madeMetas + 1] = s]
  /\ tools' = [tools EXCEPT ![t] = madeMetas + 1]
  /\ recreatedIn' = [c \in ToolCall |-> recreatedIn[c] \/ toolArg[c].tool = t]
  /\ UNCHANGED <<metaBinary, binDir, toolLocking, toolPc, toolArg, approvals, toolQuota,
                 toolFiles>>

CallBuild(c, t) ==
  /\ toolPc[c] = "idle"
  /\ ToolGoto(c, "find")
  /\ toolArg' = [toolArg EXCEPT ![c].tool = t]
  /\ UNCHANGED <<toolRegistry, toolLocking, recreatedIn, approvals, toolQuota, toolFiles>>

FreshLock == CHOOSE l \in Lock : \A t \in Tool : toolLocks[t] # l

\* Faulty variant: the map is not consulted.
LockAnew(t) == CHOOSE l \in Lock : \A c \in ToolCall : toolArg[c].lock # l

LockOf(t) == IF toolLocks[t] # 0 THEN toolLocks[t] ELSE FreshLock

\* lockTool: the lock of the tool, made when there is none yet; then it is taken.
FindLock(c) ==
  LET l == LockOf(toolArg[c].tool) IN
  /\ toolPc[c] = "find"
  /\ toolLocks' = [toolLocks EXCEPT ![toolArg[c].tool] = l]
  /\ toolArg' = [toolArg EXCEPT ![c].lock = l]
  /\ ToolGoto(c, "lock")
  /\ UNCHANGED <<toolRegistry, lockOwner, recreatedIn, approvals, toolQuota, toolFiles>>

TakeLock(c) ==
  /\ toolPc[c] = "lock"
  /\ lockOwner[toolArg[c].lock] = "none"
  /\ lockOwner' = [lockOwner EXCEPT ![toolArg[c].lock] = c]
  /\ ToolGoto(c, "meta")
  /\ UNCHANGED <<toolRegistry, toolLocks, toolArg, recreatedIn, approvals, toolQuota,
                 toolFiles>>

EndBuild(c) ==
  /\ lockOwner' = [lockOwner EXCEPT ![toolArg[c].lock] = "none"]
  /\ ToolReturn(c)

\* No such tool is an error.
ReadMeta(c) ==
  LET m == tools[toolArg[c].tool] IN
  /\ toolPc[c] = "meta"
  /\ IF m = 0 THEN EndBuild(c)
     ELSE /\ toolArg' = [toolArg EXCEPT ![c].meta = m]
          /\ ToolGoto(c, "validate")
          /\ UNCHANGED <<lockOwner, recreatedIn>>
  /\ UNCHANGED <<toolRegistry, toolLocks, approvals, toolQuota, toolFiles>>

\* Of the ToolMeta that is registered now.
ValidateTool(t) == metaSource[tools[t]] \notin Dangerous

Validate(c) ==
  /\ toolPc[c] = "validate"
  /\ IF ValidateTool(toolArg[c].tool)
     THEN ToolGoto(c, "build") /\ UNCHANGED <<lockOwner, toolArg, recreatedIn>>
     ELSE EndBuild(c)
  /\ UNCHANGED <<toolRegistry, toolLocks, approvals, toolQuota, toolFiles>>

\* The build command leaves a binary, or none; then the scanner may refuse it.
RunBuild(c, made, scanned) ==
  LET t == toolArg[c].tool IN
  /\ toolPc[c] = "build"
  /\ binDir' = IF made THEN [binDir EXCEPT ![t] = @ \cup {metaSource[toolArg[c].meta]}] ELSE binDir
  /\ IF scanned THEN ToolGoto(c, IF made THEN "register" ELSE "search")
                     /\ UNCHANGED <<lockOwner, toolArg, recreatedIn>>
     ELSE EndBuild(c)
  /\ UNCHANGED <<tools, metaSource, metaBinary, madeMetas, toolLocks, approvals, toolQuota,
                 toolFiles>>

\* The binary that was just made; or any executable of an earlier build.
RegisterBuild(c, binary) ==
  LET t == toolArg[c].tool
      m == toolArg[c].meta IN
  /\ \/ toolPc[c] = "register" /\ binary = metaSource[m]
     \/ toolPc[c] = "search" /\ binary \in (IF binDir[t] = {} THEN {"none"} ELSE binDir[t])
  /\ metaBinary' = [metaBinary EXCEPT ![m] = binary]
  /\ tools' = [tools EXCEPT ![t] = m]
  /\ EndBuild(c)
  /\ UNCHANGED <<metaSource, madeMetas, binDir, toolLocks, approvals, toolQuota, toolFiles>>

\* A command that failed, with no executable to be found, registers nothing.
BuildFails(c) ==
  /\ toolPc[c] = "search"
  /\ binDir[toolArg[c].tool] = {}
  /\ EndBuild(c)
  /\ UNCHANGED <<toolRegistry, toolLocks, approvals, toolQuota, toolFiles>>
-----------------------------------------------------------------------------
ApproveDeploy(t, x) ==
  /\ approvals' = approvals \cup {<<t, x>>}
  /\ UNCHANGED <<toolRegistry, toolLocking, toolPc, toolArg, recreatedIn, toolQuota, toolFiles>>

\* Its time is over: approvalCleaner, which removes it some day, changes nothing.
ApprovalEnds(t, x) ==
  /\ <<t, x>> \in approvals
  /\ approvals' = approvals \ {<<t, x>>}
  /\ UNCHANGED <<toolRegistry, toolLocking, toolPc, toolArg, recreatedIn, toolQuota, toolFiles>>

\* The tool, its binary and the approval; the hour is read before the lock.
DeployTool(c, t, x) ==
  LET m == tools[t] IN
  /\ toolPc[c] = "idle"
  /\ m # 0 /\ metaBinary[m] # "none"
  /\ x \in Prod => <<t, x>> \in approvals
  /\ toolArg' = [toolArg EXCEPT ![c] = [NoToolArg EXCEPT !.meta = m, !.target = x, !.hour = hour]]
  /\ ToolGoto(c, "quota")
  /\ UNCHANGED <<toolRegistry, toolLocking, recreatedIn, approvals, toolQuota, toolFiles>>

\* A dry run, and a target outside the store, end behind the quota.
TakeQuota(c, goesOn) ==
  LET h == toolArg[c].hour IN
  /\ toolPc[c] = "quota"
  /\ IF deployCounts[h] >= MaxDeploy
     THEN ToolReturn(c) /\ UNCHANGED <<deployCounts, admitted>>
     ELSE /\ deployCounts' = [deployCounts EXCEPT ![h] = @ + 1]
          /\ admitted' = IF h = hour THEN [admitted EXCEPT ![h] = @ + 1] ELSE admitted
          /\ IF goesOn THEN ToolGoto(c, "open") /\ UNCHANGED <<toolArg, recreatedIn>>
             ELSE ToolReturn(c)
  /\ UNCHANGED <<toolRegistry, toolLocking, approvals, hour, toolFiles>>

Writers(x) == {c \in ToolCall : toolArg[c].target = x /\ toolPc[c] \in {"copy", "rename"}}

\* copyFileAtomic opens the binary, which may fail, and truncates the temporary
\* file all deployments to the target share.
OpenBinary(c) ==
  LET x == toolArg[c].target IN
  /\ toolPc[c] = "open"
  /\ \/ ToolReturn(c) /\ UNCHANGED toolFiles
     \/ /\ tmpFile' = [tmpFile EXCEPT ![x] = "part"]
        /\ deploysOverlap' = IF Writers(x) = {} THEN deploysOverlap ELSE deploysOverlap \cup {x}
        /\ ToolGoto(c, "copy")
        /\ UNCHANGED <<toolArg, recreatedIn, targetFile>>
  /\ UNCHANGED <<toolRegistry, toolLocking, approvals, toolQuota>>

\* Content that two deployments have written into one file counts as partial.
CopyBinary(c) ==
  LET x == toolArg[c].target IN
  /\ toolPc[c] = "copy"
  /\ tmpFile' = [tmpFile EXCEPT ![x] = IF Writers(x) = {c} THEN metaBinary[toolArg[c].meta] ELSE "part"]
  /\ ToolGoto(c, "rename")
  /\ UNCHANGED <<toolRegistry, toolLocking, toolArg, recreatedIn, approvals, toolQuota,
                 targetFile, deploysOverlap>>

\* A copy that fails leaves the target alone.
CopyFails(c) ==
  /\ toolPc[c] = "copy"
  /\ tmpFile' = [tmpFile EXCEPT ![toolArg[c].target] = "none"]
  /\ ToolReturn(c)
  /\ UNCHANGED <<toolRegistry, toolLocking, approvals, toolQuota, targetFile, deploysOverlap>>

DeployCopied(c) == toolPc[c] = "rename"

RenameBinary(c) ==
  LET x == toolArg[c].target IN
  /\ DeployCopied(c)
  /\ targetFile' = IF tmpFile[x] = "none" THEN targetFile ELSE [targetFile EXCEPT ![x] = tmpFile[x]]
  /\ tmpFile' = [tmpFile EXCEPT ![x] = "none"]
  /\ ToolReturn(c)
  /\ UNCHANGED <<toolRegistry, toolLocking, approvals, toolQuota, deploysOverlap>>

ToolHourPasses ==
  /\ hour < MaxHour
  /\ hour' = hour + 1
  /\ UNCHANGED <<toolRegistry, toolLocking, toolPc, toolArg, recreatedIn, approvals,
                 deployCounts, admitted, toolFiles>>

PastHours == Hour \ {hour}

DeployCountsCleaner ==
  /\ deployCounts' = [h \in Hour |-> IF h \in PastHours THEN 0 ELSE deployCounts[h]]
  /\ UNCHANGED <<toolRegistry, toolLocking, toolPc, toolArg, recreatedIn, approvals, hour,
                 admitted, toolFiles>>
-----------------------------------------------------------------------------
ToolStep(c) ==
  \/ FindLock(c) \/ TakeLock(c) \/ ReadMeta(c) \/ Validate(c) \/ BuildFails(c)
  \/ \E made, scanned \in BOOLEAN : RunBuild(c, made, scanned)
  \/ \E b \in Source \cup {"none"} : RegisterBuild(c, b)
  \/ \E goesOn \in BOOLEAN : TakeQuota(c, goesOn)
  \/ OpenBinary(c) \/ CopyBinary(c) \/ CopyFails(c) \/ RenameBinary(c)

ToolNext ==
  \/ \E t \in Tool, s \in Source : CreateTool(t, s)
  \/ \E c \in ToolCall, t \in Tool :
       CallBuild(c, t) \/ \E x \in Target : DeployTool(c, t, x)
  \/ \E c \in ToolCall : ToolStep(c)
  \/ \E t \in Tool, x \in Prod : ApproveDeploy(t, x) \/ ApprovalEnds(t, x)
  \/ ToolHourPasses \/ DeployCountsCleaner

ToolSpec == ToolInit /\ [][ToolNext]_toolVars
-----------------------------------------------------------------------------
ToolTypeOK ==
  /\ tools \in [Tool -> Meta \cup {0}]
  /\ metaSource \in [Meta -> Source \cup {"none"}] /\ metaBinary \in [Meta -> Source \cup {"none"}]
  /\ \A t \in Tool : binDir[t] \subseteq Source
  /\ toolLocks \in [Tool -> Lock \cup {0}] /\ lockOwner \in [Lock -> ToolCall \cup {"none"}]
  /\ deployCounts \in [Hour -> 0..MaxDeploy]
  /\ tmpFile \in [Target -> Source \cup {"none", "part"}]
  /\ targetFile \in [Target -> Source \cup {"none", "part"}]

\* "ensure single build per toolID".
OneBuildPerTool ==
  \A c, d \in ToolCall :
    /\ toolPc[c] \in {"meta", "validate", "build", "register", "search"}
    /\ toolPc[d] \in {"meta", "validate", "build", "register", "search"}
    /\ toolArg[c].tool = toolArg[d].tool
    => c = d

\* What is built has passed ValidateTool, unless the tool was created anew
\* between the two looks at it.
BuiltIsValid ==
  \A c \in ToolCall : toolPc[c] = "build" =>
    recreatedIn[c] \/ metaSource[toolArg[c].meta] \notin Dangerous

\* A target has the whole of some binary, unless deployments to it have overlapped.
TargetWhole == \A x \in Target \ deploysOverlap : targetFile[x] # "part"

\* No more deployments pass in an hour than the policy allows; those that read
\* the clock before the hour turned are not counted for either.
HourlyQuota == \A h \in Hour : admitted[h] <= MaxDeploy
=============================================================================
