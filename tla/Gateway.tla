------------------------------ MODULE Gateway ------------------------------
(***************************************************************************)
(* ConnectorManager of connectors/connector.go: Execute with its policy    *)
(* check, the registry of connectors and generated adapters, failover, and *)
(* the recovery loop of the connectors' SelfHealingManager.                *)
(*                                                                         *)
(* A connector succeeds or fails as it likes; metrics and spans are left   *)
(* out.  Asynchronous requests are modelled in AsyncJobs; here they end    *)
(* with the answer that names the job.                                     *)
(***************************************************************************)
EXTENDS Naturals, Sequences

CONSTANTS GwCall, Service,
          Failovers,    \* [Service -> sequence of alternatives]
          RecoverSize,  \* capacity of recoverCh (100 in the code)
          MaxFailures   \* bound: failures counted

ASSUME GatewayAssumption ==
  /\ Failovers \in [Service -> Seq(Service)]
  /\ RecoverSize \in Nat /\ MaxFailures \in Nat

VARIABLES
  connectors,  \* [Service -> "absent", "generated", "registered"]
  failCount,   \* [Service -> s.failures]
  recoverCh,   \* sequence of services
  gwHealing,     \* the service recoveryLoop is at, or "none"
  dropped,     \* history: services whose signal recoverCh had no room for
  gwPc, gwArg, \* [GwCall -> place], [GwCall -> [service, left: alternatives]]
  registeredSince  \* history: [GwCall -> services registered since it looked]

gwHeal == <<failCount, recoverCh, gwHealing, dropped>>
gwVars == <<connectors, gwHeal, gwPc, gwArg, registeredSince>>

GwInit ==
  /\ connectors = [s \in Service |-> "absent"]
  /\ failCount = [s \in Service |-> 0]
  /\ recoverCh = <<>> /\ gwHealing = "none" /\ dropped = {}
  /\ gwPc = [c \in GwCall |-> "idle"]
  /\ gwArg = [c \in GwCall |-> [service |-> "none", left |-> <<>>]]
  /\ registeredSince = [c \in GwCall |-> {}]

GwGoto(c, place) == gwPc' = [gwPc EXCEPT ![c] = place]
GwAnswer(c) == GwGoto(c, "answer") /\ gwArg' = [gwArg EXCEPT ![c].left = <<>>]
-----------------------------------------------------------------------------
RegisterConnector(s) ==
  /\ connectors' = [connectors EXCEPT ![s] = "registered"]
  /\ registeredSince' = [c \in GwCall |-> IF gwPc[c] = "generate" THEN registeredSince[c] \cup {s}
                                          ELSE registeredSince[c]]
  /\ UNCHANGED <<gwHeal, gwPc, gwArg>>

\* The policy engine allows the request or not: the token bucket of its
\* service, the blacklisted regions and the rules decide.
PolicyAnswers == BOOLEAN

Execute(c, s, allowed) ==
  /\ gwPc[c] = "idle"
  /\ IF allowed
     THEN /\ gwArg' = [gwArg EXCEPT ![c] = [service |-> s, left |-> <<>>]]
          /\ GwGoto(c, "find")
     ELSE GwAnswer(c)
  /\ UNCHANGED <<connectors, gwHeal, registeredSince>>

\* Faulty variant: adapters are looked for first.
GeneratedOnly(s) == connectors[s] = "generated"

Known(s) == connectors[s] # "absent"

GetConnector(c) ==
  /\ gwPc[c] = "find"
  /\ GwGoto(c, IF Known(gwArg[c].service) THEN "dispatch" ELSE "generate")
  /\ UNCHANGED <<connectors, gwHeal, gwArg, registeredSince>>

\* The adapter takes the name, whatever has been registered under it since.
GenerateAdapter(c) ==
  /\ gwPc[c] = "generate"
  /\ connectors' = [connectors EXCEPT ![gwArg[c].service] = "generated"]
  /\ GwGoto(c, "dispatch")
  /\ UNCHANGED <<gwHeal, gwArg, registeredSince>>

\* No adapter: the automation answers for manage and custom operations.
Automate(c) ==
  /\ gwPc[c] = "generate"
  /\ GwAnswer(c)
  /\ UNCHANGED <<connectors, gwHeal, registeredSince>>

\* No adapter and no automation: the service is not found.
NotFound(c) ==
  /\ gwPc[c] = "generate"
  /\ GwGoto(c, "count")
  /\ UNCHANGED <<connectors, gwHeal, gwArg, registeredSince>>

DispatchCall(c) ==
  /\ gwPc[c] = "dispatch"
  /\ \/ GwGoto(c, "reset") /\ UNCHANGED gwArg
     \/ /\ GwGoto(c, "count")
        /\ gwArg' = [gwArg EXCEPT ![c].left = Failovers[gwArg[c].service]]
     \/ GwAnswer(c)   \* a job has been started
  /\ UNCHANGED <<connectors, gwHeal, registeredSince>>

\* Faulty variant: one failure late.
SignalAtFour(n) == n > 3

Signals(n) == n >= 3

\* RegisterFailure; a full channel loses the signal.
RegisterFailure(c) ==
  LET s == gwArg[c].service
      n == failCount[s] + 1 IN
  /\ gwPc[c] = "count"
  /\ n <= MaxFailures
  /\ failCount' = [failCount EXCEPT ![s] = n]
  /\ IF ~Signals(n) THEN UNCHANGED <<recoverCh, dropped>>
     ELSE IF Len(recoverCh) < RecoverSize
          THEN recoverCh' = Append(recoverCh, s) /\ UNCHANGED dropped
          ELSE dropped' = dropped \cup {s} /\ UNCHANGED recoverCh
  /\ GwGoto(c, "failover")
  /\ UNCHANGED <<connectors, gwHealing, gwArg, registeredSince>>

\* The next alternative that has a connector serves, or fails like the others.
TryAlternative(c) ==
  LET left == gwArg[c].left IN
  /\ gwPc[c] = "failover"
  /\ IF left = <<>> THEN GwAnswer(c)
     ELSE \/ Known(Head(left)) /\ GwAnswer(c)
          \/ gwArg' = [gwArg EXCEPT ![c].left = Tail(left)] /\ UNCHANGED gwPc
  /\ UNCHANGED <<connectors, gwHeal, registeredSince>>

ResetFailures(s) == failCount' = [failCount EXCEPT ![s] = 0]

GwSucceeds(c) ==
  /\ gwPc[c] = "reset"
  /\ ResetFailures(gwArg[c].service)
  /\ GwAnswer(c)
  /\ UNCHANGED <<connectors, recoverCh, gwHealing, dropped, registeredSince>>

GwReturn(c) ==
  /\ gwPc[c] = "answer"
  /\ GwGoto(c, "idle")
  /\ gwArg' = [gwArg EXCEPT ![c] = [service |-> "none", left |-> <<>>]]
  /\ registeredSince' = [registeredSince EXCEPT ![c] = {}]
  /\ UNCHANGED <<connectors, gwHeal>>
-----------------------------------------------------------------------------
\* recoveryLoop takes a name and looks at its failures; with none it is done.
TakeRecovery ==
  /\ gwHealing = "none" /\ recoverCh # <<>>
  /\ recoverCh' = Tail(recoverCh)
  /\ gwHealing' = IF failCount[Head(recoverCh)] = 0 THEN "none" ELSE Head(recoverCh)
  /\ UNCHANGED <<connectors, failCount, dropped, gwPc, gwArg, registeredSince>>

\* Behind the backoff: the failures counted meanwhile go as well.
AttemptRecovery ==
  /\ gwHealing # "none"
  /\ ResetFailures(gwHealing)
  /\ gwHealing' = "none"
  /\ UNCHANGED <<connectors, recoverCh, dropped, gwPc, gwArg, registeredSince>>
-----------------------------------------------------------------------------
GwStep(c) ==
  \/ GetConnector(c) \/ GenerateAdapter(c) \/ Automate(c) \/ NotFound(c) \/ DispatchCall(c)
  \/ RegisterFailure(c) \/ TryAlternative(c) \/ GwSucceeds(c) \/ GwReturn(c)

GwNext ==
  \/ \E s \in Service : RegisterConnector(s)
  \/ \E c \in GwCall, s \in Service, allowed \in PolicyAnswers : Execute(c, s, allowed)
  \/ \E c \in GwCall : GwStep(c)
  \/ TakeRecovery \/ AttemptRecovery

GwSpec == GwInit /\ [][GwNext]_gwVars
-----------------------------------------------------------------------------
GwTypeOK ==
  /\ connectors \in [Service -> {"absent", "generated", "registered"}]
  /\ failCount \in [Service -> 0..MaxFailures]
  /\ Len(recoverCh) <= RecoverSize /\ gwHealing \in Service \cup {"none"}
  /\ gwPc \in [GwCall -> {"idle", "find", "generate", "dispatch", "count", "failover", "reset",
                          "answer"}]

\* A generated adapter takes the place of a registered connector only when the
\* connector was registered after the request had looked for it.
RegisteredStays ==
  [][\A s \in Service : connectors[s] = "registered" /\ connectors'[s] # "registered" =>
       \E c \in GwCall : gwArg[c].service = s /\ s \in registeredSince[c]]_connectors

\* A service that has failed three times in a row starts anew some day, by a
\* success or by the recovery loop, unless its signal found the channel full.
RecoveryComes ==
  \A s \in Service : failCount[s] >= 3 ~> failCount[s] = 0 \/ s \in dropped
=============================================================================
