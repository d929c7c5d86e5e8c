--------------------------- MODULE MCRecovery -------------------------------
(* Uploads, the self-healing manager and the connector gateway: what has to  *)
(* return, or to be tried again, after failures.                             *)
(* They share no state: part tells which of them a behaviour is of, and the  *)
(* others stay where they start.                                             *)
EXTENDS StorageUpload, Repairs, Gateway

CONSTANTS s1, s2

VARIABLE part   \* the component that runs

MCFailovers == (s1 :> <<s2>>) @@ (s2 :> <<>>)

Parts == {"storage", "repairs", "gateway"}
recoveryVars == <<part, vars, healVars, gwVars>>

RecoveryInit ==
  /\ part \in Parts
  /\ Init
  /\ HealInit
  /\ GwInit

Others(p) ==
  /\ p # "storage" => UNCHANGED vars
  /\ p # "repairs" => UNCHANGED healVars
  /\ p # "gateway" => UNCHANGED gwVars

RecoveryNext ==
  /\ part' = part
  /\ \/ part = "storage" /\ Next /\ Others("storage")
     \/ part = "repairs" /\ HealNext /\ Others("repairs")
     \/ part = "gateway" /\ GwNext /\ Others("gateway")
RecoverySpec == RecoveryInit /\ [][RecoveryNext]_recoveryVars

(* The fairness of each component, owed while that component runs.           *)
FairRecoverySpec ==
  /\ RecoverySpec
  \* an upload that has begun goes on: backends, signer and file system answer
  \* every call, with a result or an error
  /\ \A u \in Upload : WF_vars(part = "storage" /\ (Put(u) \/ Persist(u) \/ Cleanup(u)))
  \* the cleaners see the context's end, and Shutdown sees theirs
  /\ \A c \in HealCall : WF_healVars(part = "repairs" /\ ShutdownEnds(c))
  /\ \A w \in {"counts", "approvals"} : WF_healVars(part = "repairs" /\ CleanerEnds(w))
  \* recoveryLoop runs for the life of the process
  /\ WF_gwVars(part = "gateway" /\ TakeRecovery)
  /\ WF_gwVars(part = "gateway" /\ AttemptRecovery)

\* A patch that counts as applied was in its file; with the types.
RecoverySafe ==
  /\ part = "storage" => TypeOK
  /\ part = "repairs" => HealTypeOK /\ AppliedWasWritten
  /\ part = "gateway" => GwTypeOK

\* Uploads and Shutdown return, and a connector that keeps failing gets its
\* recovery.
FailuresRecover ==
  /\ EveryUploadReturns /\ ShutdownReturns /\ RecoveryComes
=============================================================================
