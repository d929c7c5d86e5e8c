--------------------------- MODULE MCRecords --------------------------------
(* What keeps data and records: uploads and downloads, secrets, the vault's  *)
(* cache, residency rules, billing, quality of service and the audit log.    *)
(* They share no state: recordPart tells which of them a behaviour is of,    *)
(* and the others stay where they start.                                     *)
EXTENDS StorageUpload, Retrieval, SecretStore, VaultCache, Residency, Billing, QoS,
        AuditChain

CONSTANTS ru1, eu

VARIABLE recordPart   \* the component that runs

MCRuleRegion == [r \in Rule |-> eu]
MCNamed == [r \in Rule |-> {}]
MCBaseRisk == [c \in Country |-> 49]

RecordParts == {"storage", "retrieval", "secrets", "vault", "residency", "billing", "qos", "audit"}
recordsVars == <<recordPart, vars, retrievalVars, ssVars, vcVars, drVars, blVars, qosVars,
                   acVars>>

RecordsInit ==
  /\ recordPart \in RecordParts
  /\ Init
  /\ RetrievalInit /\ (recordPart # "retrieval" => layout = "plain")
  /\ SecretInit
  /\ VaultCacheInit
  /\ ResidencyInit
  /\ BillingInit
  /\ QosInit
  /\ AuditInit /\ (recordPart # "audit" => ~acSigner /\ ~acKey /\ ~acEnforced)

OtherRecords(p) ==
  /\ p # "storage" => UNCHANGED vars
  /\ p # "retrieval" => UNCHANGED retrievalVars
  /\ p # "secrets" => UNCHANGED ssVars
  /\ p # "vault" => UNCHANGED vcVars
  /\ p # "residency" => UNCHANGED drVars
  /\ p # "billing" => UNCHANGED blVars
  /\ p # "qos" => UNCHANGED qosVars
  /\ p # "audit" => UNCHANGED acVars

RecordsNext ==
  /\ recordPart' = recordPart
  /\ \/ recordPart = "storage" /\ Next /\ OtherRecords("storage")
     \/ recordPart = "retrieval" /\ RetrievalNext /\ OtherRecords("retrieval")
     \/ recordPart = "secrets" /\ SecretNext /\ OtherRecords("secrets")
     \/ recordPart = "vault" /\ VaultCacheNext /\ OtherRecords("vault")
     \/ recordPart = "residency" /\ ResidencyNext /\ OtherRecords("residency")
     \/ recordPart = "billing" /\ BillingNext /\ OtherRecords("billing")
     \/ recordPart = "qos" /\ QosNext /\ OtherRecords("qos")
     \/ recordPart = "audit" /\ AuditNext /\ OtherRecords("audit")
RecordsSpec == RecordsInit /\ [][RecordsNext]_recordsVars

\* A download that answers has the file, and one that nothing harmed answers;
\* with the types of the storage.
DownloadsRight ==
  /\ recordPart = "storage" => TypeOK
  /\ recordPart = "retrieval" => RetrievalTypeOK /\ DownloadExact /\ DownloadServes

\* Secrets are current where they are kept: in files that RewrapAllFiles has gone
\* through, and in the vault client's cache.
SecretsRight ==
  /\ recordPart = "secrets" => SecretTypeOK /\ RewrapMovesAll
  /\ recordPart = "vault" => VcTypeOK /\ CacheIsCurrent

\* What is decided and charged follows the rules that were set: strict regions,
\* hard policies and their tokens, the sums of what was used.
RulesHold ==
  /\ recordPart = "residency" => ResidencyTypeOK /\ StrictStays
  /\ recordPart = "qos" => QosTypeOK /\ UsageIsConsumption /\ HardPaid
  /\ recordPart = "billing" => BillTypeOK /\ SumsAreExact
  /\ recordPart = "audit" => AuditTypeOK

\* No step takes back what is on record: readable secrets, the last decision in
\* the history, invoices, the usage file.
RecordsKept == [][ReadableStays /\ LastPushIsLast /\ InvoicesGrow /\ UsageFileForward]_recordsVars
=============================================================================
