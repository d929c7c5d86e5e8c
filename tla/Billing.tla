------------------------------ MODULE Billing ------------------------------
(* internal/billing/billing.go: usage records are appended and summed per     *)
(* project as they come; an aggregator sums them again from nothing; invoices *)
(* are made from the records of a user and a month; SaveToFile encodes the    *)
(* record slice it has seen under the lock, but the invoice map as it is      *)
(* while it encodes, and LoadFromFile appends what a file holds.              *)
EXTENDS Integers, Sequences, FiniteSets, FiniteSetsExt, SequencesExt

CONSTANTS BillProject, BillUser, Period,
          MaxRecords,   \* bound on the records
          MaxPrice,     \* bound on what SetCostProfile sets
          BillCrashes    \* bound on the crashes

ASSUME BillingAssumption ==
  /\ MaxRecords \in Nat /\ MaxPrice \in Nat \ {0} /\ BillCrashes \in Nat
  /\ "no project" \notin BillProject

VARIABLES blRecords,   \* b.records
          blByProject, \* byProject: what is summed per project
          blInvoices,  \* invoices by user and period
          blPrice,     \* the cost profile
          blFile,      \* the persisted file
          blSave,      \* SaveToFile: the records it encodes, or idle
          blCrashes,
          blExact,     \* no load and no new price since the sums were right
          blLoaded     \* this process has loaded a file

blVars == <<blRecords, blByProject, blInvoices, blPrice, blFile, blSave, blCrashes, blExact, blLoaded>>

NoSum == [count |-> 0, cost |-> 0]
NoBill == -1      \* there is no such invoice
NoInvoices == [x \in BillUser \X Period |-> NoBill]
NoBillFile == [state |-> "absent", records |-> <<>>, invoices |-> NoInvoices]
TornFile == [state |-> "torn", records |-> <<>>, invoices |-> NoInvoices]
NoProject == "no project"     \* a record without project_id
Projects == BillProject \cup {NoProject}
Usage == [project : Projects, user : BillUser, period : Period]

BillingInit ==
  /\ blRecords = <<>> /\ blByProject = [p \in Projects |-> NoSum]
  /\ blInvoices = NoInvoices
  /\ blPrice = 1 /\ blFile = NoBillFile /\ blSave = "idle"
  /\ blCrashes = 0 /\ blExact = TRUE /\ blLoaded = FALSE

-----------------------------------------------------------------------------
(* estimateCostForRecordUnlocked, for records of one unit: the price of now   *)
Estimated(n) == n * blPrice
Plus1(sum) == [count |-> sum.count + 1, cost |-> sum.cost + Estimated(1)]

(* AddUsage sums nothing for a record without a project *)
AddUsage(r) ==
  /\ Len(blRecords) < MaxRecords
  /\ blRecords' = Append(blRecords, r)
  /\ blByProject' = IF r.project = NoProject THEN blByProject
                    ELSE [blByProject EXCEPT ![r.project] = Plus1(@)]
  /\ UNCHANGED <<blInvoices, blPrice, blFile, blSave, blCrashes, blExact, blLoaded>>

(* the sums that are there keep the price they were made with *)
SetCostProfile(price) ==
  /\ price # blPrice /\ blPrice' = price /\ blExact' = FALSE
  /\ UNCHANGED <<blRecords, blByProject, blInvoices, blFile, blSave, blCrashes, blLoaded>>

RecordsOf(p) == Cardinality({k \in DOMAIN blRecords : blRecords[k].project = p})

(* runAggregationOnce: from nothing, and the records without project as well  *)
Aggregated(p) == [count |-> RecordsOf(p), cost |-> Estimated(RecordsOf(p))]

RunAggregation ==
  /\ blByProject' = [p \in Projects |-> Aggregated(p)] /\ blExact' = TRUE
  /\ UNCHANGED <<blRecords, blInvoices, blPrice, blFile, blSave, blCrashes, blLoaded>>

(* GenerateInvoice: every record of the user in the period, billed before or  *)
(* not; the invoice takes the place of an earlier one                         *)
RecordsIn(u, m) ==
  Cardinality({k \in DOMAIN blRecords : blRecords[k].user = u /\ blRecords[k].period = m})
Billed(u, m) == RecordsIn(u, m)

GenerateInvoice(u, m) ==
  /\ blSave = "idle"
  /\ blInvoices' = [blInvoices EXCEPT ![<<u, m>>] = Billed(u, m)]
  /\ UNCHANGED <<blRecords, blByProject, blPrice, blFile, blSave, blCrashes, blExact, blLoaded>>

-----------------------------------------------------------------------------
(* SaveToFile: the record slice under the lock, then os.Create empties the    *)
(* file                                                                       *)
SaveCopy ==
  /\ blSave = "idle" /\ blSave' = blRecords
  /\ blFile' = TornFile
  /\ UNCHANGED <<blRecords, blByProject, blInvoices, blPrice, blCrashes, blExact, blLoaded>>

SaveEncode ==
  /\ blSave # "idle" /\ blSave' = "idle"
  /\ blFile' = [state |-> "whole", records |-> blSave, invoices |-> blInvoices]
  /\ UNCHANGED <<blRecords, blByProject, blInvoices, blPrice, blCrashes, blExact, blLoaded>>

(* an invoice made while the map is encoded: Go stops the program when it     *)
(* sees the two, or the encoder goes on with the old or the new entry         *)
InvoiceWhileSaving(u, m) ==
  /\ blSave # "idle"
  /\ blInvoices' = [blInvoices EXCEPT ![<<u, m>>] = Billed(u, m)]
  /\ UNCHANGED <<blRecords, blByProject, blPrice, blFile, blSave, blCrashes, blExact, blLoaded>>

BillingCrash ==
  /\ blCrashes < BillCrashes /\ blCrashes' = blCrashes + 1
  /\ blRecords' = <<>> /\ blByProject' = [p \in Projects |-> NoSum]
  /\ blInvoices' = NoInvoices
  /\ blPrice' = 1 /\ blSave' = "idle" /\ blExact' = TRUE /\ blLoaded' = FALSE
  /\ UNCHANGED blFile

(* LoadFromFile appends the records, takes over the invoices and sums nothing *)
Loaded == blRecords \o blFile.records
LoadedOver == blFile.records
LoadFromFile ==
  /\ blFile.state = "whole" /\ Len(blRecords) + Len(blFile.records) <= MaxRecords
  /\ blRecords' = Loaded /\ blExact' = (blExact /\ blFile.records = <<>>)
  /\ blInvoices' = [x \in DOMAIN blInvoices |->
       IF blFile.invoices[x] # NoBill THEN blFile.invoices[x] ELSE blInvoices[x]]
  /\ blLoaded' = TRUE
  /\ UNCHANGED <<blByProject, blPrice, blFile, blSave, blCrashes>>

BillingNext ==
  \/ \E r \in Usage : AddUsage(r)
  \/ \E price \in 1..MaxPrice : SetCostProfile(price)
  \/ RunAggregation
  \/ \E u \in BillUser, m \in Period : GenerateInvoice(u, m) \/ InvoiceWhileSaving(u, m)
  \/ SaveCopy \/ SaveEncode \/ BillingCrash \/ LoadFromFile

BillingSpec == BillingInit /\ [][BillingNext]_blVars

-----------------------------------------------------------------------------
(* Types. *)
BillTypeOK ==
  /\ blRecords \in UNION {[1..k -> Usage] : k \in 0..MaxRecords}
  /\ blByProject \in [Projects -> [count : 0..MaxRecords, cost : 0..MaxRecords * MaxPrice]]
  /\ \A x \in DOMAIN blInvoices : blInvoices[x] \in -1..MaxRecords
  /\ blPrice \in 1..MaxPrice /\ blCrashes \in 0..BillCrashes /\ blExact \in BOOLEAN
  /\ blLoaded \in BOOLEAN
  /\ blFile.state \in {"absent", "torn", "whole"}

(* The sums of a project are those of its records: AddUsage one at a time and *)
(* the aggregator from nothing come to the same, whatever order they run in.  *)
(* A load and a new price show only after the next aggregation.               *)
SumsAreExact ==
  blExact => \A p \in BillProject :
    blByProject[p] = [count |-> RecordsOf(p), cost |-> RecordsOf(p) * blPrice]

(* An invoice that is made again bills what it billed before and more: no     *)
(* usage of the month leaves it.  After a load this ends: a file may hold an  *)
(* invoice made while it was encoded, and not the records it bills.           *)
InvoicesGrow ==
  ~blLoaded' /\ blCrashes' = blCrashes =>
    \A x \in DOMAIN blInvoices : blInvoices[x] <= blInvoices'[x]
=============================================================================
