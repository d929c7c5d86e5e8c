----------------------------- MODULE AuditChain -----------------------------
(* internal/logging/audit.go: the chained audit log.  AppendEvent holds mtx   *)
(* throughout, so that an event is one step; the signer of a KMS and the      *)
(* HMAC key of the environment are external.  A hash, an HMAC or a signature  *)
(* is the pair of the event it was computed for and its kind.                 *)
EXTENDS Integers, Sequences, SequencesExt

CONSTANTS MaxEvents,     \* bound on the events
          CheckpointN,   \* checkpointN, 100 in the code
          AuditRestarts  \* bound on the restarts

ASSUME AuditAssumption == MaxEvents \in Nat /\ CheckpointN \in Nat \ {0} /\ AuditRestarts \in Nat

VARIABLES acSigner,      \* a KMS signer was given to NewAuditor
          acKey,         \* AUDIT_HMAC_KEY is set
          acEnforced,    \* enforceSigned
          acFile,        \* the lines of audit.jsonl
          acLast,        \* lastChain
          acOpen,        \* outF is there and not closed
          acSince,       \* eventsSince
          acStored,      \* the lastChain of each checkpoint in the keystore
          acGap,         \* since the last line: a restart, a refused event, a failed write
          acEvents, acRestarts

acVars == <<acSigner, acKey, acEnforced, acFile, acLast, acOpen, acSince, acStored, acGap,
            acEvents, acRestarts>>

Unchained == [event |-> 0, kind |-> "none"]
ChainLink(e, kind) == [event |-> e, kind |-> kind]

AuditInit ==
  /\ acSigner \in BOOLEAN /\ acKey \in BOOLEAN /\ acEnforced \in BOOLEAN
  /\ acFile = <<>> /\ acLast = Unchained /\ acOpen = TRUE /\ acSince = 0 /\ acStored = <<>>
  /\ acGap = FALSE /\ acEvents = 0 /\ acRestarts = 0

-----------------------------------------------------------------------------
Event == acEvents + 1

(* what the log holds of an event by the way it was signed                    *)
LineBy(way) ==
  [prev |-> acLast,
   chain |-> ChainLink(Event, IF way = "hmac" THEN "hmac" ELSE "hash"),
   signature |-> CASE way = "kms" -> ChainLink(Event, "signature") [] way = "hmac" -> ChainLink(Event, "hmac")
                   [] OTHER -> Unchained]

\* Faulty variant: the hash of the event, signed or not.
NextHash(line) == line.chain
(* lastChain is the signature of the KMS where there is one                   *)
NextLast(line) == IF line.signature # Unchained THEN line.signature ELSE line.chain

(* without the KMS an event is signed with the key of the environment, or not *)
Fallback == IF acKey THEN "hmac" ELSE "unsigned"
(* a refusal comes after lastChain has been set                               *)
RefusedUnsigned == acEnforced /\ ~acSigner /\ ~acKey

(* every CheckpointN events the keystore takes lastChain, or fails to         *)
Checkpoint(stored) ==
  IF acSince + 1 < CheckpointN THEN acSince' = acSince + 1 /\ acStored' = acStored
  ELSE acSince' = 0 /\ acStored' = IF stored THEN Append(acStored, acLast') ELSE acStored

(* an event signed in one of the ways, its line written or lost, and the      *)
(* checkpoint that may follow                                                 *)
Chain(way, written, stored) ==
  /\ acEvents < MaxEvents /\ acEvents' = Event
  /\ acLast' = NextLast(LineBy(way))
  /\ acFile' = IF written THEN Append(acFile, LineBy(way)) ELSE acFile
  /\ acGap' = ~written
  /\ Checkpoint(stored)
  /\ UNCHANGED <<acSigner, acKey, acEnforced, acOpen, acRestarts>>

SignedByKms(written, stored) == acOpen /\ acSigner /\ Chain("kms", written, stored)

(* the KMS failed, and enforceSigned is off                                   *)
FallsBack(written, stored) == acOpen /\ acSigner /\ ~acEnforced /\ Chain(Fallback, written, stored)

WithoutSigner(written, stored) ==
  acOpen /\ ~acSigner /\ ~RefusedUnsigned /\ Chain(Fallback, written, stored)

RefusesUnsigned ==
  /\ acOpen /\ RefusedUnsigned /\ acEvents < MaxEvents /\ acEvents' = Event
  /\ acLast' = NextLast(LineBy("unsigned")) /\ acGap' = TRUE
  /\ UNCHANGED <<acSigner, acKey, acEnforced, acFile, acOpen, acSince, acStored, acRestarts>>

CloseAudit ==
  /\ acOpen /\ acOpen' = FALSE
  /\ UNCHANGED <<acSigner, acKey, acEnforced, acFile, acLast, acSince, acStored, acGap,
                 acEvents, acRestarts>>

(* NewAuditor appends to the file and begins its chain from nothing; the      *)
(* environment may have a key now, or none                                    *)
RestartAudit ==
  /\ acRestarts < AuditRestarts /\ acRestarts' = acRestarts + 1
  /\ acLast' = Unchained /\ acSince' = 0 /\ acOpen' = TRUE /\ acGap' = TRUE /\ acKey' \in BOOLEAN
  /\ UNCHANGED <<acSigner, acEnforced, acFile, acStored, acEvents>>

AuditNext ==
  \/ \E written, stored \in BOOLEAN :
       SignedByKms(written, stored) \/ FallsBack(written, stored) \/ WithoutSigner(written, stored)
  \/ RefusesUnsigned \/ CloseAudit \/ RestartAudit
AuditSpec == AuditInit /\ [][AuditNext]_acVars

-----------------------------------------------------------------------------
Links == [event : 0..MaxEvents, kind : {"none", "hash", "hmac", "signature"}]
(* Types of the state.                                                        *)
AuditTypeOK ==
  /\ acSigner \in BOOLEAN /\ acKey \in BOOLEAN /\ acEnforced \in BOOLEAN
  /\ acFile \in Seq([prev : Links, chain : Links, signature : Links])
  /\ acLast \in Links /\ acOpen \in BOOLEAN /\ acSince \in 0..(CheckpointN - 1)
  /\ acStored \in Seq(Links) /\ acGap \in BOOLEAN
  /\ acEvents \in 0..MaxEvents /\ acRestarts \in 0..AuditRestarts

CarriedBy(line) == IF line.signature # Unchained THEN line.signature ELSE line.chain
(* The file verifies: with no restart, refusal or lost line in between a new  *)
(* line names what the line before it carries (the signature where there is   *)
(* one, whichever way each of the two was signed), a line that names another  *)
(* event names an earlier one, and where signatures are enforced no line goes *)
(* without one.                                                               *)
ChainLinked ==
  [][acFile' # acFile =>
       LET line == Last(acFile') IN
       /\ acFile # <<>> /\ ~acGap => line.prev = CarriedBy(Last(acFile))
       /\ line.prev.event < line.chain.event
       /\ acEnforced => line.signature # Unchained]_acVars
=============================================================================
