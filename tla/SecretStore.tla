---------------------------- MODULE SecretStore ----------------------------
(* internal/secstore: Put and Get of SimpleEncryptedStore, SetKMS and         *)
(* RewrapAllFiles.  A secret's data is encrypted with a key of its own that   *)
(* is wrapped by the local master key or by a KMS (external); a file is split *)
(* at the separator, which may by chance occur in what is random.             *)
EXTENDS Integers, Sequences, FiniteSets, SequencesExt

CONSTANTS SecretKey,     \* the names of secrets
          Kms,           \* KMS providers, each with keys of its own
          MaxPut,        \* bound on the values put
          StoreCrashes   \* bound on the crashes

ASSUME SecretStoreAssumption ==
  /\ IsFiniteSet(SecretKey) /\ "local" \notin Kms /\ MaxPut \in Nat /\ StoreCrashes \in Nat

VARIABLES ssFiles,       \* key.enc of each secret
          ssTmp,         \* what is being written, and for which secret
          ssKms,         \* s.kms; "local" for none
          ssHolder,      \* the call that holds s.mutex for writing
          ssWalk,        \* RewrapAllFiles: the files it has yet to visit
          ssRewrapped,   \* RewrapAllFiles has succeeded with this KMS
          ssPuts, ssCrashes

ssVars == <<ssFiles, ssTmp, ssKms, ssHolder, ssWalk, ssRewrapped, ssPuts, ssCrashes>>

Splits == {"clean", "in the wrapped key", "in the data"}
NoSecret == [value |-> 0, header |-> "none", by |-> "none", split |-> "clean", whole |-> FALSE]
NoWrite == [key |-> "none", file |-> NoSecret]

SecretInit ==
  /\ ssFiles = [k \in SecretKey |-> NoSecret] /\ ssTmp = NoWrite
  /\ ssKms = "local" /\ ssHolder = "none" /\ ssWalk = <<>>
  /\ ssRewrapped = FALSE /\ ssPuts = 0 /\ ssCrashes = 0

-----------------------------------------------------------------------------
(* the header tells a KMS from the master key, and not one KMS from another   *)
HeaderOf(kms) == IF kms = "local" THEN "local" ELSE "kms"

(* Get's choice: the KMS of now for a header of a KMS, or else the master key *)
UnwrapsWith(f) == IF ssKms # "local" /\ f.header = "kms" THEN ssKms ELSE "local"

(* splitHeaderAndRest takes the first three pieces and leaves the rest out    *)
SecretReads(f) == f.value # 0 /\ f.split = "clean" /\ f.whole /\ f.by = UnwrapsWith(f)

PutSecret(k, split) ==
  /\ ssHolder = "none" /\ ssPuts < MaxPut /\ ssPuts' = ssPuts + 1
  /\ ssHolder' = "put"
  /\ ssTmp' = [key |-> k, file |-> [value |-> ssPuts + 1, header |-> HeaderOf(ssKms),
                                    by |-> ssKms, split |-> split, whole |-> TRUE]]
  /\ UNCHANGED <<ssFiles, ssKms, ssWalk, ssRewrapped, ssCrashes>>

(* atomicWriteFile: the rename                                                *)
RenameSecret ==
  /\ ssTmp # NoWrite /\ ssTmp' = NoWrite
  /\ ssFiles' = [ssFiles EXCEPT ![ssTmp.key] = ssTmp.file]
  /\ ssHolder' = IF ssHolder = "put" THEN "none" ELSE ssHolder
  /\ UNCHANGED <<ssKms, ssWalk, ssRewrapped, ssPuts, ssCrashes>>

(* a provider, a read or a write fails: Put returns, and WalkDir ends with    *)
(* the first error, so that the files after it stay as they are               *)
SecretFails ==
  /\ ssHolder # "none" /\ ssHolder' = "none" /\ ssTmp' = NoWrite /\ ssWalk' = <<>>
  /\ UNCHANGED <<ssFiles, ssKms, ssRewrapped, ssPuts, ssCrashes>>

SetKms(kms) ==
  /\ ssHolder = "none" /\ ssKms # kms
  /\ ssKms' = kms /\ ssRewrapped' = FALSE
  /\ UNCHANGED <<ssFiles, ssTmp, ssHolder, ssWalk, ssPuts, ssCrashes>>

-----------------------------------------------------------------------------
(* WalkDir visits every .enc file                                             *)
Visited == {k \in SecretKey : ssFiles[k].value # 0}

RewrapBegins ==
  /\ ssHolder = "none" /\ ssKms # "local"
  /\ ssHolder' = "rewrap" /\ ssWalk' = SetToSeq(Visited)
  /\ UNCHANGED <<ssFiles, ssTmp, ssKms, ssRewrapped, ssPuts, ssCrashes>>

\* Faulty variant: the header of before.
OldHeader(f, split) ==
  [f EXCEPT !.by = ssKms, !.split = split, !.whole = f.whole /\ f.split # "in the data"]
(* the key is wrapped anew, and the data is the piece that was read           *)
Rewrapped(f, split) ==
  [f EXCEPT !.header = "kms", !.by = ssKms, !.split = split,
            !.whole = f.whole /\ f.split # "in the data"]

(* unwrapForRotation falls back on the master key                             *)
MayRewrap(f) == f.split # "in the wrapped key" /\ f.by \in {UnwrapsWith(f), "local"}

RewrapFile(split) ==
  /\ ssHolder = "rewrap" /\ ssTmp = NoWrite /\ ssWalk # <<>> /\ MayRewrap(ssFiles[Head(ssWalk)])
  /\ ssTmp' = [key |-> Head(ssWalk), file |-> Rewrapped(ssFiles[Head(ssWalk)], split)]
  /\ ssWalk' = Tail(ssWalk)
  /\ UNCHANGED <<ssFiles, ssKms, ssHolder, ssRewrapped, ssPuts, ssCrashes>>

RewrapEnds ==
  /\ ssHolder = "rewrap" /\ ssTmp = NoWrite /\ ssWalk = <<>>
  /\ ssHolder' = "none" /\ ssRewrapped' = TRUE
  /\ UNCHANGED <<ssFiles, ssTmp, ssKms, ssWalk, ssPuts, ssCrashes>>

(* the process starts anew with the KMS it had: a .tmp that is left behind is *)
(* written over                                                               *)
SecretCrash ==
  /\ ssCrashes < StoreCrashes /\ ssCrashes' = ssCrashes + 1
  /\ ssTmp' = NoWrite /\ ssHolder' = "none" /\ ssWalk' = <<>>
  /\ UNCHANGED <<ssFiles, ssKms, ssRewrapped, ssPuts>>

SecretNext ==
  \/ \E k \in SecretKey : \E split \in Splits : PutSecret(k, split)
  \/ RenameSecret \/ SecretFails \/ (\E kms \in Kms : SetKms(kms))
  \/ RewrapBegins \/ (\E split \in Splits \ {"in the data"} : RewrapFile(split)) \/ RewrapEnds
  \/ SecretCrash
SecretSpec == SecretInit /\ [][SecretNext]_ssVars

-----------------------------------------------------------------------------
SecretFile == [value : 0..MaxPut, header : {"none", "local", "kms"},
               by : Kms \cup {"none", "local"}, split : Splits, whole : BOOLEAN]
(* Types of the state.                                                        *)
SecretTypeOK ==
  /\ ssFiles \in [SecretKey -> SecretFile]
  /\ ssTmp \in [key : SecretKey \cup {"none"}, file : SecretFile]
  /\ ssKms \in Kms \cup {"local"} /\ ssHolder \in {"none", "put", "rewrap"}
  /\ ssWalk \in Seq(SecretKey) /\ ssRewrapped \in BOOLEAN
  /\ ssPuts \in 0..MaxPut /\ ssCrashes \in 0..StoreCrashes

(* A secret that Get can read stays readable, and keeps its value or takes a  *)
(* later one, through puts, rewraps, failures half way and crashes, as long   *)
(* as the KMS is the same and the separator does not occur in a random key.   *)
ReadableStays ==
  \A k \in SecretKey : SecretReads(ssFiles[k]) /\ ssKms' = ssKms =>
    /\ ssFiles'[k].value >= ssFiles[k].value
    /\ SecretReads(ssFiles[k])' \/ ssFiles'[k].split # "clean"

(* Once RewrapAllFiles has returned without an error every file is wrapped by *)
(* the KMS that is set, whichever one wrapped it before: the old KMS can go.  *)
RewrapMovesAll ==
  ssRewrapped => \A k \in SecretKey : ssFiles[k].value # 0 => ssFiles[k].by = ssKms
=============================================================================
