------------------------------ MODULE BulkSend ------------------------------
(***************************************************************************)
(* SendLarge of communication/rdma.go, one call of it over one connection: *)
(* the loop that reads the source, the bounded channel, the workers that   *)
(* send what they take from it, the error channel that keeps one error and *)
(* the context that the first failure cancels; and SendHedge, which sends  *)
(* the same to several nodes.  The two share nothing; a behaviour has a    *)
(* call of one of them.                                                    *)
(***************************************************************************)
EXTENDS Naturals, Sequences, FiniteSets

CONSTANTS BulkWorker,   \* parallel of them
          ChunkCount,   \* bound: chunks in the source
          ChannelSize,  \* parallel * 2 in the code
          HedgeNode     \* the nodes of SendHedge

ASSUME BulkAssumption == ChunkCount \in Nat /\ ChannelSize \in Nat \ {0} /\ BulkWorker # {}

VARIABLES
  bulkPc,      \* place of the loop that reads
  bulkNext,    \* chunks read
  bulkChannel, \* chunks offered and not taken
  bulkError,   \* errCh holds an error
  bulkEnded, callerEnded,  \* the context of the call, its caller's context
  bulkAnswer,  \* "none", "ok", "error"
  workerPc, workerChunk,   \* [BulkWorker -> place, chunk]
  wire,        \* chunks sent in full
  hedgePc,     \* [HedgeNode -> "idle", "dial", "send", "sent", "failed"]
  hedgeDone,   \* the channel done is closed
  hedgeAnswer

workerVars == <<workerPc, workerChunk>>
hedgeVars == <<hedgePc, hedgeDone, hedgeAnswer>>
bulkVars == <<bulkPc, bulkNext, bulkChannel, bulkError, bulkEnded, callerEnded, bulkAnswer,
              workerVars, wire, hedgeVars>>

BulkInit ==
  /\ bulkPc = "idle" /\ bulkNext = 0 /\ bulkChannel = <<>> /\ bulkError = FALSE
  /\ bulkEnded = FALSE /\ callerEnded = FALSE /\ bulkAnswer = "none"
  /\ workerPc = [w \in BulkWorker |-> "idle"] /\ workerChunk = [w \in BulkWorker |-> 0]
  /\ wire = {}
  /\ hedgePc = [n \in HedgeNode |-> "idle"] /\ hedgeDone = FALSE /\ hedgeAnswer = "none"
-----------------------------------------------------------------------------
\* The dial has succeeded and the workers are started.
SendLarge ==
  /\ bulkPc = "idle" /\ \A n \in HedgeNode : hedgePc[n] = "idle"
  /\ bulkPc' = "read" /\ workerPc' = [w \in BulkWorker |-> "take"]
  /\ UNCHANGED <<bulkNext, bulkChannel, bulkError, bulkEnded, callerEnded, bulkAnswer,
                 workerChunk, wire, hedgeVars>>

CallerCancels ==
  /\ bulkPc \in {"read", "offer", "wait"} /\ ~callerEnded
  /\ callerEnded' = TRUE /\ bulkEnded' = TRUE
  /\ UNCHANGED <<bulkPc, bulkNext, bulkChannel, bulkError, bulkAnswer, workerVars, wire,
                 hedgeVars>>

\* The source gives a chunk, its end, or an error; the last chunk may come with
\* the end.
ReadChunk ==
  /\ bulkPc = "read" /\ ~bulkEnded
  /\ \/ /\ bulkNext < ChunkCount
        /\ bulkNext' = bulkNext + 1 /\ bulkPc' = "offer" /\ UNCHANGED bulkError
     \/ /\ bulkNext = ChunkCount
        /\ bulkPc' = "wait" /\ UNCHANGED <<bulkNext, bulkError>>
     \/ bulkPc' = "wait" /\ bulkError' = TRUE /\ UNCHANGED bulkNext
  /\ UNCHANGED <<bulkChannel, bulkEnded, callerEnded, bulkAnswer, workerVars, wire, hedgeVars>>

OfferChunk ==
  /\ bulkPc = "offer" /\ Len(bulkChannel) < ChannelSize
  /\ bulkChannel' = Append(bulkChannel, bulkNext)
  /\ \/ bulkPc' = "read"
     \/ bulkNext = ChunkCount /\ bulkPc' = "wait"
  /\ UNCHANGED <<bulkNext, bulkError, bulkEnded, callerEnded, bulkAnswer, workerVars, wire,
                 hedgeVars>>

\* The loop is left; the channel is closed from here on.
StopReading ==
  /\ bulkPc \in {"read", "offer"} /\ bulkEnded
  /\ bulkPc' = "wait"
  /\ UNCHANGED <<bulkNext, bulkChannel, bulkError, bulkEnded, callerEnded, bulkAnswer,
                 workerVars, wire, hedgeVars>>

\* Faulty variant: nobody waits for what the workers have taken.
ChannelEmpty == bulkChannel = <<>>

WorkersEnded == \A w \in BulkWorker : workerPc[w] = "ended"

\* errCh decides.
BulkReturns ==
  /\ bulkPc = "wait" /\ WorkersEnded
  /\ bulkPc' = "returned" /\ bulkEnded' = TRUE
  /\ bulkAnswer' = IF bulkError THEN "error" ELSE "ok"
  /\ UNCHANGED <<bulkNext, bulkChannel, bulkError, callerEnded, workerVars, wire, hedgeVars>>
-----------------------------------------------------------------------------
TakeChunk(w) ==
  /\ workerPc[w] = "take" /\ bulkChannel # <<>>
  /\ workerChunk' = [workerChunk EXCEPT ![w] = Head(bulkChannel)]
  /\ bulkChannel' = Tail(bulkChannel)
  /\ workerPc' = [workerPc EXCEPT ![w] = "send"]
  /\ UNCHANGED <<bulkPc, bulkNext, bulkError, bulkEnded, callerEnded, bulkAnswer, wire,
                 hedgeVars>>

ChannelEnds(w) ==
  /\ workerPc[w] = "take" /\ bulkChannel = <<>> /\ bulkPc = "wait"
  /\ workerPc' = [workerPc EXCEPT ![w] = "ended"]
  /\ UNCHANGED <<bulkPc, bulkNext, bulkChannel, bulkError, bulkEnded, callerEnded,
                 bulkAnswer, workerChunk, wire, hedgeVars>>

ChunkSent(w) ==
  /\ workerPc[w] = "send" /\ ~bulkEnded
  /\ wire' = wire \cup {workerChunk[w]}
  /\ workerPc' = [workerPc EXCEPT ![w] = "take"]
  /\ UNCHANGED <<bulkPc, bulkNext, bulkChannel, bulkError, bulkEnded, callerEnded,
                 bulkAnswer, workerChunk, hedgeVars>>

EndedByFailure == TRUE

\* A write fails, or finds the context ended.
ChunkFails(w) ==
  /\ workerPc[w] = "send"
  /\ bulkError' = TRUE /\ bulkEnded' = EndedByFailure
  /\ workerPc' = [workerPc EXCEPT ![w] = "ended"]
  /\ UNCHANGED <<bulkPc, bulkNext, bulkChannel, callerEnded, bulkAnswer, workerChunk, wire,
                 hedgeVars>>
-----------------------------------------------------------------------------
SendHedge ==
  /\ bulkPc = "idle" /\ \A n \in HedgeNode : hedgePc[n] = "idle"
  /\ hedgePc' = [n \in HedgeNode |-> "dial"]
  /\ UNCHANGED <<bulkPc, bulkNext, bulkChannel, bulkError, bulkEnded, callerEnded, bulkAnswer,
                 workerVars, wire, hedgeDone, hedgeAnswer>>

\* Dial, send and close at one node; an error goes to errCh.
HedgeStep(n) ==
  /\ hedgePc' = [hedgePc EXCEPT ![n] = CASE hedgePc[n] = "dial" -> "send" [] OTHER -> "sent"]
     \/ hedgePc' = [hedgePc EXCEPT ![n] = "failed"]
  /\ hedgePc[n] \in {"dial", "send"}
  /\ UNCHANGED <<bulkPc, bulkNext, bulkChannel, bulkError, bulkEnded, callerEnded, bulkAnswer,
                 workerVars, wire, hedgeDone, hedgeAnswer>>

HedgesEnded == \A n \in HedgeNode : hedgePc[n] \in {"sent", "failed"}

HedgeDone ==
  /\ ~hedgeDone /\ HedgesEnded
  /\ hedgeDone' = TRUE
  /\ UNCHANGED <<bulkPc, bulkNext, bulkChannel, bulkError, bulkEnded, callerEnded, bulkAnswer,
                 workerVars, wire, hedgePc, hedgeAnswer>>

\* With both channels ready the answer is either.
HedgeReturns ==
  /\ hedgeAnswer = "none"
  /\ \/ hedgeDone /\ hedgeAnswer' = "ok"
     \/ (\E n \in HedgeNode : hedgePc[n] = "failed") /\ hedgeAnswer' = "error"
  /\ UNCHANGED <<bulkPc, bulkNext, bulkChannel, bulkError, bulkEnded, callerEnded, bulkAnswer,
                 workerVars, wire, hedgePc, hedgeDone>>
-----------------------------------------------------------------------------
BulkStep ==
  \/ ReadChunk \/ OfferChunk \/ StopReading \/ BulkReturns
  \/ \E w \in BulkWorker : TakeChunk(w) \/ ChannelEnds(w) \/ ChunkSent(w) \/ ChunkFails(w)

BulkNext ==
  \/ SendLarge \/ CallerCancels \/ BulkStep
  \/ SendHedge \/ HedgeDone \/ HedgeReturns \/ \E n \in HedgeNode : HedgeStep(n)

BulkSpec == BulkInit /\ [][BulkNext]_bulkVars
-----------------------------------------------------------------------------
BulkTypeOK ==
  /\ bulkPc \in {"idle", "read", "offer", "wait", "returned"} /\ bulkNext \in 0..ChunkCount
  /\ Len(bulkChannel) <= ChannelSize /\ bulkAnswer \in {"none", "ok", "error"}
  /\ \A w \in BulkWorker : workerPc[w] \in {"idle", "take", "send", "ended"}
                           /\ workerChunk[w] \in 0..ChunkCount
  /\ wire \subseteq 1..ChunkCount /\ hedgeAnswer \in {"none", "ok", "error"}
  /\ {bulkError, bulkEnded, callerEnded, hedgeDone} \subseteq BOOLEAN

\* A call that answers without an error has sent the whole source, unless its
\* caller's context has ended: then what was not sent may go unreported.
OkSentAll == bulkAnswer = "ok" /\ ~callerEnded => wire = 1..ChunkCount

\* A hedge answers without an error only after every node has ended: nothing of
\* the call goes on behind it.
HedgeOkEnded == hedgeAnswer = "ok" => \A n \in HedgeNode : hedgePc[n] \in {"sent", "failed"}

\* SendLarge returns whatever fails: the loop never waits for room in a channel
\* that no worker empties any more.
SendLargeReturns == bulkPc = "read" ~> bulkPc = "returned"
=============================================================================
