---------------------------- MODULE CfeFeatures ----------------------------
(* internal/cryptoengine/cfe_engine.go, the feature functions on a number:    *)
(* intToBits, residuesVector, digitHistogram, slidingResidues and the         *)
(* candidates of AnalyzeNumber, without the norms that scale their results    *)
(* and without the spectrum.                                                  *)
EXTENDS Integers, Sequences, FiniteSets, FiniteSetsExt, SequencesExt

CONSTANTS CfNumbers,      \* the numbers given
          CfWindows,      \* the windows given to intToBits; 0 is "as needed"
          MinWindow,      \* the least window as needed (256)
          CfChunkBits,    \* the chunk widths given to slidingResidues
          CfChunks,       \* chunks kept (64)
          CfMods,         \* the moduli given; 0 is none
          CfPrimes,       \* the primes of residuesVector
          HistogramSize,  \* the counters of digitHistogram (16)
          FlipLimit,      \* bits that AnalyzeNumber flips (128)
          OffsetLimit,    \* how far it goes up and down (32)
          CandidateLimit  \* the candidates it stops at (256)

ASSUME CfeAssumption ==
  /\ CfNumbers \subseteq Int /\ CfWindows \subseteq Nat /\ CfMods \subseteq Nat
  /\ CfChunkBits \subseteq Nat \ {0} /\ CfPrimes \subseteq Nat \ {0, 1}
  /\ {MinWindow, CfChunks, HistogramSize} \subseteq Nat \ {0}
  /\ {FlipLimit, OffsetLimit, CandidateLimit} \subseteq Nat

VARIABLES cfNumber,  \* the number
          cfCall,    \* the call and its arguments
          cfOut      \* what it returned

cfVars == <<cfNumber, cfCall, cfOut>>

AbsOf(n) == IF n < 0 THEN 0 - n ELSE n
BitLen(n) == CHOOSE len \in 0..AbsOf(n) : 2^len > AbsOf(n) /\ (len > 0 => 2^(len - 1) <= AbsOf(n))
NumberOf(bits) == FoldLeft(LAMBDA n, b : 2 * n + b, 0, bits)

-----------------------------------------------------------------------------
WindowOf(n, window) ==
  IF window > 0 THEN window ELSE IF BitLen(n) > MinWindow THEN BitLen(n) ELSE MinWindow

\* Faulty variant: the lowest digit first.
BitsLowFirst(n, window) == [i \in 1..window |-> (AbsOf(n) \div 2^(i - 1)) % 2]
(* intToBits: the binary digits of |n|, filled up with zeros on the left or   *)
(* cut there                                                                  *)
Bits(n, window) == [i \in 1..window |-> (AbsOf(n) \div 2^(window - i)) % 2]

(* residuesVector: big.Int.Mod, which is never negative                       *)
Residues(n) == [p \in CfPrimes |-> n % p]

(* digitHistogram in base 10: zero is one digit; a digit beyond the counters  *)
(* goes to the last one                                                       *)
Positions(n) == {k \in 0..BitLen(n) : k = 0 \/ AbsOf(n) \div 10^k > 0}
Counter(digit) == IF digit < HistogramSize THEN digit ELSE HistogramSize - 1
DigitHistogram(n) ==
  [c \in 0..(HistogramSize - 1) |->
     Cardinality({k \in Positions(n) : Counter((AbsOf(n) \div 10^k) % 10) = c})]

(* slidingResidues: chunks of the digits from the left, the last one as long  *)
(* as what is left, and zeros for the chunks that are not there               *)
ChunkEnd(start, width, len) == IF start + width > len THEN len ELSE start + width
Chunk(bits, k, width) ==
  LET start == (k - 1) * width
  IN IF start >= Len(bits) THEN <<>>
     ELSE SubSeq(bits, start + 1, ChunkEnd(start, width, Len(bits)))
Reduced(v, mod) == IF mod = 0 THEN v ELSE v % mod
SlidingResidues(n, width, mod) ==
  LET bits == Bits(n, WindowOf(n, 0))
  IN [k \in 1..CfChunks |-> Reduced(NumberOf(Chunk(bits, k, width)), mod)]

(* AnalyzeNumber: the numbers that differ in one bit, then the numbers around *)
(* it, none of them negative                                                  *)
XorBit(n, i) == IF (n \div 2^i) % 2 = 1 THEN n - 2^i ELSE n + 2^i
NonNegative(seq) == SelectSeq(seq, LAMBDA m : m >= 0)
Flips(n) == NonNegative([i \in 1..FlipLimit |-> XorBit(n, i - 1)])
Offsets(n) ==
  [k \in 1..(2 * OffsetLimit) |->
     IF k <= OffsetLimit THEN n + k - OffsetLimit - 1 ELSE n + k - OffsetLimit]
Candidates(n) ==
  LET all == Flips(n) \o NonNegative(Offsets(n))
  IN IF Len(all) > CandidateLimit THEN SubSeq(all, 1, CandidateLimit) ELSE all

-----------------------------------------------------------------------------
NoCall == [name |-> "none", window |-> 0, mod |-> 0]

CfeInit == cfNumber \in CfNumbers /\ cfCall = NoCall /\ cfOut = <<>>

Called(name, window, mod, out) ==
  /\ cfCall = NoCall /\ UNCHANGED cfNumber
  /\ cfCall' = [name |-> name, window |-> window, mod |-> mod] /\ cfOut' = out

IntToBits == \E w \in CfWindows : Called("bits", WindowOf(cfNumber, w), 0, Bits(cfNumber, WindowOf(cfNumber, w)))
ResiduesVector == Called("residues", 0, 0, Residues(cfNumber))
DigitCounts == Called("digits", 0, 0, DigitHistogram(cfNumber))
SlideOver ==
  \E w \in CfChunkBits : \E m \in CfMods : Called("chunks", w, m, SlidingResidues(cfNumber, w, m))
AnalyzeNumber == Called("candidates", 0, 0, Candidates(cfNumber))

CfeNext == IntToBits \/ ResiduesVector \/ DigitCounts \/ SlideOver \/ AnalyzeNumber
CfeSpec == CfeInit /\ [][CfeNext]_cfVars

-----------------------------------------------------------------------------
CfeTypeOK ==
  /\ cfNumber \in CfNumbers
  /\ cfCall.name \in {"none", "bits", "residues", "digits", "chunks", "candidates"}
  /\ cfCall.name = "chunks" => Len(cfOut) = CfChunks

(* intToBits gives the window's worth of the last binary digits of |n|.       *)
BitsAreNumber ==
  cfCall.name = "bits" => NumberOf(cfOut) = AbsOf(cfNumber) % 2^cfCall.window

(* The counted digits are those of the number: their sum is the number modulo *)
(* nine, and there are as many as it has.                                     *)
DigitsCounted ==
  cfCall.name = "digits" =>
    LET weight == MapThenSumSet(LAMBDA c : c * cfOut[c], DOMAIN cfOut)
        count == MapThenSumSet(LAMBDA c : cfOut[c], DOMAIN cfOut)
    IN /\ weight % 9 = AbsOf(cfNumber) % 9
       /\ 10^count > AbsOf(cfNumber) /\ (count > 1 => 10^(count - 1) <= AbsOf(cfNumber))

(* Without a modulus the chunks put together again are the number, when it    *)
(* has no more chunks than are kept.                                          *)
ChunksRebuild ==
  (cfCall.name = "chunks" /\ cfCall.mod = 0) =>
    LET len == WindowOf(cfNumber, 0)
        width == cfCall.window
        used == (len + width - 1) \div width
        Shift(k) == len - (IF k * width > len THEN len ELSE k * width)
    IN used <= CfChunks =>
         MapThenSumSet(LAMBDA k : cfOut[k] * 2^Shift(k), 1..used) = AbsOf(cfNumber)

(* AnalyzeNumber offers every neighbour and every flip of a number that fits, *)
(* and never the number itself.                                               *)
CandidatesComplete ==
  cfCall.name = "candidates" =>
    /\ cfNumber \notin Range(cfOut)
    /\ \A m \in 0..(AbsOf(cfNumber) + OffsetLimit) :
         (m # cfNumber /\ AbsOf(m - cfNumber) <= OffsetLimit /\ Len(cfOut) < CandidateLimit)
           => m \in Range(cfOut)
=============================================================================
