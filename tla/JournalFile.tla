---------------------------- MODULE JournalFile ----------------------------
(* internal/scheduler/advanced.go, the goroutine of a decision journal: what  *)
(* it takes from the channel goes to a buffer, the buffer to the file, and a  *)
(* file that has grown is renamed after the second it is renamed in.  The     *)
(* channel and SetJournalPath are in Scheduler.                               *)
EXTENDS Integers, Sequences, SequencesExt

CONSTANTS MaxEntries,   \* bound on the entries
          FileLimit,    \* entries at which a file is rotated (maxSize)
          BufferSize,   \* entries that the buffer holds before it writes itself
          MaxSeconds    \* bound on the clock

ASSUME JournalAssumption ==
  /\ MaxEntries \in Nat /\ FileLimit \in Nat \ {0} /\ BufferSize \in Nat \ {0} /\ MaxSeconds \in Nat

VARIABLES jfTaken,     \* entries taken from the channel so far
          jfBuffer,    \* j.w
          jfFile,      \* the file at filePath
          jfArchives,  \* the renamed files by second
          jfStdout,    \* what went to standard output
          jfToFile,    \* j.file is not nil
          jfSecond,
          jfReused,    \* a rename has replaced an archive of the same second
          jfEnded      \* flushAndClose

jfVars == <<jfTaken, jfBuffer, jfFile, jfArchives, jfStdout, jfToFile, jfSecond, jfReused, jfEnded>>

JournalInit ==
  /\ jfTaken = 0 /\ jfBuffer = <<>> /\ jfFile = <<>> /\ jfStdout = <<>>
  /\ jfArchives = [s \in 0..MaxSeconds |-> <<>>]
  /\ jfToFile \in BOOLEAN      \* a path, or none and "-"
  /\ jfSecond = 0 /\ jfReused = FALSE /\ jfEnded = FALSE

-----------------------------------------------------------------------------
PutLine(out, seq) == IF jfToFile THEN <<out.file \o seq, out.stdout>> ELSE <<out.file, out.stdout \o seq>>
Outputs == [file |-> jfFile, stdout |-> jfStdout]

(* a full buffer writes what it holds before it takes more                    *)
EmitEntry ==
  LET full == Len(jfBuffer) >= BufferSize
      out == PutLine(Outputs, IF full THEN jfBuffer ELSE <<>>)
  IN
  /\ ~jfEnded /\ jfTaken < MaxEntries
  /\ jfTaken' = jfTaken + 1
  /\ jfBuffer' = Append(IF full THEN <<>> ELSE jfBuffer, jfTaken')
  /\ jfFile' = out[1] /\ jfStdout' = out[2]
  /\ UNCHANGED <<jfArchives, jfToFile, jfSecond, jfReused, jfEnded>>

(* a tick flushes, and looks at the size of the file                          *)
FlushJournal ==
  LET out == PutLine(Outputs, jfBuffer) IN
  /\ ~jfEnded /\ jfBuffer # <<>>
  /\ jfFile' = out[1] /\ jfStdout' = out[2] /\ jfBuffer' = <<>>
  /\ UNCHANGED <<jfTaken, jfArchives, jfToFile, jfSecond, jfReused, jfEnded>>

\* Faulty variant: entries go on to what was renamed, too.
MovedKeptOpen == jfFile
(* the file that is opened after the rename is a new one                      *)
Moved == <<>>

(* tryRotate in the same tick, so that the buffer is empty; os.Rename         *)
(* replaces an archive of this second; a failed open turns to standard output *)
RotateFile(opened) ==
  /\ ~jfEnded /\ jfToFile /\ jfBuffer = <<>> /\ Len(jfFile) >= FileLimit
  /\ jfArchives' = [jfArchives EXCEPT ![jfSecond] = jfFile]
  /\ jfReused' = (jfReused \/ jfArchives[jfSecond] # <<>>)
  /\ jfFile' = Moved /\ jfToFile' = opened
  /\ UNCHANGED <<jfTaken, jfBuffer, jfStdout, jfSecond, jfEnded>>

EndJournal ==
  LET out == PutLine(Outputs, jfBuffer) IN
  /\ ~jfEnded /\ jfEnded' = TRUE
  /\ jfFile' = out[1] /\ jfStdout' = out[2] /\ jfBuffer' = <<>>
  /\ UNCHANGED <<jfTaken, jfArchives, jfToFile, jfSecond, jfReused>>

JournalSecond ==
  /\ jfSecond < MaxSeconds /\ jfSecond' = jfSecond + 1
  /\ UNCHANGED <<jfTaken, jfBuffer, jfFile, jfArchives, jfStdout, jfToFile, jfReused, jfEnded>>

JournalNext ==
  \/ EmitEntry \/ FlushJournal \/ (\E opened \in BOOLEAN : RotateFile(opened))
  \/ EndJournal \/ JournalSecond
JournalSpec == JournalInit /\ [][JournalNext]_jfVars

-----------------------------------------------------------------------------
JournalTypeOK ==
  /\ jfTaken \in 0..MaxEntries /\ Len(jfBuffer) <= BufferSize
  /\ jfToFile \in BOOLEAN /\ jfSecond \in 0..MaxSeconds
  /\ jfReused \in BOOLEAN /\ jfEnded \in BOOLEAN

(* The archives in the order of their names, the file, standard output and    *)
(* the buffer hold every entry once and in the order of the decisions, over   *)
(* rotations and a failed open, unless two rotations fell in one second.      *)
Archived == FlattenSeq([k \in 1..(MaxSeconds + 1) |-> jfArchives[k - 1]])
EntriesInOrder ==
  ~jfReused => Archived \o jfFile \o jfStdout \o jfBuffer = [k \in 1..jfTaken |-> k]
=============================================================================
