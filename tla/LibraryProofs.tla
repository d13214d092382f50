--------------------------- MODULE LibraryProofs ---------------------------
(***************************************************************************)
(* Theorems about Recall, AutoFix, AtomicPipeline, ToolPins, McpScan and   *)
(* ToolHook, for any values of their constants: what is recalled was       *)
(* vetted, what a rollback takes back, what artifacts_destroyed may be     *)
(* relied on for, what a verdict on a pinned tool rests on, when a scan    *)
(* may pass a change in silence, and which calls the hook lets run; and    *)
(* about all the parts of the library together, as TLC runs them.          *)
(***************************************************************************)
EXTENDS MCLibrary, EnforcerProofs, LogProofs, ScanProofs

----------------------------------------------------------------------------
(* Recall.                                                                  *)

Lines == [Keys -> Record]

\* A record says no more than what was once written to its key counts for.
Counts(lines) ==
    \A k \in Keys : lines[k].created # Absent =>
        /\ lasts[k][lines[k].content] # Absent
        /\ IF lines[k].expires = None THEN lasts[k][lines[k].content] = LastWeek
           ELSE \/ lasts[k][lines[k].content] = LastWeek
                \/ lines[k].expires <= lasts[k][lines[k].content]

\* Wherever records are held: in memory, in the file, in the hands of a thread.
EverywhereCounts ==
    /\ Counts(records)
    /\ Counts(saved.lines)
    /\ \A t \in Threads : Counts(task[t].lines)

\* The record that is_expired found, among the records of all keys.
FoundLines == [k \in Keys |-> IF k = reader.key THEN reader.found ELSE NoRecord]

\* What verify matched was once written there.
ReaderCounts ==
    /\ Counts(FoundLines)
    /\ reader.pc # "idle" => lasts[reader.key][reader.content] # Absent
    /\ reader.pc = "looked" => reader.found.created # Absent

RecallInv == RecallTypeOK /\ EverywhereCounts /\ ReaderCounts

LEMMA NoRecordTypes == NoRecord \in Record /\ NoRecords \in Lines /\ IdleReader \in Reader
<1>1. NoRecord \in Record
  BY DEF NoRecord, Record, Contents, None, Absent
<1>2. (CHOOSE k \in Keys : TRUE) \in Keys
  BY RecallAssumption
<1> QED
  BY <1>1, <1>2 DEF NoRecords, Lines, IdleReader, Reader, Contents

LEMMA NoRecordsCount == Counts(NoRecords)
  BY DEF Counts, NoRecords, NoRecord

\* What one write puts down for the record and for the history.
LEMMA WriteTypes ==
    ASSUME RecallTypeOK, NEW source \in Sources, NEW ttl \in Terms
    PROVE  Expiry(source, week, ttl) \in Int /\ LastOf(source, ttl) \in Weeks
<1>1. week \in Nat /\ week <= LastWeek /\ LastWeek \in Nat
  BY RecallAssumption DEF RecallTypeOK, Weeks
<1>2. LastOf(source, ttl) \in Weeks
  BY <1>1 DEF LastOf, Weeks
<1>3. Expiry(source, week, ttl) \in Int
  BY <1>1, RecallAssumption DEF Expiry, Terms, None
<1> QED
  BY <1>2, <1>3

\* The term of the record ends with the term of the history.
LEMMA WriteCounts ==
    ASSUME RecallTypeOK, NEW source \in Sources, NEW ttl \in Terms
    PROVE  IF Expiry(source, week, ttl) = None THEN LastOf(source, ttl) = LastWeek
           ELSE \/ LastOf(source, ttl) = LastWeek
                \/ Expiry(source, week, ttl) <= LastOf(source, ttl)
<1>1. week \in Nat /\ LastWeek \in Nat
  BY RecallAssumption DEF RecallTypeOK, Weeks
<1>2. CASE ttl = 0
  BY <1>1, <1>2 DEF Expiry, LastOf, None
<1>3. CASE ttl = 1
  BY <1>1, <1>3 DEF Expiry, LastOf, None
<1>4. CASE ttl = None
  <2>1. CASE source \in {"user", "tool"}
    BY <1>1, <1>4, <2>1 DEF Expiry, LastOf, None
  <2>2. CASE source \notin {"user", "tool"}
    BY <1>4, <2>2 DEF LastOf, None
  <2> QED
    BY <2>1, <2>2
<1> QED
  BY <1>2, <1>3, <1>4 DEF Terms

LEMMA RecallStarts ==
    ASSUME RecallInit
    PROVE  RecallInv
<1>1. RecallTypeOK
  BY NoRecordTypes, RecallAssumption
     DEF RecallInit, RecallTypeOK, Weeks, Saved, Task, NoTask, Lines
<1>2. EverywhereCounts
  BY NoRecordsCount DEF RecallInit, EverywhereCounts, NoTask
<1>3. ReaderCounts
  <2>1. reader.pc = "idle" /\ reader.found = NoRecord
    BY DEF RecallInit, IdleReader
  <2>2. Counts(FoundLines)
    BY <2>1 DEF Counts, FoundLines, NoRecord
  <2> QED
    BY <2>1, <2>2 DEF ReaderCounts
<1> QED
  BY <1>1, <1>2, <1>3 DEF RecallInv

LEMMA RecallTypes ==
    ASSUME RecallTypeOK, [RecallNext]_recall
    PROVE  RecallTypeOK'
<1> USE DEF RecallTypeOK
<1>1. ASSUME NEW k \in Keys, NEW c \in Contents, NEW s \in Sources, NEW ttl \in Terms,
             Remember(k, c, s, ttl)
      PROVE  RecallTypeOK'
  <2>2. [content |-> c, created |-> week, expires |-> Expiry(s, week, ttl)] \in Record
    BY WriteTypes, RecallAssumption DEF Record, Weeks
  <2>3. Later(lasts[k][c], LastOf(s, ttl)) \in Weeks \cup {Absent}
    BY WriteTypes DEF Later
  <2> QED
    BY <1>1, <2>2, <2>3 DEF Remember
<1>2. CASE \/ \E k \in Keys, c \in Contents : VerifyEntry(k, c)
           \/ LookUpExpiry \/ AnswerRecall
  <2>1. reader' \in Reader
    BY <1>2, NoRecordTypes DEF VerifyEntry, LookUpExpiry, AnswerRecall, Reader
  <2> QED
    BY <1>2, <2>1 DEF VerifyEntry, LookUpExpiry, AnswerRecall
<1>3. CASE PruneExpired \/ \E age \in 0..1 : RotateOlder(age)
  BY <1>3, NoRecordTypes DEF PruneExpired, RotateOlder
<1>4. ASSUME NEW t \in Threads,
             CopyRecords(t) \/ OpenSaved(t) \/ WriteSaved(t) \/ ReadSaved(t) \/ ReplaceRecords(t)
      PROVE  RecallTypeOK'
  <2>1. task[t].lines \in Lines /\ saved.lines \in Lines /\ records \in Lines
    BY DEF Task, Saved, Lines
  <2>2. \A lines \in Lines, to \in {"nothing", "save", "write", "load"} :
           [does |-> to, lines |-> lines] \in Task
    BY DEF Task, Lines
  <2>3. CASE CopyRecords(t)
    BY <2>1, <2>2, <2>3 DEF CopyRecords, Does
  <2>4. CASE OpenSaved(t)
    <3>1. Torn \in Saved
      BY NoRecordTypes DEF Torn, Saved, Lines
    <3> QED
      BY <2>1, <2>2, <2>4, <3>1 DEF OpenSaved, Does
  <2>5. CASE WriteSaved(t)
    <3>1. [state |-> "whole", lines |-> task[t].lines] \in Saved
      BY <2>1 DEF Saved, Lines
    <3> QED
      BY <2>2, <2>5, <3>1, NoRecordTypes DEF WriteSaved, Does
  <2>6. CASE ReadSaved(t)
    BY <2>1, <2>2, <2>6 DEF ReadSaved, Does
  <2>7. CASE ReplaceRecords(t)
    BY <2>1, <2>2, <2>7, NoRecordTypes DEF ReplaceRecords, Does, Lines
  <2> QED
    BY <1>4, <2>3, <2>4, <2>5, <2>6, <2>7
<1>5. CASE Restart
  BY <1>5, NoRecordTypes DEF Restart, NoTask, Task, Lines
<1>6. CASE PassWeek
  BY <1>6, RecallAssumption DEF PassWeek, Weeks
<1>7. CASE UNCHANGED recall
  BY <1>7 DEF recall
<1> QED
  BY <1>1, <1>2, <1>3, <1>4, <1>5, <1>6, <1>7 DEF RecallNext

\* A write lengthens what other records of its key count for, never shortens it.
LEMMA WriteKeepsCounts ==
    ASSUME RecallTypeOK, NEW lines \in Lines, Counts(lines),
           NEW k \in Keys, NEW c \in Contents, NEW w \in Weeks,
           lasts' = [lasts EXCEPT ![k][c] = Later(@, w)]
    PROVE  Counts(lines)'
<1> SUFFICES ASSUME NEW j \in Keys, lines[j].created # Absent
             PROVE  /\ lasts'[j][lines[j].content] # Absent
                    /\ IF lines[j].expires = None THEN lasts'[j][lines[j].content] = LastWeek
                       ELSE \/ lasts'[j][lines[j].content] = LastWeek
                            \/ lines[j].expires <= lasts'[j][lines[j].content]
  BY DEF Counts
<1>1. LastWeek \in Nat /\ w \in 0..LastWeek
  BY RecallAssumption DEF Weeks
<1>2. lines[j] \in Record /\ lines[j].content \in Contents /\ lines[j].expires \in Int
  BY DEF Lines, Record
<1>3. lasts[j][lines[j].content] \in (0..LastWeek) \cup {-2}
  BY <1>2 DEF RecallTypeOK, Weeks, Absent
<1>4. lasts'[j][lines[j].content] \in {lasts[j][lines[j].content],
                                      Later(lasts[j][lines[j].content], w)}
  BY <1>2 DEF RecallTypeOK
<1> QED
  BY <1>1, <1>2, <1>3, <1>4 DEF Counts, Later, Absent

LEMMA RecallCounts ==
    ASSUME RecallInv, [RecallNext]_recall
    PROVE  EverywhereCounts'
<1> USE DEF RecallInv
<1>1. records \in Lines /\ saved.lines \in Lines /\ \A t \in Threads : task[t].lines \in Lines
  BY DEF RecallTypeOK, Saved, Task, Lines
<1>2. ASSUME NEW k \in Keys, NEW c \in Contents, NEW s \in Sources, NEW ttl \in Terms,
             Remember(k, c, s, ttl)
      PROVE  EverywhereCounts'
  <2>1. lasts' = [lasts EXCEPT ![k][c] = Later(@, LastOf(s, ttl))] /\ UNCHANGED <<saved, task>>
    BY <1>2 DEF Remember
  <2>2. LastOf(s, ttl) \in Weeks
    BY WriteTypes
  <2>3. \A lines \in Lines : Counts(lines) => Counts(lines)'
    BY <2>1, <2>2, WriteKeepsCounts
  <2>4. Counts(saved.lines)' /\ \A t \in Threads : Counts(task[t].lines)'
    <3>1. PICK lines : lines = saved.lines
      OBVIOUS
    <3>2. Counts(lines)'
      BY <1>1, <2>3, <3>1 DEF EverywhereCounts
    <3>3. ASSUME NEW t \in Threads
          PROVE  Counts(task[t].lines)'
      <4>1. PICK had : had = task[t].lines
        OBVIOUS
      <4>2. Counts(had)'
        BY <1>1, <2>3, <4>1 DEF EverywhereCounts
      <4> QED
        BY <2>1, <4>1, <4>2 DEF Counts
    <3> QED
      BY <2>1, <3>1, <3>2, <3>3 DEF Counts
  <2>5. Counts(records)'
    <3> SUFFICES ASSUME NEW j \in Keys, records'[j].created # Absent
                 PROVE  /\ lasts'[j][records'[j].content] # Absent
                        /\ IF records'[j].expires = None
                           THEN lasts'[j][records'[j].content] = LastWeek
                           ELSE \/ lasts'[j][records'[j].content] = LastWeek
                                \/ records'[j].expires <= lasts'[j][records'[j].content]
      BY DEF Counts
    <3>1. CASE j # k
      <4>1. records'[j] = records[j] /\ lasts'[j] = lasts[j]
        BY <1>2, <3>1 DEF Remember, RecallTypeOK
      <4> QED
        BY <4>1 DEF EverywhereCounts, Counts
    <3>2. CASE j = k
      <4>1. records'[j] = [content |-> c, created |-> week, expires |-> Expiry(s, week, ttl)]
        BY <1>2, <3>2 DEF Remember, RecallTypeOK
      <4>2. lasts'[j][c] = Later(lasts[j][c], LastOf(s, ttl))
        BY <1>2, <3>2 DEF Remember, RecallTypeOK
      <4>3. lasts[j][c] \in (0..LastWeek) \cup {-2} /\ LastOf(s, ttl) \in 0..LastWeek
        BY <2>2 DEF RecallTypeOK, Weeks, Absent
      <4> QED
        BY <4>1, <4>2, <4>3, WriteTypes, WriteCounts, RecallAssumption DEF Later, Absent
    <3> QED
      BY <3>1, <3>2
  <2> QED
    BY <2>4, <2>5 DEF EverywhereCounts
\* Otherwise the history stands, and records move or go.
<1>3. ASSUME UNCHANGED lasts,
             \A lines \in {records', saved'.lines} \cup {task'[t].lines : t \in Threads} :
                Counts(lines)
      PROVE  EverywhereCounts'
  BY <1>3 DEF EverywhereCounts, Counts
<1>4. CASE \/ \E k \in Keys, c \in Contents : VerifyEntry(k, c)
           \/ LookUpExpiry \/ AnswerRecall
  BY <1>3, <1>4 DEF VerifyEntry, LookUpExpiry, AnswerRecall, EverywhereCounts
<1>5. CASE PruneExpired \/ \E age \in 0..1 : RotateOlder(age)
  <2>1. \A k \in Keys : records'[k] \in {records[k], NoRecord}
    BY <1>5 DEF PruneExpired, RotateOlder
  <2>2. Counts(records')
    BY <2>1 DEF EverywhereCounts, Counts, NoRecord
  <2> QED
    BY <1>3, <1>5, <2>2 DEF PruneExpired, RotateOlder, EverywhereCounts
<1>6. ASSUME NEW t \in Threads,
             CopyRecords(t) \/ OpenSaved(t) \/ WriteSaved(t) \/ ReadSaved(t) \/ ReplaceRecords(t)
      PROVE  EverywhereCounts'
  <2>1. \A lines \in {records', saved'.lines} \cup {task'[u].lines : u \in Threads} :
           lines \in {records, saved.lines, NoRecords} \cup {task[u].lines : u \in Threads}
    BY <1>6 DEF CopyRecords, OpenSaved, WriteSaved, ReadSaved, ReplaceRecords, Does, Torn,
                RecallTypeOK
  <2>2. UNCHANGED lasts
    BY <1>6 DEF CopyRecords, OpenSaved, WriteSaved, ReadSaved, ReplaceRecords
  <2> QED
    BY <1>3, <2>1, <2>2, NoRecordsCount DEF EverywhereCounts
<1>7. CASE Restart
  BY <1>3, <1>7, NoRecordsCount DEF Restart, NoTask, EverywhereCounts
<1>8. CASE PassWeek
  BY <1>3, <1>8 DEF PassWeek, EverywhereCounts
<1>9. CASE UNCHANGED recall
  BY <1>3, <1>9 DEF recall, EverywhereCounts
<1> QED
  BY <1>2, <1>4, <1>5, <1>6, <1>7, <1>8, <1>9 DEF RecallNext

LEMMA ReaderKeeps ==
    ASSUME RecallInv, [RecallNext]_recall
    PROVE  ReaderCounts'
<1> USE DEF RecallInv
<1>1. FoundLines \in Lines
  BY NoRecordTypes DEF FoundLines, Lines, RecallTypeOK, Reader
<1>2. reader.key \in Keys /\ reader.content \in Contents
  BY DEF RecallTypeOK, Reader
<1>3. ASSUME reader' = IdleReader
      PROVE  ReaderCounts'
  <2>1. FoundLines' = NoRecords /\ reader'.pc = "idle"
    BY <1>3 DEF FoundLines, NoRecords, IdleReader
  <2>2. Counts(NoRecords)'
    BY DEF Counts, NoRecords, NoRecord
  <2> QED
    BY <2>1, <2>2 DEF ReaderCounts, Counts
<1>4. ASSUME UNCHANGED <<reader, lasts>>
      PROVE  ReaderCounts'
  BY <1>4 DEF ReaderCounts, Counts, FoundLines
<1>5. ASSUME NEW k \in Keys, NEW c \in Contents, NEW s \in Sources, NEW ttl \in Terms,
             Remember(k, c, s, ttl)
      PROVE  ReaderCounts'
  <2>1. lasts' = [lasts EXCEPT ![k][c] = Later(@, LastOf(s, ttl))] /\ UNCHANGED reader
    BY <1>5 DEF Remember
  <2>2. LastOf(s, ttl) \in Weeks
    BY WriteTypes
  <2>3. PICK lines \in Lines : lines = FoundLines
    BY <1>1
  <2>4. Counts(lines)'
    BY <2>1, <2>2, <2>3, WriteKeepsCounts DEF ReaderCounts
  <2>5. Counts(FoundLines)'
    BY <2>1, <2>3, <2>4 DEF Counts, FoundLines
  <2>6. Later(lasts[k][c], LastOf(s, ttl)) # Absent
    BY <2>2, RecallAssumption DEF RecallTypeOK, Weeks, Later, Absent
  <2>7. reader.pc # "idle" => lasts'[reader.key][reader.content] # Absent
    BY <1>2, <2>1, <2>6 DEF ReaderCounts, RecallTypeOK
  <2> QED
    BY <2>1, <2>5, <2>7 DEF ReaderCounts
\* Whatever verify matched is a record that counts.
<1>6. ASSUME NEW k \in Keys, NEW c \in Contents, VerifyEntry(k, c)
      PROVE  ReaderCounts'
  <2>1. /\ records[k].created # Absent /\ records[k].content = c
        /\ reader' = [IdleReader EXCEPT !.pc = "verified", !.key = k, !.content = c]
        /\ UNCHANGED <<records, lasts>>
    BY <1>6 DEF VerifyEntry
  <2>2. lasts[k][c] # Absent
    BY <2>1 DEF EverywhereCounts, Counts
  <2>3. reader'.key = k /\ reader'.content = c /\ reader'.pc = "verified"
        /\ reader'.found = NoRecord
    BY <2>1 DEF IdleReader
  <2>4. Counts(FoundLines)'
    BY <2>1, <2>3 DEF Counts, FoundLines, NoRecord
  <2> QED
    BY <2>1, <2>2, <2>3, <2>4 DEF ReaderCounts
<1>7. CASE LookUpExpiry
  <2>1. CASE records[reader.key].created = Absent
    BY <1>3, <1>7, <2>1 DEF LookUpExpiry
  <2>2. CASE records[reader.key].created # Absent
    <3>1. /\ reader' = [reader EXCEPT !.pc = "looked", !.found = records[reader.key]]
          /\ UNCHANGED <<records, lasts>> /\ reader.pc = "verified"
      BY <1>7, <2>2 DEF LookUpExpiry
    <3>2. reader'.key = reader.key /\ reader'.content = reader.content
          /\ reader'.found = records[reader.key]
      BY <3>1 DEF RecallTypeOK, Reader
    <3>3. Counts(FoundLines)'
      BY <3>1, <3>2 DEF Counts, FoundLines, NoRecord, EverywhereCounts
    <3> QED
      BY <2>2, <3>1, <3>2, <3>3 DEF ReaderCounts
  <2> QED
    BY <2>1, <2>2
<1>8. CASE AnswerRecall \/ Restart
  BY <1>3, <1>8 DEF AnswerRecall, Restart
<1>9. CASE PruneExpired \/ (\E age \in 0..1 : RotateOlder(age)) \/ PassWeek \/ UNCHANGED recall
  BY <1>4, <1>9 DEF PruneExpired, RotateOlder, PassWeek, recall
<1>10. ASSUME NEW t \in Threads,
              CopyRecords(t) \/ OpenSaved(t) \/ WriteSaved(t) \/ ReadSaved(t) \/ ReplaceRecords(t)
       PROVE  ReaderCounts'
  BY <1>4, <1>10 DEF CopyRecords, OpenSaved, WriteSaved, ReadSaved, ReplaceRecords
<1> QED
  BY <1>5, <1>6, <1>7, <1>8, <1>9, <1>10 DEF RecallNext

LEMMA RecallHolds == RecallSpec => []RecallInv
<1>1. RecallInit => RecallInv
  BY RecallStarts
<1>2. RecallInv /\ [RecallNext]_recall => RecallInv'
  BY RecallTypes, RecallCounts, ReaderKeeps DEF RecallInv
<1> QED
  BY <1>1, <1>2, PTL DEF RecallSpec

\* memory/integrity.py and memory/scanner.py, whose verify and is_expired take the lock
\* apart: whatever old records a late save, a load or a restart brings back, what is
\* recalled was allowed when it was written to its key, and its term goes on where
\* is_expired still found it, for any keys, sources, threads and weeks.
THEOREM RecallIsVettedAlways == RecallSpec => []RecallIsVetted
<1>1. RecallInv => RecallIsVetted
  <2> SUFFICES ASSUME RecallInv, NEW source \in Sources, Accepted(source)
               PROVE  /\ lasts[reader.key][reader.content] # Absent
                      /\ reader.found.content = reader.content =>
                            week <= lasts[reader.key][reader.content]
    BY DEF RecallIsVetted
  <2>1. /\ reader.pc = "looked"
        /\ reader.found.expires = None \/ ~(week > reader.found.expires)
    BY DEF Accepted, Expired
  <2>2. reader.found.created # Absent /\ lasts[reader.key][reader.content] # Absent
    BY <2>1 DEF RecallInv, ReaderCounts
  <2>3. reader.key \in Keys /\ reader.content \in Contents /\ FoundLines[reader.key] = reader.found
    BY DEF RecallInv, RecallTypeOK, Reader, FoundLines
  <2>4. week \in 0..LastWeek /\ reader.found.expires \in Int /\ LastWeek \in Nat
        /\ lasts[reader.key][reader.content] \in (0..LastWeek) \cup {-2}
    BY <2>3, RecallAssumption DEF RecallInv, RecallTypeOK, Weeks, Record, Reader, Absent
  <2>5. reader.found.content = reader.content =>
           IF reader.found.expires = None THEN lasts[reader.key][reader.content] = LastWeek
           ELSE \/ lasts[reader.key][reader.content] = LastWeek
                \/ reader.found.expires <= lasts[reader.key][reader.content]
    BY <2>2, <2>3 DEF RecallInv, ReaderCounts, Counts
  <2> QED
    BY <2>1, <2>2, <2>4, <2>5
<1> QED
  BY <1>1, RecallHolds, PTL

----------------------------------------------------------------------------
(* AutoFix.                                                                *)

\* What this run applied bears its number; a pattern that flags a safe input belongs to
\* a run that died, or to this one while it may still be rolled back.
BroadIsTraced ==
    /\ fixStage # "idle" => \A e \in applied : e.cycle = cycle
    /\ \A e \in patterns : e.fix \in Broad =>
          \/ e.cycle \in died
          \/ fixStage \in {"similarity", "verify", "undo_patterns"} /\ e \in applied

LEMMA TracedFirst ==
    ASSUME AutoFixInit
    PROVE  BroadIsTraced
  BY DEF AutoFixInit, BroadIsTraced

\* A rollback by number leaves no broad pattern of this run.
LEMMA RollBackTakesBroad ==
    ASSUME BroadIsTraced, fixStage = "undo_patterns",
           NEW e \in Remaining(patterns, Regexes), e.fix \in Broad
    PROVE  e.cycle \in died
<1>1. e \in patterns /\ e.id \notin IdsOf(Of(applied, Regexes))
  BY DEF Remaining
<1>2. e \notin Of(applied, Regexes)
  BY <1>1 DEF IdsOf
<1>3. e \notin applied
  BY <1>2, AutoFixAssumption DEF Of
<1> QED
  BY <1>1, <1>3 DEF BroadIsTraced

LEMMA TracedStays ==
    ASSUME BroadIsTraced, [AutoFixNext]_autofix
    PROVE  BroadIsTraced'
<1> USE DEF BroadIsTraced
<1>1. ASSUME NEW list \in Proposals, Run(list)
      PROVE  BroadIsTraced'
  <2>1. fixStage = "idle" /\ UNCHANGED <<patterns, died>> /\ cycle' = cycle + 1
    BY <1>1 DEF Run
  <2>2. \A e \in patterns' : e.fix \in Broad => e.cycle \in died'
    BY <2>1
  <2>3. CASE UNCHANGED <<fixStage, applied>>
    BY <2>1, <2>2, <2>3
  <2>4. CASE fixStage' = "patterns" /\ applied' = Applicable(list)
    BY <2>1, <2>2, <2>4 DEF Applicable
  <2> QED
    BY <1>1, <2>3, <2>4 DEF Run
\* The patterns that join are of this run.
<1>2. CASE SavePatterns
  BY <1>2 DEF SavePatterns, Of
<1>3. CASE SaveSimilarity
  BY <1>3 DEF SaveSimilarity
\* A run ends here only if no pattern at all is broad.
<1>4. CASE Verify
  <2>1. CASE Flagged(patterns)
    BY <1>4, <2>1 DEF Verify
  <2>2. CASE ~Flagged(patterns)
    BY <1>4, <2>2 DEF Verify, Flagged
  <2> QED
    BY <2>1, <2>2
<1>5. CASE UndoPatterns
  <2>1. patterns' = Remaining(patterns, Regexes) /\ fixStage = "undo_patterns"
        /\ fixStage' = "undo_similarity" /\ UNCHANGED <<applied, cycle, died>>
    BY <1>5 DEF UndoPatterns
  <2>2. \A e \in patterns' : e.fix \in Broad => e.cycle \in died'
    BY <2>1, RollBackTakesBroad
  <2> QED
    BY <2>1, <2>2
<1>6. CASE UndoSimilarity
  BY <1>6 DEF UndoSimilarity
\* What was left of a run that dies is now traced to its number.
<1>7. CASE Die
  BY <1>7 DEF Die
<1>8. CASE Clean
  BY <1>8 DEF Clean
<1>9. CASE UNCHANGED autofix
  BY <1>9 DEF autofix
<1> QED
  BY <1>1, <1>2, <1>3, <1>4, <1>5, <1>6, <1>7, <1>8, <1>9 DEF AutoFixNext, Cycle

\* auto_fix.py: between runs, a learnt pattern that flags a safe input was left by a run
\* that died, for any proposals and their numbers.
THEOREM RunsLeaveNoFalsePositives == AutoFixSpec => []NoFalsePositives
<1>1. AutoFixInit => BroadIsTraced
  BY TracedFirst
<1>2. BroadIsTraced /\ [AutoFixNext]_autofix => BroadIsTraced'
  BY TracedStays
<1>3. BroadIsTraced => NoFalsePositives
  BY DEF BroadIsTraced, NoFalsePositives
<1> QED
  BY <1>1, <1>2, <1>3, PTL DEF AutoFixSpec

\* The types of a cycle.

\* A run that is in the middle of something has a number.
AutoFixTypes == AutoFixTypeOK /\ (fixStage # "idle" => cycle \in 1..MaxCycles)

LEMMA AutoFixTypedFirst ==
    ASSUME AutoFixInit
    PROVE  AutoFixTypes
  BY AutoFixAssumption DEF AutoFixInit, AutoFixTypes, AutoFixTypeOK, Stages

LEMMA ApplicableTypes ==
    ASSUME cycle \in 0..MaxCycles, cycle < MaxCycles, NEW list \in Proposals
    PROVE  Applicable(list) \subseteq LearnedEntry
<1>1. PICK n \in 1..MaxProposals : list \in [1..n -> Fixes]
  BY DEF Proposals
<1>2. ASSUME NEW i \in DOMAIN list
      PROVE  [id |-> i, fix |-> list[i], cycle |-> cycle + 1] \in LearnedEntry
  <2>1. i \in 1..MaxProposals /\ list[i] \in Fixes /\ cycle + 1 \in 0..MaxCycles
    BY <1>1, AutoFixAssumption
  <2> QED
    BY <2>1 DEF LearnedEntry
<1> QED
  BY <1>2 DEF Applicable

LEMMA AutoFixTyped ==
    ASSUME AutoFixTypes, [AutoFixNext]_autofix
    PROVE  AutoFixTypes'
<1> USE DEF AutoFixTypes, AutoFixTypeOK, Stages
<1>1. ASSUME NEW list \in Proposals, Run(list)
      PROVE  AutoFixTypes'
  <2>1. cycle' \in 1..MaxCycles
    BY <1>1, AutoFixAssumption DEF Run
  <2>2. Applicable(list) \subseteq LearnedEntry
    BY <1>1, ApplicableTypes DEF Run
  <2> QED
    BY <1>1, <2>1, <2>2 DEF Run
<1>2. CASE SavePatterns
  BY <1>2 DEF SavePatterns, Of
<1>3. CASE SaveSimilarity
  BY <1>3 DEF SaveSimilarity, Of
<1>4. CASE Verify
  <2>1. FixesOf(applied) \ {"note"} \subseteq Regexes \cup Phrases
    BY DEF FixesOf, LearnedEntry, Fixes
  <2> QED
    BY <1>4, <2>1 DEF Verify
<1>5. CASE UndoPatterns
  BY <1>5 DEF UndoPatterns, Remaining
<1>6. CASE UndoSimilarity
  BY <1>6 DEF UndoSimilarity, Remaining
<1>7. CASE Die
  BY <1>7 DEF Die, Writing
<1>8. CASE Clean
  BY <1>8 DEF Clean
<1>9. CASE UNCHANGED autofix
  BY <1>9 DEF autofix
<1> QED
  BY <1>1, <1>2, <1>3, <1>4, <1>5, <1>6, <1>7, <1>8, <1>9 DEF AutoFixNext, Cycle

LEMMA AutoFixHolds == AutoFixSpec => []AutoFixTypes
<1>1. AutoFixTypes /\ [AutoFixNext]_autofix => AutoFixTypes'
  BY AutoFixTyped
<1> QED
  BY AutoFixTypedFirst, <1>1, PTL DEF AutoFixSpec

----------------------------------------------------------------------------
(* AtomicPipeline.                                                         *)

\* A good outcome is said at the end only, and so whatever is written after it is
\* known to be late: with it DestroyedMeansGone is inductive.
Settled == result \in {"destroyed", "blocked"} => step = "done"

PipelineInv == PipelineTypeOK /\ Settled /\ DestroyedMeansGone

LEMMA PipelineStarts ==
    ASSUME PipelineInit
    PROVE  PipelineInv
  BY PipelineAssumption
     DEF PipelineInit, PipelineInv, PipelineTypeOK, Settled, DestroyedMeansGone, Steps, Outcomes,
         Programs, Access

LEMMA PipelineTypes ==
    ASSUME PipelineTypeOK, [PipelineNext]_pipeline
    PROVE  PipelineTypeOK'
<1> USE PipelineAssumption DEF PipelineTypeOK, Steps, Outcomes
<1>1. ASSUME NEW outputs \in SUBSET Files, NEW blocked \in BOOLEAN, Begin(outputs, blocked)
      PROVE  PipelineTypeOK'
  BY <1>1 DEF Begin, Programs, Access
<1>2. ASSUME NEW path \in Files, NEW locked \in BOOLEAN, WriteFile(path, locked)
      PROVE  PipelineTypeOK'
  BY <1>2 DEF WriteFile
<1>9. ASSUME NEW path \in Files, NEW mode \in Access, ChangeMode(path, mode)
      PROVE  PipelineTypeOK'
  BY <1>9 DEF ChangeMode
<1>3. ASSUME NEW process \in Programs, Start(process) \/ End(process)
      PROVE  PipelineTypeOK'
  BY <1>3 DEF Start, End
<1>4. CASE Finish \/ TimeOut \/ ListArtifacts
  BY <1>4 DEF Finish, TimeOut, ListArtifacts
<1>5. CASE List \/ OptOut \/ ListForced
  BY <1>5 DEF List, OptOut, ListForced, Visible
<1>6. ASSUME NEW path \in Files, Delete(path)
      PROVE  PipelineTypeOK'
  BY <1>6 DEF Delete
<1>7. CASE VerifyDestruction \/ Raise
  BY <1>7 DEF VerifyDestruction, Raise
<1>8. CASE UNCHANGED pipeline
  BY <1>8 DEF pipeline
<1> QED
  BY <1>1, <1>2, <1>3, <1>4, <1>5, <1>6, <1>7, <1>8, <1>9 DEF PipelineNext

LEMMA PipelineSettles ==
    ASSUME PipelineInv, [PipelineNext]_pipeline
    PROVE  Settled' /\ DestroyedMeansGone'
<1> USE DEF PipelineInv, Settled, DestroyedMeansGone
<1>1. ASSUME NEW outputs \in SUBSET Files, NEW blocked \in BOOLEAN, Begin(outputs, blocked)
      PROVE  Settled' /\ DestroyedMeansGone'
  BY <1>1 DEF Begin
\* A write after a good outcome finds the step at its end, and is late.
<1>2. ASSUME NEW path \in Files, NEW locked \in BOOLEAN, WriteFile(path, locked)
      PROVE  Settled' /\ DestroyedMeansGone'
  BY <1>2 DEF WriteFile
<1>9. ASSUME NEW path \in Files, NEW mode \in Access, ChangeMode(path, mode)
      PROVE  Settled' /\ DestroyedMeansGone'
  BY <1>9 DEF ChangeMode
<1>3. ASSUME NEW process \in Programs, Start(process) \/ End(process)
      PROVE  Settled' /\ DestroyedMeansGone'
  BY <1>3 DEF Start, End
<1>4. CASE Finish \/ TimeOut \/ ListArtifacts
  BY <1>4 DEF Finish, TimeOut, ListArtifacts
<1>5. CASE List \/ OptOut \/ ListForced
  BY <1>5 DEF List, OptOut, ListForced
<1>6. ASSUME NEW path \in Files, Delete(path)
      PROVE  Settled' /\ DestroyedMeansGone'
  BY <1>6 DEF Delete
\* What the second listing finds decides, not what the deletions reported.
<1>7. CASE VerifyDestruction
  BY <1>7 DEF VerifyDestruction, Verified
<1>8. CASE Raise
  BY <1>8 DEF Raise
<1>10. CASE UNCHANGED pipeline
  BY <1>10 DEF pipeline
<1> QED
  BY <1>1, <1>2, <1>3, <1>4, <1>5, <1>6, <1>7, <1>8, <1>9, <1>10 DEF PipelineNext

\* Whatever the code leaves running, every state of an execution is well-typed, and what
\* is said of its directory is said at the end.
THEOREM PipelineInvariant == PipelineSpec => []PipelineInv
<1>1. PipelineInit => PipelineInv
  BY PipelineStarts
<1>2. PipelineInv /\ [PipelineNext]_pipeline => PipelineInv'
  BY PipelineTypes, PipelineSettles DEF PipelineInv
<1> QED
  BY <1>1, <1>2, PTL DEF PipelineSpec

\* aep/pipeline.py and vaporizer.py, whose listing skips what it may not read: once
\* artifacts_destroyed is true, what is in the directory was declared, was in a directory
\* that the check could not read, or was written after the check, for any files and any
\* writes.
THEOREM DestructionIsTrue == PipelineSpec => []DestroyedMeansGone
<1>1. PipelineInv => DestroyedMeansGone
  BY DEF PipelineInv
<1> QED
  BY <1>1, PipelineInvariant, PTL

----------------------------------------------------------------------------
(* ToolPins.                                                               *)

\* Every hash that is held is one of an approved definition of its tool.
Approved(had) ==
    \A t \in DOMAIN had : \E d \in approvals : d.name = t /\ had[t] = ContentHash(d)

EverywhereApproved ==
    /\ Approved(pins) /\ Approved(pinFile.pins)
    /\ \A thread \in PinThreads : Approved(doing[thread].pins)

PinsInv == PinsTypeOK /\ EverywhereApproved /\ VerdictsAreEarned

LEMMA NoPinsTypes == NoPins \in Pins /\ DOMAIN NoPins = {}
<1>1. NoPins \in [{} -> Hashes]
  BY DEF NoPins
<1> QED
  BY <1>1 DEF Pins

LEMMA IdleTypes == Idle \in Doing /\ Idle.pins = NoPins
  BY NoPinsTypes DEF Idle, Doing

\* A set of pins with one more, or one less.
LEMMA PinTypes ==
    ASSUME NEW had \in Pins, NEW tool \in PinnedTools, NEW hash \in Hashes
    PROVE  /\ [t \in DOMAIN had \cup {tool} |-> IF t = tool THEN hash ELSE had[t]] \in Pins
           /\ [t \in DOMAIN had \ {tool} |-> had[t]] \in Pins
<1>1. PICK S \in SUBSET PinnedTools : had \in [S -> Hashes]
  BY DEF Pins
<1>2. [t \in DOMAIN had \cup {tool} |-> IF t = tool THEN hash ELSE had[t]]
         \in [S \cup {tool} -> Hashes]
  BY <1>1
<1>3. [t \in DOMAIN had \ {tool} |-> had[t]] \in [S \ {tool} -> Hashes]
  BY <1>1
<1>4. S \cup {tool} \in SUBSET PinnedTools /\ S \ {tool} \in SUBSET PinnedTools
  OBVIOUS
<1> QED
  BY <1>2, <1>3, <1>4 DEF Pins

LEMMA HashTypes ==
    ASSUME NEW d \in Definitions
    PROVE  ContentHash(d) \in Hashes /\ d.name \in PinnedTools
  BY DEF Hashes, Definitions

LEMMA DoingTypes ==
    ASSUME NEW what \in {"idle", "save", "write", "load", "verify"}, NEW had \in Pins,
           NEW names \in SUBSET PinnedTools
    PROVE  [step |-> what, pins |-> had, seen |-> names] \in Doing
  BY DEF Doing

LEMMA PinsStart ==
    ASSUME PinsInit
    PROVE  PinsInv
<1>1. PinsTypeOK
  <2>1. verdict.definition \in Definitions /\ verdict.status = "none"
    BY DEF PinsInit
  <2>2. [state |-> "missing", pins |-> NoPins] \in PinFiles
    BY NoPinsTypes DEF PinFiles
  <2> QED
    BY <2>1, <2>2, NoPinsTypes, IdleTypes DEF PinsInit, PinsTypeOK, PinStatuses
<1>2. EverywhereApproved
  BY NoPinsTypes, IdleTypes DEF PinsInit, EverywhereApproved, Approved
<1>3. VerdictsAreEarned
  BY DEF PinsInit, VerdictsAreEarned
<1> QED
  BY <1>1, <1>2, <1>3 DEF PinsInv

LEMMA PinsTypes ==
    ASSUME PinsTypeOK, [PinsNext]_pinning
    PROVE  PinsTypeOK'
<1> USE DEF PinsTypeOK
<1>1. ASSUME NEW thread \in PinThreads, NEW definition \in Definitions, Pin(thread, definition)
      PROVE  PinsTypeOK'
  BY <1>1, PinTypes, HashTypes DEF Pin
<1>2. ASSUME NEW thread \in PinThreads, NEW tool \in PinnedTools, Unpin(thread, tool)
      PROVE  PinsTypeOK'
  <2>1. pins' \in Pins
    <3>1. pins' = [t \in DOMAIN pins \ {tool} |-> pins[t]]
      BY <1>2 DEF Unpin
    <3>2. PICK S \in SUBSET PinnedTools : pins \in [S -> Hashes]
      BY DEF Pins
    <3>3. pins' \in [S \ {tool} -> Hashes] /\ S \ {tool} \in SUBSET PinnedTools
      BY <3>1, <3>2
    <3> QED
      BY <3>3 DEF Pins
  <2> QED
    BY <1>2, <2>1 DEF Unpin
<1>3. ASSUME NEW thread \in PinThreads, NEW definition \in Definitions,
             VerifyTool(thread, definition)
      PROVE  PinsTypeOK'
  <2>1. doing[thread] \in Doing
    OBVIOUS
  <2>2. [doing[thread] EXCEPT !.seen = @ \cup {definition.name}] \in Doing
    BY <2>1, HashTypes DEF Doing
  <2>3. Status(definition) \in PinStatuses
    BY DEF Status, PinStatuses
  <2> QED
    BY <1>3, <2>2, <2>3 DEF VerifyTool, Becomes
<1>4. ASSUME NEW thread \in PinThreads, EndVerify(thread)
      PROVE  PinsTypeOK'
  <2>1. UNCHANGED verdict
        \/ \E d \in Definitions : verdict' = [definition |-> d, status |-> "removed"]
    BY <1>4 DEF EndVerify
  <2>2. verdict'.definition \in Definitions /\ verdict'.status \in PinStatuses
    BY <2>1 DEF PinStatuses
  <2> QED
    BY <1>4, <2>2, IdleTypes DEF EndVerify, Becomes
<1>5. ASSUME NEW thread \in PinThreads,
             \/ StartVerify(thread) \/ CopyPins(thread) \/ OpenPins(thread)
             \/ WritePins(thread) \/ ReadPins(thread) \/ ReplacePins(thread)
      PROVE  PinsTypeOK'
  <2>1. doing[thread] \in Doing /\ doing[thread].pins \in Pins /\ pinFile.pins \in Pins
    BY DEF Doing, PinFiles
  <2>2. CASE StartVerify(thread)
    <3>1. [Idle EXCEPT !.step = "verify"] \in Doing
      BY IdleTypes DEF Doing
    <3> QED
      BY <2>2, <3>1 DEF StartVerify, Becomes
  <2>3. CASE CopyPins(thread)
    BY <2>3, DoingTypes DEF CopyPins, Becomes
  <2>4. CASE OpenPins(thread)
    <3>1. [doing[thread] EXCEPT !.step = "write"] \in Doing
      BY <2>1 DEF Doing
    <3>2. [state |-> "torn", pins |-> NoPins] \in PinFiles
      BY NoPinsTypes DEF PinFiles
    <3> QED
      BY <2>4, <3>1, <3>2 DEF OpenPins, Becomes
  <2>5. CASE WritePins(thread)
    <3>1. [state |-> "whole", pins |-> doing[thread].pins] \in PinFiles
      BY <2>1 DEF PinFiles
    <3> QED
      BY <2>5, <3>1, IdleTypes DEF WritePins, Becomes
  <2>6. CASE ReadPins(thread)
    BY <2>1, <2>6, DoingTypes DEF ReadPins, Becomes
  <2>7. CASE ReplacePins(thread)
    BY <2>1, <2>7, IdleTypes DEF ReplacePins, Becomes
  <2> QED
    BY <1>5, <2>2, <2>3, <2>4, <2>5, <2>6, <2>7
<1>6. CASE DieWithPins
  BY <1>6, NoPinsTypes, IdleTypes DEF DieWithPins
<1>7. CASE RestartPins
  BY <1>7 DEF RestartPins, PinFiles
<1>8. CASE DiscardPins
  BY <1>8, NoPinsTypes DEF DiscardPins, PinFiles
<1>9. CASE UNCHANGED pinning
  BY <1>9 DEF pinning
<1> QED
  BY <1>1, <1>2, <1>3, <1>4, <1>5, <1>6, <1>7, <1>8, <1>9 DEF PinsNext

\* More approvals take nothing away.
LEMMA ApprovedStays ==
    ASSUME NEW had, Approved(had), approvals \subseteq approvals'
    PROVE  Approved(had)'
  BY DEF Approved

LEMMA PinsApproved ==
    ASSUME PinsInv, [PinsNext]_pinning
    PROVE  EverywhereApproved'
<1> USE DEF PinsInv, EverywhereApproved
\* A pin brings its approval with it.
<1>1. ASSUME NEW thread \in PinThreads, NEW definition \in Definitions, Pin(thread, definition)
      PROVE  EverywhereApproved'
  <2>1. approvals' = approvals \cup {definition} /\ UNCHANGED <<pinFile, doing>>
        /\ pins' = [t \in DOMAIN pins \cup {definition.name} |->
                       IF t = definition.name THEN ContentHash(definition) ELSE pins[t]]
    BY <1>1 DEF Pin
  <2>2. Approved(pins)'
    BY <2>1 DEF Approved
  <2> QED
    BY <2>1, <2>2 DEF Approved
\* Otherwise the approvals stand, and pins move or go.
<1>2. ASSUME UNCHANGED approvals,
             \A had \in {pins', pinFile'.pins} \cup {doing'[th].pins : th \in PinThreads} :
                Approved(had)
      PROVE  EverywhereApproved'
  BY <1>2 DEF Approved
<1>3. ASSUME NEW thread \in PinThreads, NEW tool \in PinnedTools, Unpin(thread, tool)
      PROVE  EverywhereApproved'
  <2>1. Approved(pins')
    BY <1>3 DEF Unpin, Approved
  <2> QED
    BY <1>2, <1>3, <2>1 DEF Unpin
<1>4. ASSUME NEW thread \in PinThreads,
             \/ StartVerify(thread) \/ EndVerify(thread) \/ CopyPins(thread)
             \/ OpenPins(thread) \/ WritePins(thread) \/ ReadPins(thread)
             \/ ReplacePins(thread) \/ \E d \in Definitions : VerifyTool(thread, d)
      PROVE  EverywhereApproved'
  <2>1. Approved(NoPins)
    BY NoPinsTypes DEF Approved
  <2>2. doing \in [PinThreads -> Doing] /\ doing[thread] \in Doing
    BY DEF PinsTypeOK
  <2>3. \E pending \in Doing : /\ doing' = [doing EXCEPT ![thread] = pending]
                             /\ pending.pins \in {NoPins, pins, pinFile.pins, doing[thread].pins}
    <3>1. CASE \/ StartVerify(thread) \/ EndVerify(thread) \/ WritePins(thread)
               \/ ReplacePins(thread)
      <4>1. [Idle EXCEPT !.step = "verify"] \in Doing
            /\ [Idle EXCEPT !.step = "verify"].pins = NoPins
        BY IdleTypes DEF Doing
      <4> QED
        BY <3>1, <4>1, IdleTypes DEF StartVerify, EndVerify, WritePins, ReplacePins, Becomes
    <3>2. CASE CopyPins(thread) \/ ReadPins(thread)
      <4>1. pins \in Pins /\ pinFile.pins \in Pins
        BY DEF PinsTypeOK, PinFiles
      <4>2. doing' = [doing EXCEPT ![thread] = [step |-> "save", pins |-> pins, seen |-> {}]]
            \/ doing' = [doing EXCEPT ![thread] =
                           [step |-> "load", pins |-> pinFile.pins, seen |-> {}]]
        BY <3>2 DEF CopyPins, ReadPins, Becomes
      <4> QED
        BY <4>1, <4>2, DoingTypes
    <3>3. CASE OpenPins(thread)
      <4>1. [doing[thread] EXCEPT !.step = "write"] \in Doing
            /\ [doing[thread] EXCEPT !.step = "write"].pins = doing[thread].pins
        BY <2>2 DEF Doing
      <4> QED
        BY <3>3, <4>1 DEF OpenPins, Becomes
    <3>4. ASSUME NEW d \in Definitions, VerifyTool(thread, d)
          PROVE  \E pending \in Doing :
                    /\ doing' = [doing EXCEPT ![thread] = pending]
                    /\ pending.pins \in {NoPins, pins, pinFile.pins, doing[thread].pins}
      <4>1. [doing[thread] EXCEPT !.seen = @ \cup {d.name}] \in Doing
            /\ [doing[thread] EXCEPT !.seen = @ \cup {d.name}].pins = doing[thread].pins
        BY <2>2, HashTypes DEF Doing
      <4> QED
        BY <3>4, <4>1 DEF VerifyTool, Becomes
    <3> QED
      BY <1>4, <3>1, <3>2, <3>3, <3>4
  <2>4. pins' \in {pins, doing[thread].pins} /\ UNCHANGED approvals
        /\ pinFile'.pins \in {NoPins, pinFile.pins, doing[thread].pins}
    <3>1. CASE StartVerify(thread) \/ EndVerify(thread) \/ \E d \in Definitions : VerifyTool(thread, d)
      BY <3>1 DEF StartVerify, EndVerify, VerifyTool
    <3>2. CASE CopyPins(thread) \/ OpenPins(thread) \/ WritePins(thread)
      BY <3>2 DEF CopyPins, OpenPins, WritePins
    <3>3. CASE ReadPins(thread) \/ ReplacePins(thread)
      BY <3>3 DEF ReadPins, ReplacePins
    <3> QED
      BY <1>4, <3>1, <3>2, <3>3
  <2>5. ASSUME NEW th \in PinThreads
        PROVE  Approved(doing'[th].pins)
    <3>1. CASE th = thread
      BY <2>1, <2>2, <2>3, <3>1
    <3>2. CASE th # thread
      BY <2>2, <2>3, <3>2
    <3> QED
      BY <3>1, <3>2
  <2>6. Approved(pins') /\ Approved(pinFile'.pins)
    BY <2>1, <2>4
  <2> QED
    BY <1>2, <2>4, <2>5, <2>6
<1>5. CASE DieWithPins \/ RestartPins \/ DiscardPins
  <2>1. Approved(NoPins)
    BY NoPinsTypes DEF Approved
  <2> QED
    BY <1>2, <1>5, <2>1, IdleTypes DEF DieWithPins, RestartPins, DiscardPins
<1>6. CASE UNCHANGED pinning
  BY <1>2, <1>6 DEF pinning
<1> QED
  BY <1>1, <1>3, <1>4, <1>5, <1>6 DEF PinsNext

\* The three kinds of verdict that claim something.
LEMMA EarnedCases ==
    ASSUME verdict.status = "verified" => verdict.definition \in approvals,
           verdict.status = "modified" =>
              \E a \in approvals : a.name = verdict.definition.name /\ a # verdict.definition,
           verdict.status = "removed" =>
              \E a \in approvals : a.name = verdict.definition.name
    PROVE  VerdictsAreEarned
  BY DEF VerdictsAreEarned

\* A verdict is given from the pins that are held, and every one of them was approved.
LEMMA VerdictsStay ==
    ASSUME PinsInv, [PinsNext]_pinning
    PROVE  VerdictsAreEarned'
<1> USE DEF PinsInv
<1>1. CASE UNCHANGED <<verdict, approvals>>
  BY <1>1 DEF VerdictsAreEarned
<1>2. ASSUME NEW thread \in PinThreads, NEW d \in Definitions, Pin(thread, d)
      PROVE  VerdictsAreEarned'
  BY <1>2 DEF Pin, VerdictsAreEarned
<1>3. ASSUME NEW thread \in PinThreads, NEW d \in Definitions, VerifyTool(thread, d)
      PROVE  VerdictsAreEarned'
  <2>1. verdict' = [definition |-> d, status |-> Status(d)] /\ approvals' = approvals
    BY <1>3 DEF VerifyTool
  <2>2. CASE d.name \notin DOMAIN pins
    <3>1. Status(d) = "new"
      BY <2>2 DEF Status
    <3>2. verdict'.status = "new"
      BY <2>1, <3>1
    <3> QED
      BY <3>2 DEF VerdictsAreEarned
  <2>3. CASE d.name \in DOMAIN pins
    <3>1. PICK a \in approvals : a.name = d.name /\ pins[d.name] = a
      BY <2>3 DEF EverywhereApproved, Approved, ContentHash
    <3>2. Status(d) = IF a = d THEN "verified" ELSE "modified"
      BY <2>3, <3>1 DEF Status, ContentHash
    <3> QED
      BY <2>1, <3>1, <3>2 DEF VerdictsAreEarned
  <2> QED
    BY <2>2, <2>3
<1>4. ASSUME NEW thread \in PinThreads, EndVerify(thread)
      PROVE  VerdictsAreEarned'
  <2>1. CASE UNCHANGED verdict
    BY <1>1, <1>4, <2>1 DEF EndVerify
  <2>2. ASSUME NEW d \in Definitions, d.name \in DOMAIN pins,
               verdict' = [definition |-> d, status |-> "removed"]
        PROVE  VerdictsAreEarned'
    <3>1. PICK a \in approvals : a.name = d.name
      BY <2>2 DEF EverywhereApproved, Approved
    <3>2. approvals' = approvals
      BY <1>4 DEF EndVerify
    <3> QED
      BY <2>2, <3>1, <3>2 DEF VerdictsAreEarned
  <2> QED
    BY <1>4, <2>1, <2>2 DEF EndVerify
<1> QED
  BY <1>1, <1>2, <1>3, <1>4
     DEF PinsNext, Unpin, StartVerify, CopyPins, OpenPins, WritePins, ReadPins, ReplacePins,
         DieWithPins, RestartPins, DiscardPins, pinning

\* hash_pin.py: pins, files and threads' copies are well-typed.
LEMMA PinsHold == PinsSpec => []PinsInv
<1>1. PinsInit => PinsInv
  BY PinsStart
<1>2. PinsInv /\ [PinsNext]_pinning => PinsInv'
  BY PinsTypes, PinsApproved, VerdictsStay DEF PinsInv
<1> QED
  BY <1>1, <1>2, PTL DEF PinsSpec

\* hash_pin.py: across threads, saves of old copies, loads and restarts, a verdict rests
\* on a definition that was pinned, for any tools and definitions.
THEOREM VerdictsRestOnApprovals == PinsSpec => []VerdictsAreEarned
<1>1. PinsInv => VerdictsAreEarned
  BY DEF PinsInv
<1> QED
  BY <1>1, PinsHold, PTL

----------------------------------------------------------------------------
(* McpScan.                                                                *)

\* What a report showed, or a scan saved whose report is to come or is lost: scan s
\* itself aside.
KnownBut(s) == shown \cup lost \cup SavedBy(Scanners \ {s})
Known == shown \cup lost \cup SavedBy(Scanners)

\* What scan s has found unchanged.
Quiet(s) == {p \in Pairs(scans[s].tools) : p[1] \in scans[s].known \ scans[s].alerts}

Compared(s) == scans[s].step \in {"compared", "opened", "saved"}

\* The file holds what is known; what a scan found unchanged others knew.
QuietIsKnown ==
    /\ Pairs(snapshots.tools) \subseteq Known
    /\ \A s \in Scanners : Compared(s) => Quiet(s) \subseteq KnownBut(s)
    /\ missed = {}

LEMMA SavedPairs ==
    ASSUME NEW others
    PROVE  \A p : p \in SavedBy(others) <=>
                  \E o \in others : scans[o].step = "saved" /\ p \in Pairs(scans[o].tools)
  BY DEF SavedBy

LEMMA NoPairs == Pairs(NoTools) = {}
  BY DEF Pairs, NoTools

LEMMA ScanStarts ==
    ASSUME ScanInit
    PROVE  QuietIsKnown
<1>1. \A s \in Scanners : scans[s].step = "idle"
  BY DEF ScanInit, NoScan
<1> QED
  BY <1>1, NoPairs DEF ScanInit, QuietIsKnown, Compared

\* The types that the argument needs.
Typed == server \in ToolLists /\ scans \in [Scanners -> Scans]

LEMMA NoScanTypes == NoTools \in ToolLists /\ NoScan \in Scans
<1>1. NoTools \in [{} -> Versions]
  BY DEF NoTools
<1> QED
  BY <1>1 DEF NoScan, Scans, ToolLists

LEMMA TypedFirst ==
    ASSUME ScanInit
    PROVE  Typed
<1>1. server \in ToolLists
  BY DEF ScanInit, ToolLists
<1> QED
  BY <1>1, NoScanTypes DEF ScanInit, Typed

LEMMA ServerTypes ==
    ASSUME Typed, [ScanNext]_scanning
    PROVE  server' \in ToolLists
<1>1. PICK S \in SUBSET Offered : server \in [S -> Versions]
  BY DEF Typed, ToolLists
<1>2. ASSUME NEW tool \in Offered, NEW version \in Versions, Offer(tool, version)
      PROVE  server' \in ToolLists
  <2>1. server' \in [S \cup {tool} -> Versions] /\ S \cup {tool} \in SUBSET Offered
    BY <1>1, <1>2 DEF Offer
  <2> QED
    BY <2>1 DEF ToolLists
<1>3. ASSUME NEW tool \in Offered, Withdraw(tool)
      PROVE  server' \in ToolLists
  <2>1. server' \in [S \ {tool} -> Versions] /\ S \ {tool} \in SUBSET Offered
    BY <1>1, <1>3 DEF Withdraw
  <2> QED
    BY <2>1 DEF ToolLists
<1>4. CASE UNCHANGED server
  BY <1>4 DEF Typed
<1> QED
  BY <1>2, <1>3, <1>4
     DEF ScanNext, ListTools, Compare, OpenSnapshots, SaveSnapshots, Give, DieScanning,
         DiscardSnapshots, scanning

LEMMA ScanTypes ==
    ASSUME Typed, [ScanNext]_scanning
    PROVE  scans' \in [Scanners -> Scans]
<1> USE DEF Typed
<1>1. NoScan \in Scans
  BY NoScanTypes
<1>2. ASSUME NEW s \in Scanners, ListTools(s)
      PROVE  scans' \in [Scanners -> Scans]
  BY <1>2 DEF ListTools, Scans
<1>3. ASSUME NEW s \in Scanners, Compare(s)
      PROVE  scans' \in [Scanners -> Scans]
  <2>1. scans[s] \in Scans
    OBVIOUS
  <2>2. PICK S \in SUBSET Offered : scans[s].tools \in [S -> Versions]
    BY <2>1 DEF Scans, ToolLists
  <2>3. DOMAIN scans[s].tools \cap DOMAIN snapshots.tools \in SUBSET Offered
        /\ Changed(scans[s].tools) \in SUBSET Offered
    BY <2>2 DEF Changed
  <2>4. [scans[s] EXCEPT !.step = "compared",
                         !.known = DOMAIN scans[s].tools \cap DOMAIN snapshots.tools,
                         !.alerts = Changed(scans[s].tools)] \in Scans
    BY <2>1, <2>3 DEF Scans
  <2> QED
    BY <1>1, <1>3, <2>4 DEF Compare
<1>4. ASSUME NEW s \in Scanners, OpenSnapshots(s) \/ SaveSnapshots(s)
      PROVE  scans' \in [Scanners -> Scans]
  <2>1. [scans[s] EXCEPT !.step = "opened"] \in Scans /\ [scans[s] EXCEPT !.step = "saved"] \in Scans
    BY DEF Scans
  <2> QED
    BY <1>4, <2>1 DEF OpenSnapshots, SaveSnapshots
<1>5. ASSUME NEW s \in Scanners, Give(s) \/ DieScanning(s)
      PROVE  scans' \in [Scanners -> Scans]
  BY <1>1, <1>5 DEF Give, DieScanning
<1>6. CASE UNCHANGED scans
  BY <1>6
<1> QED
  BY <1>2, <1>3, <1>4, <1>5, <1>6
     DEF ScanNext, Offer, Withdraw, DiscardSnapshots, scanning

\* Of what was known, nothing is forgotten while every saved scan stays or ends in a
\* report or in a loss.
LEMMA KnownGrows ==
    ASSUME shown \subseteq shown', lost \subseteq lost',
           \A o \in Scanners : scans[o].step = "saved" =>
              \/ scans'[o].step = "saved" /\ scans'[o].tools = scans[o].tools
              \/ Pairs(scans[o].tools) \subseteq shown' \cup lost'
    PROVE  Known \subseteq Known' /\ \A s \in Scanners : KnownBut(s) \subseteq KnownBut(s)'
<1>1. ASSUME NEW others \in SUBSET Scanners
      PROVE  shown \cup lost \cup SavedBy(others)
                \subseteq shown' \cup lost' \cup SavedBy(others)'
  <2> SUFFICES ASSUME NEW o \in others, scans[o].step = "saved", NEW p \in Pairs(scans[o].tools)
               PROVE  p \in shown' \cup lost' \cup SavedBy(others)'
    BY SavedPairs
  <2>1. CASE scans'[o].step = "saved" /\ scans'[o].tools = scans[o].tools
    BY <2>1 DEF SavedBy
  <2> QED
    BY <2>1
<1> QED
  BY <1>1 DEF Known, KnownBut

\* A step of one scan: those that compared keep what they found, if it forgets nothing
\* and its own finding and the file hold what is known.
LEMMA QuietStays ==
    ASSUME QuietIsKnown, Typed, NEW s \in Scanners, NEW scan,
           scans' = [scans EXCEPT ![s] = scan],
           shown \subseteq shown', lost \subseteq lost', missed' = missed,
           scans[s].step = "saved" => Pairs(scans[s].tools) \subseteq shown' \cup lost',
           Known \subseteq Known' => Pairs(snapshots'.tools) \subseteq Known',
           Compared(s)' => Quiet(s)' \subseteq KnownBut(s)
    PROVE  QuietIsKnown'
<1>1. \A o \in Scanners \ {s} : scans'[o] = scans[o]
  BY DEF Typed
<1>2. Known \subseteq Known' /\ \A o \in Scanners : KnownBut(o) \subseteq KnownBut(o)'
  BY <1>1, KnownGrows
<1>3. ASSUME NEW o \in Scanners, Compared(o)'
      PROVE  Quiet(o)' \subseteq KnownBut(o)'
  <2>1. CASE o = s
    BY <1>2, <1>3, <2>1
  <2>2. CASE o # s
    <3>1. Compared(o) /\ Quiet(o)' = Quiet(o)
      BY <1>1, <1>3, <2>2 DEF Compared, Quiet
    <3> QED
      BY <1>2, <3>1 DEF QuietIsKnown
  <2> QED
    BY <2>1, <2>2
<1> QED
  BY <1>2, <1>3 DEF QuietIsKnown

\* A comparison finds unchanged only what the file holds.
LEMMA CompareIsKnown ==
    ASSUME QuietIsKnown, Typed, NEW s \in Scanners, Compare(s), snapshots.state # "torn"
    PROVE  Quiet(s)' \subseteq KnownBut(s)
<1>1. scans'[s].tools = scans[s].tools
      /\ scans'[s].known = DOMAIN scans[s].tools \cap DOMAIN snapshots.tools
      /\ scans'[s].alerts = Changed(scans[s].tools)
  BY DEF Compare, Typed, Scans
<1>2. Quiet(s)' \subseteq Pairs(snapshots.tools)
  <2> SUFFICES ASSUME NEW t \in DOMAIN scans[s].tools \cap DOMAIN snapshots.tools,
                      t \notin Changed(scans[s].tools)
               PROVE  <<t, scans[s].tools[t]>> \in Pairs(snapshots.tools)
    BY <1>1 DEF Quiet, Pairs
  <2>1. snapshots.tools[t] = scans[s].tools[t]
    BY DEF Changed, Differs
  <2> QED
    BY <2>1 DEF Pairs
<1>3. Known \subseteq KnownBut(s)
  <2>1. scans[s].step = "listed"
    BY DEF Compare
  <2> QED
    BY <2>1, SavedPairs DEF Known, KnownBut
<1> QED
  BY <1>2, <1>3 DEF QuietIsKnown

LEMMA QuietStep ==
    ASSUME QuietIsKnown, Typed, [ScanNext]_scanning
    PROVE  QuietIsKnown'
<1>1. ASSUME UNCHANGED <<scans, snapshots, shown, lost, missed>>
      PROVE  QuietIsKnown'
  BY <1>1 DEF QuietIsKnown, Known, KnownBut, SavedBy, Quiet, Compared
<1>2. ASSUME NEW s \in Scanners, NEW scan, scans' = [scans EXCEPT ![s] = scan]
      PROVE  scans'[s] = scan
  BY <1>2 DEF Typed
<1>3. ASSUME NEW s \in Scanners, ListTools(s)
      PROVE  QuietIsKnown'
  <2>1. /\ scans' = [scans EXCEPT ![s] = [scans[s] EXCEPT !.step = "listed", !.tools = server]]
        /\ scans[s].step = "idle" /\ UNCHANGED <<snapshots, shown, lost, missed>>
    BY <1>3 DEF ListTools, Typed, Scans
  <2>2. scans'[s].step = "listed"
    BY <2>1 DEF Typed, Scans
  <2>3. ~Compared(s)'
    BY <2>2 DEF Compared
  <2> QED
    BY <2>1, <2>3, QuietStays DEF QuietIsKnown
<1>4. ASSUME NEW s \in Scanners, Compare(s)
      PROVE  QuietIsKnown'
  <2>1. PICK scan : scans' = [scans EXCEPT ![s] = scan]
    BY <1>4 DEF Compare
  <2>2. scans[s].step = "listed" /\ UNCHANGED <<snapshots, shown, lost, missed>>
    BY <1>4 DEF Compare
  <2>3. Compared(s)' => Quiet(s)' \subseteq KnownBut(s)
    <3>1. CASE snapshots.state = "torn"
      <4>1. scans'[s] = NoScan
        BY <1>4, <3>1 DEF Compare, Typed
      <4>2. ~Compared(s)'
        BY <4>1 DEF Compared, NoScan
      <4> QED
        BY <4>2
    <3>2. CASE snapshots.state # "torn"
      BY <1>4, <3>2, CompareIsKnown
    <3> QED
      BY <3>1, <3>2
  <2> QED
    BY <2>1, <2>2, <2>3, QuietStays DEF QuietIsKnown
<1>5. ASSUME NEW s \in Scanners, OpenSnapshots(s) \/ SaveSnapshots(s)
      PROVE  QuietIsKnown'
  <2>1. PICK what \in {"opened", "saved"} :
           scans' = [scans EXCEPT ![s] = [scans[s] EXCEPT !.step = what]]
    BY <1>5 DEF OpenSnapshots, SaveSnapshots
  <2>2. scans[s].step \in {"compared", "opened"} /\ UNCHANGED <<shown, lost, missed>>
    BY <1>5 DEF OpenSnapshots, SaveSnapshots
  <2>3. /\ scans'[s].tools = scans[s].tools /\ scans'[s].known = scans[s].known
        /\ scans'[s].alerts = scans[s].alerts
    BY <2>1 DEF Typed, Scans
  <2>4. Quiet(s)' \subseteq KnownBut(s)
    BY <2>2, <2>3 DEF Quiet, QuietIsKnown, Compared
  <2>5. Pairs(snapshots'.tools) \subseteq Known'
    <3>1. CASE OpenSnapshots(s)
      BY <3>1, NoPairs DEF OpenSnapshots
    <3>2. CASE SaveSnapshots(s)
      <4>1. snapshots'.tools = scans'[s].tools /\ scans'[s].step = "saved"
        BY <2>3, <3>2 DEF SaveSnapshots, Typed, Scans
      <4> QED
        BY <4>1 DEF Known, SavedBy
    <3> QED
      BY <1>5, <3>1, <3>2
  <2> QED
    BY <2>1, <2>2, <2>4, <2>5, QuietStays
\* The report, or the loss, of a scan makes known what it saved.
<1>6. ASSUME NEW s \in Scanners, Give(s) \/ DieScanning(s)
      PROVE  QuietIsKnown'
  <2>1. scans' = [scans EXCEPT ![s] = NoScan] /\ UNCHANGED snapshots
        /\ shown \subseteq shown' /\ lost \subseteq lost'
        /\ (scans[s].step = "saved" => Pairs(scans[s].tools) \subseteq shown' \cup lost')
    BY <1>6 DEF Give, DieScanning
  <2>2. missed' = missed
    <3>1. CASE Give(s)
      <4>1. Quiet(s) \subseteq KnownBut(s)
        BY <3>1 DEF Give, QuietIsKnown, Compared
      <4>2. missed' = missed \cup (Quiet(s) \ KnownBut(s))
        BY <3>1 DEF Give, Quiet, KnownBut
      <4> QED
        BY <4>1, <4>2
    <3>2. CASE DieScanning(s)
      BY <3>2 DEF DieScanning
    <3> QED
      BY <1>6, <3>1, <3>2
  <2>3. scans'[s].step = "idle"
    <3>1. scans'[s] = NoScan
      BY <1>2, <2>1
    <3> QED
      BY <3>1 DEF NoScan
  <2>4. ~Compared(s)'
    BY <2>3 DEF Compared
  <2> QED
    BY <2>1, <2>2, <2>4, QuietStays DEF QuietIsKnown
<1>7. CASE DiscardSnapshots
  <2>1. UNCHANGED <<scans, shown, lost, missed>> /\ Pairs(snapshots'.tools) = {}
    BY <1>7, NoPairs DEF DiscardSnapshots
  <2> QED
    BY <2>1 DEF QuietIsKnown, Known, KnownBut, SavedBy, Quiet, Compared
<1> QED
  BY <1>1, <1>3, <1>4, <1>5, <1>6, <1>7 DEF ScanNext, Offer, Withdraw, scanning

\* mcp_scanner.py: with scans that overlap or die, a tool compared to the file is
\* reported without an alert only in a version that was shown, or saved by a scan whose
\* report is to come or is lost, for any tools and versions.
THEOREM NoSilentChange == ScanSpec => []ChangesAreReported
<1> DEFINE Inv == Typed /\ QuietIsKnown
<1>1. ScanInit => Inv
  BY TypedFirst, ScanStarts
<1>2. Inv /\ [ScanNext]_scanning => Inv'
  BY ServerTypes, ScanTypes, QuietStep DEF Typed
<1>3. Inv => ChangesAreReported
  BY DEF QuietIsKnown, ChangesAreReported
<1> QED
  BY <1>1, <1>2, <1>3, PTL DEF ScanSpec

\* The types of a scan.

LEMMA PairsTypes ==
    ASSUME NEW list \in ToolLists
    PROVE  Pairs(list) \subseteq Offered \X Versions
  BY DEF Pairs, ToolLists

LEMMA ScanTypedFirst ==
    ASSUME ScanInit
    PROVE  ScanTypeOK
  BY TypedFirst, NoScanTypes DEF ScanInit, Typed, ScanTypeOK, SnapshotFiles, Reports, TrustLevels

LEMMA ScanTyped ==
    ASSUME ScanTypeOK, [ScanNext]_scanning
    PROVE  ScanTypeOK'
<1> USE DEF ScanTypeOK
<1>1. Typed /\ Typed'
  BY ServerTypes, ScanTypes DEF Typed
<1>2. ASSUME NEW s \in Scanners
      PROVE  /\ scans[s].tools \in ToolLists /\ scans[s].alerts \in SUBSET Offered
             /\ Pairs(scans[s].tools) \subseteq Offered \X Versions
  BY PairsTypes DEF Scans
<1>3. ASSUME UNCHANGED <<snapshots, report, shown, lost, missed>>
      PROVE  ScanTypeOK'
  BY <1>1, <1>3 DEF Typed
<1>4. ASSUME NEW s \in Scanners, OpenSnapshots(s) \/ SaveSnapshots(s)
      PROVE  ScanTypeOK'
  <2>1. snapshots' \in SnapshotFiles
    BY <1>2, <1>4, NoScanTypes DEF OpenSnapshots, SaveSnapshots, SnapshotFiles
  <2> QED
    BY <1>1, <1>4, <2>1 DEF OpenSnapshots, SaveSnapshots, Typed
<1>5. ASSUME NEW s \in Scanners, Give(s)
      PROVE  ScanTypeOK'
  <2>1. TrustLevel(TrustScore(scans[s].tools)) \in TrustLevels
    BY DEF TrustLevel, TrustLevels
  <2>2. report' \in Reports
    BY <1>2, <1>5, <2>1 DEF Give, Reports
  <2>3. shown' \subseteq Offered \X Versions /\ missed' \subseteq Offered \X Versions
    BY <1>2, <1>5 DEF Give
  <2> QED
    BY <1>1, <1>5, <2>2, <2>3 DEF Give, Typed
<1>6. ASSUME NEW s \in Scanners, DieScanning(s)
      PROVE  ScanTypeOK'
  BY <1>1, <1>2, <1>6 DEF DieScanning, Typed
<1>7. CASE DiscardSnapshots
  BY <1>1, <1>7, NoScanTypes DEF DiscardSnapshots, SnapshotFiles, Typed
<1> QED
  BY <1>3, <1>4, <1>5, <1>6, <1>7
     DEF ScanNext, Offer, Withdraw, ListTools, Compare, scanning

LEMMA ScansHold == ScanSpec => []ScanTypeOK
<1>1. ScanTypeOK /\ [ScanNext]_scanning => ScanTypeOK'
  BY ScanTyped
<1> QED
  BY ScanTypedFirst, <1>1, PTL DEF ScanSpec

----------------------------------------------------------------------------
(* The hook.                                                               *)

\* What the claims rest on in default_policy: the named rules come first, then two that no
\* tool of a scanned input meets, and the critical threshold before the medium one.
LEMMA PolicyPlaces ==
    /\ Len(default_policy) = 16 /\ DOMAIN default_policy = 1..16
    /\ \A i \in 1..12 : default_policy[i].named /\ default_policy[i].above = 0
    /\ default_policy[13].actions = {"agent:spawn"}
    /\ default_policy[14].actions = {"llm:prompt"}
    /\ \A i \in 13..16 : ~default_policy[i].named
    /\ default_policy[15] = Threshold("risk_threshold_critical", "deny", 80)
    /\ \A i \in 1..16 : default_policy[i].decision \in Decisions
    /\ \A i \in 1..16 : \A j \in 1..16 : default_policy[i].id = default_policy[j].id => i = j
<1>1. PICK rules, last :
         /\ rules = default_rules
         /\ last = <<Threshold("risk_threshold_critical", "deny", 80),
                    Threshold("risk_threshold_medium", "review", 40)>>
  OBVIOUS
<1>2. Len(rules) = 14 /\ Len(last) = 2 /\ DOMAIN rules = 1..14 /\ DOMAIN last = 1..2
  BY <1>1 DEF default_rules
<1>3. PICK S : S = {rules[i] : i \in 1..14} \cup {last[i] : i \in 1..2}
  OBVIOUS
<1>4. rules \in Seq(S) /\ last \in Seq(S)
  <2>1. \A i \in 1..14 : rules[i] \in S
    BY <1>3
  <2>2. \A i \in 1..2 : last[i] \in S
    BY <1>3
  <2>3. rules = [i \in 1..14 |-> rules[i]] /\ last = [i \in 1..2 |-> last[i]]
    BY <1>1 DEF default_rules
  <2> QED
    BY <2>1, <2>2, <2>3, IsASeq
<1>5. default_policy = rules \o last
  BY <1>1 DEF default_policy
<1>6. /\ Len(default_policy) = 16 /\ default_policy \in Seq(S)
      /\ \A i \in 1..16 : default_policy[i] = IF i <= 14 THEN rules[i] ELSE last[i - 14]
  <2>1. /\ default_policy \in Seq(S) /\ Len(default_policy) = Len(rules) + Len(last)
        /\ \A i \in 1..(Len(rules) + Len(last)) :
              default_policy[i] = IF i <= Len(rules) THEN rules[i] ELSE last[i - Len(rules)]
    BY <1>4, <1>5, ConcatProperties
  <2> QED
    BY <1>2, <2>1
<1>7. DOMAIN default_policy = 1..16
  BY <1>6
<1>8. /\ \A i \in 1..14 : default_policy[i] = rules[i]
      /\ default_policy[15] = last[1] /\ default_policy[16] = last[2]
  BY <1>6
<1>9. /\ \A i \in 1..12 : rules[i].named /\ rules[i].above = 0
      /\ rules[13].actions = {"agent:spawn"} /\ rules[14].actions = {"llm:prompt"}
      /\ ~rules[13].named /\ ~rules[14].named
      /\ \A i \in 1..14 : rules[i].decision \in Decisions
  BY <1>1 DEF default_rules, Rule, Shell, File, Decisions
<1>10. /\ last[1] = Threshold("risk_threshold_critical", "deny", 80)
       /\ ~last[1].named /\ ~last[2].named
       /\ last[1].decision \in Decisions /\ last[2].decision \in Decisions
  BY <1>1 DEF Threshold, Rule, Decisions
<1>11. \A i \in 1..12 : i \in 1..14
  OBVIOUS
<1>12. \A i \in 13..16 : i = 13 \/ i = 14 \/ i = 15 \/ i = 16
  OBVIOUS
<1>13. \A i \in 1..16 : i \in 1..14 \/ i = 15 \/ i = 16
  OBVIOUS
<1>14. /\ \A i \in 1..12 : default_policy[i].named /\ default_policy[i].above = 0
       /\ default_policy[13].actions = {"agent:spawn"}
       /\ default_policy[14].actions = {"llm:prompt"}
  BY <1>8, <1>9, <1>11
<1>15. \A i \in 13..16 : ~default_policy[i].named
  BY <1>8, <1>9, <1>10, <1>12
<1>16. \A i \in 1..16 : default_policy[i].decision \in Decisions
  BY <1>8, <1>9, <1>10, <1>13
<1>17. PICK place : place =
          [dangerous_commands |-> 1, dangerous_format |-> 2, dangerous_dd |-> 3,
           sudo_commands |-> 4, env_file_protection |-> 5, secrets_dir_protection |-> 6,
           ssh_key_protection |-> 7, credentials_protection |-> 8, pipe_to_shell |-> 9,
           pipe_to_sh |-> 10, git_force_push |-> 11, git_push_review |-> 12,
           agent_spawn_review |-> 13, llm_prompt_scan |-> 14,
           risk_threshold_critical |-> 15, risk_threshold_medium |-> 16]
  OBVIOUS
<1>18. \A i \in 1..14 : place[rules[i].id] = i
  BY <1>1, <1>17 DEF default_rules, Rule, Shell, File
<1>19. place[last[1].id] = 15 /\ place[last[2].id] = 16
  BY <1>1, <1>17 DEF Threshold, Rule
<1>20. \A i \in 1..16 : place[default_policy[i].id] = i
  BY <1>8, <1>13, <1>18, <1>19
<1>21. \A i \in 1..16 : \A j \in 1..16 : default_policy[i].id = default_policy[j].id => i = j
  BY <1>20
<1> QED
  BY <1>6, <1>7, <1>8, <1>10, <1>14, <1>15, <1>16, <1>21

\* The first of some rules, in their order.
LEMMA FirstRule ==
    ASSUME NEW S \in SUBSET (1..16), S # {}
    PROVE  Sets!Min(S) \in S /\ \A i \in S : Sets!Min(S) <= i
<1>1. S \subseteq Nat
  OBVIOUS
<1>2. PICK n \in S : \A m \in S : n <= m
  BY <1>1, LeastNumber
<1> QED
  BY <1>2 DEF Sets!Min

LEMMA EvaluateTypes ==
    ASSUME NEW c, NEW rules \in SUBSET (1..16), NEW default \in Decisions
    PROVE  Evaluate(c, rules, default) \in Decisions
<1>1. PICK S \in SUBSET (1..16) : S = {i \in rules : Applies(default_policy[i], c)}
  OBVIOUS
<1>2. S # {} => Sets!Min(S) \in 1..16
  BY FirstRule
<1> QED
  BY <1>1, <1>2, PolicyPlaces DEF Evaluate

\* A scanned tool's call alone has a score; what was judged by a file that nobody was
\* writing has that file's answer, and what was denied does not run.
HookInv ==
    /\ HookTypeOK
    /\ toolCall.risk # 0 => toolCall.tool \in Scannable
    /\ hookStep \in {"judged", "ran"} /\ judgedBy.state # "torn" =>
          answer = Evaluate(toolCall, judgedBy.rules, judgedBy.default)
    /\ hookStep = "ran" => answer # "deny"

LEMMA HookFirst ==
    ASSUME HookInit
    PROVE  HookInv
<1>1. NoCall \in ToolCalls /\ NoCall.hits \subseteq NamedFor(NoCall.tool)
  BY DEF NoCall, ToolCalls, AgentTools, TOOL_ACTION_MAP
<1>2. NoPolicyFile \in PolicyFiles /\ "allow" \in Decisions /\ 0 \in 0..MaxRewrites
  BY HookAssumption DEF NoPolicyFile, PolicyFiles, Decisions
<1> QED
  BY <1>1, <1>2 DEF HookInit, HookInv, HookTypeOK, NoCall

LEMMA FileSteps ==
    ASSUME HookInv, \/ ResetPolicy \/ DenyByDefault \/ WritePolicy
                    \/ \E id \in PolicyRuleIds : Edit(id)
    PROVE  HookInv'
<1> USE DEF HookInv, HookTypeOK
<1>1. \A rules, default : OpenPolicy(rules, default) /\ rules \in SUBSET DOMAIN default_policy
                            /\ default \in Decisions => HookInv'
  BY HookAssumption DEF OpenPolicy, PolicyFiles
<1>2. CASE WritePolicy
  BY <1>2 DEF WritePolicy, PolicyFiles
<1>3. "allow" \in Decisions /\ "deny" \in Decisions
      /\ policyFile.rules \in SUBSET DOMAIN default_policy
  BY DEF Decisions, PolicyFiles
<1>4. CASE ResetPolicy
  BY <1>1, <1>3, <1>4 DEF ResetPolicy
<1>5. CASE DenyByDefault
  BY <1>1, <1>3, <1>5 DEF DenyByDefault
<1>6. ASSUME NEW id \in PolicyRuleIds, Edit(id)
      PROVE  HookInv'
  BY <1>1, <1>3, <1>6 DEF Edit
<1> QED
  BY <1>2, <1>4, <1>5, <1>6

LEMMA HookSteps ==
    ASSUME HookInv,
           \/ \E tool \in AgentTools : \E hits \in SUBSET NamedFor(tool) : Ask(tool, hits)
           \/ \E risk \in HookScores : Scan(risk)
           \/ ScanFails \/ NothingToScan \/ HookTimesOut \/ Judge \/ Exit \/ NextHook
    PROVE  HookInv'
<1> USE DEF HookInv, HookTypeOK
<1>1. ASSUME NEW tool \in AgentTools, NEW hits \in SUBSET NamedFor(tool), Ask(tool, hits)
      PROVE  HookInv'
  <2>1. hits \in SUBSET PolicyRuleIds
    BY DEF NamedFor, PolicyRuleIds
  <2>2. toolCall' \in ToolCalls /\ toolCall'.tool = tool /\ toolCall'.hits = hits /\ toolCall'.risk = 0
    BY <1>1, <2>1 DEF Ask, ToolCalls
  <2> QED
    BY <1>1, <2>2 DEF Ask
<1>2. ASSUME NEW risk \in HookScores, Scan(risk)
      PROVE  HookInv'
  <2>1. toolCall' \in ToolCalls /\ toolCall'.tool = toolCall.tool /\ toolCall'.hits = toolCall.hits
    BY <1>2 DEF Scan, ToolCalls
  <2> QED
    BY <1>2, <2>1 DEF Scan
<1>3. CASE ScanFails \/ NothingToScan \/ HookTimesOut
  BY <1>3 DEF ScanFails, NothingToScan, HookTimesOut
<1>4. CASE Judge
  <2>1. UNCHANGED <<policyFile, rewrites, toolCall>> /\ judgedBy' = policyFile /\ hookStep' = "judged"
        /\ policyFile.default \in Decisions /\ policyFile.rules \in SUBSET (1..16)
    BY <1>4, PolicyPlaces DEF Judge, PolicyFiles
  <2>2. CASE policyFile.state = "torn"
    <3>1. PICK k \in 0..Len(default_policy), default \in {"allow", policyFile.default} :
             answer' \in {"deny", Evaluate(toolCall, {i \in policyFile.rules : i <= k}, default)}
      BY <1>4, <2>2 DEF Judge
    <3>2. {i \in policyFile.rules : i <= k} \in SUBSET (1..16) /\ default \in Decisions
          /\ "deny" \in Decisions
      BY <2>1 DEF Decisions
    <3>3. answer' \in Decisions
      BY <3>1, <3>2, EvaluateTypes
    <3> QED
      BY <2>1, <2>2, <3>3
  <2>3. CASE policyFile.state # "torn"
    <3>1. answer' = Evaluate(toolCall, policyFile.rules, policyFile.default)
      BY <1>4, <2>3 DEF Judge
    <3>2. answer' \in Decisions
      BY <2>1, <3>1, EvaluateTypes
    <3> QED
      BY <2>1, <3>1, <3>2 DEF Evaluate
  <2> QED
    BY <2>2, <2>3
<1>5. CASE Exit
  BY <1>5 DEF Exit, Evaluate
<1>6. CASE NextHook
  <2>1. NoCall \in ToolCalls /\ NoCall.hits = {} /\ NoCall.risk = 0
    BY DEF NoCall, ToolCalls, AgentTools, TOOL_ACTION_MAP
  <2>2. NoPolicyFile \in PolicyFiles /\ "allow" \in Decisions
    BY DEF NoPolicyFile, PolicyFiles, Decisions
  <2> QED
    BY <1>6, <2>1, <2>2 DEF NextHook
<1> QED
  BY <1>1, <1>2, <1>3, <1>4, <1>5, <1>6

LEMMA HookStep ==
    ASSUME HookInv, [HookNext]_hooking
    PROVE  HookInv'
<1>1. CASE UNCHANGED hooking
  BY <1>1 DEF hooking, HookInv, HookTypeOK, Evaluate
<1> QED
  BY <1>1, FileSteps, HookSteps DEF HookNext

\* The first rule that applies to a call at 80 or more is a named one or the critical
\* threshold; the first that applies to a call that a named rule names is named.
LEMMA StoppedCalls ==
    ASSUME HookInv
    PROVE  CriticalIsStopped
<1> SUFFICES ASSUME hookStep = "ran", judgedBy.state # "torn"
             PROVE  LET has == {default_policy[i].id : i \in judgedBy.rules}
                        named == {i \in judgedBy.rules : default_policy[i].id \in toolCall.hits}
                    IN /\ toolCall.risk >= 80 /\ "risk_threshold_critical" \in has => named # {}
                       /\ named # {} => \E i \in named : default_policy[i].decision # "deny"
  BY DEF CriticalIsStopped
<1>1. judgedBy.rules \in SUBSET (1..16)
  BY PolicyPlaces DEF HookInv, HookTypeOK, PolicyFiles
<1>2. toolCall.tool \in AgentTools /\ toolCall.hits \subseteq NamedFor(toolCall.tool)
  BY DEF HookInv, HookTypeOK, ToolCalls
<1>3. toolCall.risk \in 0..100
  <2>1. HookScores \cup {0} \subseteq 0..100
    BY HookAssumption
  <2> QED
    BY <2>1 DEF HookInv, HookTypeOK, ToolCalls
<1>4. PICK named \in SUBSET (1..16) :
          named = {i \in judgedBy.rules : default_policy[i].id \in toolCall.hits}
  BY <1>1
<1>5. PICK S \in SUBSET (1..16) : S = {i \in judgedBy.rules : Applies(default_policy[i], toolCall)}
  BY <1>1
<1>6. S # {} => default_policy[Sets!Min(S)].decision # "deny"
  BY <1>5 DEF HookInv, Evaluate
<1>7. ASSUME NEW i \in S, i <= 12
      PROVE  i \in named
  <2>1. i \in judgedBy.rules /\ i \in 1..12
    BY <1>1, <1>5, <1>7
  <2>2. default_policy[i].named
    BY <2>1, PolicyPlaces
  <2> QED
    BY <1>4, <1>5, <1>7, <2>1, <2>2 DEF Applies
<1>8. ASSUME NEW i \in named
      PROVE  i \in S /\ i <= 12
  <2>1. i \in 1..16 /\ i \in judgedBy.rules /\ default_policy[i].id \in toolCall.hits
    BY <1>1, <1>4
  <2>2. PICK j \in 1..16 :
           /\ default_policy[j].named /\ TOOL_ACTION_MAP[toolCall.tool] \in default_policy[j].actions
           /\ default_policy[i].id = default_policy[j].id
    BY <1>2, <2>1, PolicyPlaces DEF NamedFor
  <2>3. i = j
    BY <2>1, <2>2, PolicyPlaces
  <2>4. i \in 1..12
    BY <2>1, <2>2, <2>3, PolicyPlaces
  <2>5. default_policy[i].above = 0
    BY <2>4, PolicyPlaces
  <2> QED
    BY <1>3, <1>5, <2>1, <2>2, <2>3, <2>4, <2>5 DEF Applies
<1>9. ASSUME toolCall.risk >= 80, 15 \in judgedBy.rules
      PROVE  named # {}
  <2>1. TOOL_ACTION_MAP[toolCall.tool] \in Actions
    BY <1>2 DEF Actions
  <2>2. 15 \in S
    BY <1>3, <1>5, <1>9, <2>1, PolicyPlaces DEF Applies, Threshold, Rule
  <2>3. PICK m \in S : m = Sets!Min(S) /\ m <= 15
    BY <2>2, FirstRule
  <2>4. m \in 1..16 /\ TOOL_ACTION_MAP[toolCall.tool] \in default_policy[m].actions
    BY <1>5, <2>3 DEF Applies
  <2>5. m # 13
    <3>1. \A t \in AgentTools : TOOL_ACTION_MAP[t] = "agent:spawn" => t \notin Scannable
      BY DEF AgentTools, TOOL_ACTION_MAP, Scannable
    <3>2. toolCall.tool \in Scannable
      BY <1>3, <1>9 DEF HookInv
    <3> QED
      BY <1>2, <2>4, <3>1, <3>2, PolicyPlaces
  <2>6. m # 14
    <3>1. \A t \in AgentTools : TOOL_ACTION_MAP[t] # "llm:prompt"
      BY DEF AgentTools, TOOL_ACTION_MAP
    <3> QED
      BY <1>2, <2>4, <3>1, PolicyPlaces
  <2>7. m # 15
    <3>1. default_policy[15].decision = "deny"
      BY PolicyPlaces DEF Threshold, Rule
    <3> QED
      BY <1>6, <2>3, <3>1
  <2> QED
    BY <1>7, <2>3, <2>4, <2>5, <2>6, <2>7
<1>10. ASSUME named # {}
       PROVE  \E i \in named : default_policy[i].decision # "deny"
  <2>1. PICK i \in named : TRUE
    BY <1>10
  <2>2. i \in S /\ i <= 12 /\ i \in 1..16
    BY <1>8, <2>1
  <2>3. PICK m \in S : m = Sets!Min(S) /\ m <= i
    BY <2>2, FirstRule
  <2>4. m \in named
    BY <1>7, <2>2, <2>3
  <2> QED
    BY <1>6, <2>3, <2>4
<1>11. ASSUME "risk_threshold_critical" \in {default_policy[i].id : i \in judgedBy.rules}
       PROVE  15 \in judgedBy.rules
  <2>1. PICK i \in judgedBy.rules : default_policy[i].id = "risk_threshold_critical"
    BY <1>11
  <2>2. default_policy[15].id = "risk_threshold_critical"
    BY PolicyPlaces DEF Threshold, Rule
  <2>3. i \in 1..16 /\ 15 \in 1..16
    BY <1>1
  <2> QED
    BY <2>1, <2>2, <2>3, PolicyPlaces
<1> QED
  BY <1>4, <1>9, <1>10, <1>11

LEMMA HookHolds == HookSpec => []HookInv
<1>1. HookInv /\ [HookNext]_hooking => HookInv'
  BY HookStep
<1> QED
  BY HookFirst, <1>1, PTL DEF HookSpec

\* The hook of aigis/adapters/claude_code.py under the default policy, whatever scores
\* scan gives and however often the file is rewritten: no call that scored 80 or more
\* runs past the critical threshold unless a rule by name let it, and none runs that only
\* denying rules name, but for a file that was being rewritten when it was judged.
THEOREM CriticalCallsAreStopped == HookSpec => []CriticalIsStopped
  BY HookHolds, StoppedCalls, PTL

----------------------------------------------------------------------------
(* The parts together, as TLC runs them.                                    *)

LogSpecs == SignedSpec /\ ActivitySpec /\ RecallSpec
WatcherSpecs == MonitorSpec /\ ContainmentSpec /\ SessionsSpec /\ PipelineSpec /\ AutoFixSpec
ScannerSpecs == ScreeningSpec /\ ConversationSpec
ToolSpecs == EnforcerSpec /\ PinsSpec /\ ScanSpec /\ HookSpec

\* Whichever part a behaviour of MCLibrary is of, it is one of each: what is proved of a
\* part holds of what TLC checks.
LEMMA PartsAreTheirOwn == Spec => LogSpecs /\ WatcherSpecs /\ ScannerSpecs /\ ToolSpecs
<1>1. Init => /\ SignedInit /\ ActivityInit /\ RecallInit
              /\ MonitorInit /\ ContainmentInit /\ SessionsInit /\ PipelineInit /\ AutoFixInit
              /\ ScreeningInit /\ ConversationInit
              /\ EnforcerInit /\ PinsInit /\ ScanInit /\ HookInit
  BY DEF Init
<1>2. [Next]_<<part, logs, watchers, scanners, tools>>
        => /\ LogNext \/ UNCHANGED logs
           /\ WatcherNext \/ UNCHANGED watchers
           /\ ScannerNext \/ UNCHANGED scanners
           /\ ToolNext \/ UNCHANGED tools
  BY DEF Next, LogNext, WatcherNext, ScannerNext, ToolNext
<1>3. LogNext \/ UNCHANGED logs
        => [SignedNext]_signed /\ [ActivityNext]_activity /\ [RecallNext]_recall
  BY DEF LogNext, logs
<1>4. WatcherNext \/ UNCHANGED watchers
        => /\ [MonitorNext]_monitor /\ [ContainmentNext]_containment
           /\ [SessionsNext]_sessionStore /\ [PipelineNext]_pipeline
           /\ [AutoFixNext]_autofix
  BY DEF WatcherNext, watchers
<1>5. ScannerNext \/ UNCHANGED scanners
        => [ScreeningNext]_screening /\ [ConversationNext]_conversation
  BY DEF ScannerNext, scanners
<1>6. ToolNext \/ UNCHANGED tools
        => /\ [EnforcerNext]_authorizing /\ [PinsNext]_pinning
           /\ [ScanNext]_scanning /\ [HookNext]_hooking
  BY DEF ToolNext, tools
<1> QED
  BY <1>1, <1>2, <1>3, <1>4, <1>5, <1>6, PTL
     DEF Spec, LogSpecs, WatcherSpecs, ScannerSpecs, ToolSpecs, SignedSpec, ActivitySpec,
         RecallSpec, MonitorSpec, ContainmentSpec, SessionsSpec, PipelineSpec, AutoFixSpec, ScreeningSpec,
         ConversationSpec, EnforcerSpec, PinsSpec, ScanSpec, HookSpec

\* A behaviour stays of the part that it starts with.
OfAPart ==
    part \in {"signed", "activity", "recall", "monitor", "containment", "sessions", "pipeline",
              "autofix", "screening", "conversation", "enforcer", "pins", "scan", "hook"}

\* The fourteen parts of the library keep their types, in any behaviour: what matches a text
\* comes in the order of its list, and no message has more matches than there
\* are patterns.
THEOREM LibraryTypeCorrect == Spec => []TypeOK
<1>1. Init => OfAPart
  BY DEF Init, OfAPart
<1>2. OfAPart /\ [Next]_<<part, logs, watchers, scanners, tools>> => OfAPart'
  BY DEF Next, OfAPart
<1>3. LogSpecs => [](SignedTypeOK /\ ActivityTypeOK /\ RecallTypeOK)
  <2>1. /\ KeptInv => SignedTypeOK
        /\ ActivityInv => ActivityTypeOK
        /\ RecallInv => RecallTypeOK
    BY DEF KeptInv, SignedTypes, ActivityInv, RecallInv
  <2> QED
    BY <2>1, KeptInvariant, ActivityInvariant, RecallHolds, PTL DEF LogSpecs
<1>4. WatcherSpecs => [](/\ MonitorTypeOK /\ ContainmentTypeOK /\ SessionsTypeOK
                         /\ PipelineTypeOK /\ AutoFixTypeOK)
  <2>1. /\ ContainmentInv => ContainmentTypeOK
        /\ PipelineInv => PipelineTypeOK
        /\ AutoFixTypes => AutoFixTypeOK
    BY DEF ContainmentInv, PipelineInv, AutoFixTypes
  <2> QED
    BY <2>1, MonitorHolds, ContainmentInvariant, SessionsAlways, PipelineInvariant, AutoFixHolds, PTL
       DEF WatcherSpecs
<1>5. ScannerSpecs => [](ScreeningTypeOK /\ ConversationTypeOK)
  <2>1. ScreeningTypes => ScreeningTypeOK
    BY ScreeningTypesImply
  <2>2. ConversationTypes => ConversationTypeOK
    BY DEF ConversationTypes
  <2> QED
    BY <2>1, <2>2, ScreeningHolds, ConversationHolds, PTL DEF ScannerSpecs
<1>6. ToolSpecs => [](EnforcerTypeOK /\ PinsTypeOK /\ ScanTypeOK /\ HookTypeOK)
  <2>1. PinsInv => PinsTypeOK
    BY DEF PinsInv
  <2>2. HookInv => HookTypeOK
    BY DEF HookInv
  <2> QED
    BY <2>1, <2>2, TypeCorrect, PinsHold, ScansHold, HookHolds, PTL DEF ToolSpecs
<1>7. /\ OfAPart
      /\ SignedTypeOK /\ ActivityTypeOK /\ RecallTypeOK
      /\ MonitorTypeOK /\ ContainmentTypeOK /\ SessionsTypeOK /\ PipelineTypeOK /\ AutoFixTypeOK
      /\ ScreeningTypeOK /\ ConversationTypeOK
      /\ EnforcerTypeOK /\ PinsTypeOK /\ ScanTypeOK /\ HookTypeOK
      => TypeOK
  BY Zenon DEF TypeOK, OfAPart
<1> QED
  BY <1>1, <1>2, <1>3, <1>4, <1>5, <1>6, <1>7, PartsAreTheirOwn, PTL DEF Spec
=============================================================================
