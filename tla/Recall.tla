------------------------------- MODULE Recall -------------------------------
(***************************************************************************)
(* MemoryScanner and MemoryIntegrity (aigis/memory) around an              *)
(* application's memory: what is written is scanned and registered with a  *)
(* term, what is recalled is verified, not expired and scanned again.      *)
(* Threads save and load the records in one file; the process may end.     *)
(* Time passes in weeks, the default term of what is not trusted.          *)
(***************************************************************************)
EXTENDS Integers, FiniteSets

CONSTANTS
    Keys,
    Sources,     \* of the five kinds of source, those that write
    Threads,     \* each saves or loads
    DefaultTerm, \* default_ttl: None, or weeks
    LastWeek     \* bound: the weeks that pass

VARIABLES
    week,
    records,   \* records[k]: _records
    saved,     \* the file of records
    task,      \* task[t]: what thread t holds between two steps
    reader,    \* the thread that recalls an entry; it changes nothing that another would see
    lasts      \* history: lasts[k][c] is the last week for which c, written to k, counts

recall == <<week, records, saved, task, reader, lasts>>

None == -1      \* no ttl, no expiry
Absent == -2    \* no entry under the key

ASSUME RecallAssumption ==
    /\ Sources \subseteq {"user", "tool", "agent", "system", "other"}
    /\ DefaultTerm \in Nat \cup {None} /\ LastWeek \in Nat
    /\ Keys # {}

Weeks == 0..LastWeek
Contents == {"clean", "hint"}
Terms == {None, 0, 1}

Record == [content : Contents, created : Int, expires : Int]
NoRecord == [content |-> "clean", created |-> Absent, expires |-> None]

\* state "torn": opened for writing, or left so.
Saved == [state : {"missing", "torn", "whole"}, lines : [Keys -> Record]]
NoRecords == [k \in Keys |-> NoRecord]
Torn == [state |-> "torn", lines |-> NoRecords]

Task == [does : {"nothing", "save", "write", "load"}, lines : [Keys -> Record]]
NoTask == [does |-> "nothing", lines |-> NoRecords]

\* content: the entry's; found: the record that is_expired read.
Reader == [pc : {"idle", "verified", "looked"}, key : Keys, content : Contents, found : Record]
IdleReader == [pc |-> "idle", key |-> CHOOSE k \in Keys : TRUE, content |-> "clean",
               found |-> NoRecord]

RecallTypeOK ==
    /\ week \in Weeks
    /\ records \in [Keys -> Record]
    /\ saved \in Saved
    /\ task \in [Threads -> Task]
    /\ reader \in Reader
    /\ lasts \in [Keys -> [Contents -> Weeks \cup {Absent}]]

RecallInit ==
    /\ week = 0
    /\ records = NoRecords
    /\ saved = [state |-> "missing", lines |-> NoRecords]
    /\ task = [t \in Threads |-> NoTask]
    /\ reader = IdleReader
    /\ lasts = [k \in Keys |-> [c \in Contents |-> Absent]]
----------------------------------------------------------------------------
\* What the patterns add up to, and the trust multiplier of _SOURCE_TRUST in
\* hundredths, at least 0.3.
RawScore(content) == IF content = "clean" THEN 0 ELSE 50

Multiplier(source) ==
    CASE source \in {"system", "agent"} -> 30 [] source = "tool" -> 50 [] OTHER -> 100

\* recommendation "allow".
Allowed(content, source) == (RawScore(content) * Multiplier(source)) \div 100 <= 20

\* Mutant: the source decides, whatever ttl is asked for.
SourceExpiry(source, created, ttl) ==
    IF source \in {"user", "tool"} THEN created + 1 ELSE None

\* _compute_expiry: the ttl asked for, else the source's, else the default.
Expiry(source, created, ttl) ==
    LET term == IF ttl # None THEN ttl
                ELSE CASE source \in {"user", "tool"} -> 1
                       [] source \in {"agent", "system"} -> 0
                       [] OTHER -> DefaultTerm
    IN IF term \in {0, None} THEN None ELSE created + term

Expired(record) == record.expires # None /\ week > record.expires

\* The last week for which a write of now is to count: an explicit ttl decides, then
\* whether the source is trusted.  A week beyond the bound is the bound.
LastOf(source, ttl) ==
    IF (ttl > 0 \/ (ttl = None /\ source \in {"user", "tool"})) /\ week < LastWeek
    THEN week + 1 ELSE LastWeek

Later(w, v) == IF w > v THEN w ELSE v

\* scan_entry, and register under the lock.
Remember(k, content, source, ttl) ==
    /\ Allowed(content, source)
    /\ records' = [records EXCEPT ![k] = [content |-> content, created |-> week,
                                          expires |-> Expiry(source, week, ttl)]]
    /\ lasts' = [lasts EXCEPT ![k][content] = Later(@, LastOf(source, ttl))]
    /\ UNCHANGED <<week, saved, task, reader>>

PruneExpired ==
    /\ records' = [k \in Keys |-> IF Expired(records[k]) THEN NoRecord ELSE records[k]]
    /\ UNCHANGED <<week, saved, task, reader, lasts>>

RotateOlder(age) ==
    /\ records' = [k \in Keys |-> IF records[k].created < week - age THEN NoRecord ELSE records[k]]
    /\ UNCHANGED <<week, saved, task, reader, lasts>>

Does(t, from, to, lines) ==
    /\ task[t].does = from
    /\ task' = [task EXCEPT ![t] = [does |-> to, lines |-> lines]]

\* save copies the records under the lock, and writes them without it.
CopyRecords(t) ==
    /\ Does(t, "nothing", "save", records)
    /\ UNCHANGED <<week, records, saved, reader, lasts>>

OpenSaved(t) ==
    /\ Does(t, "save", "write", task[t].lines)
    /\ saved' = Torn
    /\ UNCHANGED <<week, records, reader, lasts>>

WriteSaved(t) ==
    /\ Does(t, "write", "nothing", NoRecords)
    /\ saved' = [state |-> "whole", lines |-> task[t].lines]
    /\ UNCHANGED <<week, records, reader, lasts>>

\* load reads the whole file, or raises, before it takes the lock.
ReadSaved(t) ==
    /\ saved.state = "whole"
    /\ Does(t, "nothing", "load", saved.lines)
    /\ UNCHANGED <<week, records, saved, reader, lasts>>

ReplaceRecords(t) ==
    /\ Does(t, "load", "nothing", NoRecords)
    /\ records' = task[t].lines
    /\ UNCHANGED <<week, saved, reader, lasts>>

\* verify reads the record under the lock, and knows no unregistered key.  The entry is
\* whatever the application read from its memory, which may change behind the records.
VerifyEntry(k, content) ==
    /\ reader.pc = "idle"
    /\ records[k].created # Absent /\ records[k].content = content
    /\ reader' = [IdleReader EXCEPT !.pc = "verified", !.key = k, !.content = content]
    /\ UNCHANGED <<week, records, saved, task, lasts>>

\* is_expired takes the lock again.
LookUpExpiry ==
    /\ reader.pc = "verified"
    /\ LET record == records[reader.key] IN
       reader' = IF record.created # Absent
                 THEN [reader EXCEPT !.pc = "looked", !.found = record] ELSE IdleReader
    /\ UNCHANGED <<week, records, saved, task, lasts>>

AnswerRecall ==
    /\ reader.pc = "looked"
    /\ reader' = IdleReader
    /\ UNCHANGED <<week, records, saved, task, lasts>>

Restart ==
    /\ records' = NoRecords
    /\ task' = [t \in Threads |-> NoTask]
    /\ reader' = IdleReader
    /\ UNCHANGED <<week, saved, lasts>>

PassWeek ==
    /\ week < LastWeek
    /\ week' = week + 1
    /\ UNCHANGED <<records, saved, task, reader, lasts>>

RecallNext ==
    \/ \E k \in Keys, c \in Contents, s \in Sources, ttl \in Terms : Remember(k, c, s, ttl)
    \/ PruneExpired
    \/ \E age \in 0..1 : RotateOlder(age)
    \/ \E t \in Threads : CopyRecords(t)
    \/ \E t \in Threads : OpenSaved(t)
    \/ \E t \in Threads : WriteSaved(t)
    \/ \E t \in Threads : ReadSaved(t)
    \/ \E t \in Threads : ReplaceRecords(t)
    \/ \E k \in Keys, c \in Contents : VerifyEntry(k, c)
    \/ LookUpExpiry
    \/ AnswerRecall
    \/ Restart
    \/ PassWeek

RecallSpec == RecallInit /\ [][RecallNext]_recall
----------------------------------------------------------------------------
\* is_expired reads the time after it let go of the lock; scan_on_read reads the entry
\* alone, which names its source.
Accepted(source) ==
    /\ reader.pc = "looked"
    /\ ~Expired(reader.found)
    /\ Allowed(reader.content, source)

\* What is recalled under a key was once scanned, allowed and written there, and, where
\* is_expired found a record of the same content, its term has not ended: whatever the
\* memory holds, and whichever old records a late save, a load or a restart brought back.
\* Where a write or a load came between verify and is_expired, an entry that verify
\* matched is judged by the term of another.
RecallIsVetted ==
    \A source \in Sources : Accepted(source) =>
        LET last == lasts[reader.key][reader.content] IN
        /\ last # Absent
        /\ reader.found.content = reader.content => week <= last
=============================================================================
