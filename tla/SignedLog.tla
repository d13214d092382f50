----------------------------- MODULE SignedLog -----------------------------
(***************************************************************************)
(* SignedAuditLog and AuditVerifier (aigis/audit): processes that keep a   *)
(* log in memory, save it to one file and load it from there, and someone  *)
(* without the key who edits the file.  A line is the number of its entry, *)
(* and the entry's hash is this number too, and its timestamp: the clock   *)
(* goes on and is the same for all.                                        *)
(***************************************************************************)
EXTENDS Integers, Sequences, FiniteSets

CONSTANTS
    Processes,   \* each has one SignedAuditLog
    NoKey,       \* no audit_key yet
    MaxEntries,  \* bound: entries signed or forged in all
    MaxEdits     \* bound: edits of the file

VARIABLES
    keyFile,     \* .aigis/audit_key: the process whose token it holds
    key,         \* key[p]: the key of p's log
    making,      \* making[p]: p saw no key file, and makes a key
    entry,       \* entry[i]: the i-th entry that was made, by whomever
    log,         \* log[p]: _entries; its length is _sequence
    loading,     \* loading[p]: what load read, before it takes the lock
    file,        \* the saved log: its whole lines
    cut,         \* the file ends with a line that an interrupted save cut
    edits,       \* how often the file was edited
    misled       \* history: an edited file was loaded

disk == <<file, cut>>
signed == <<keyFile, key, making, entry, log, loading, file, cut, edits, misled>>

ASSUME SignedLogAssumption ==
    NoKey \notin Processes /\ MaxEntries \in Nat /\ MaxEdits \in Nat

Ids == 1..MaxEntries
Log == Seq(Ids)
Genesis == 0

\* signer: whose key signed it; NoKey if it is forged.  chain: history, the log that
\* it was appended to, itself included.
Entry == [seq : Nat, prev : Ids \cup {Genesis},
          signer : Processes \cup {NoKey}, chain : Log]

SignedTypeOK ==
    /\ keyFile \in Processes \cup {NoKey}
    /\ key \in [Processes -> Processes \cup {NoKey}]
    /\ making \in [Processes -> BOOLEAN]
    /\ entry \in Seq(Entry) /\ Len(entry) <= MaxEntries
    /\ log \in [Processes -> Log]
    /\ loading \in [Processes -> [open : BOOLEAN, lines : Log]]
    /\ file \in Log /\ cut \in BOOLEAN
    /\ edits \in 0..MaxEdits
    /\ misled \in BOOLEAN

NotLoading == [open |-> FALSE, lines |-> << >>]

SignedInit ==
    /\ keyFile = NoKey
    /\ key = [p \in Processes |-> NoKey]
    /\ making = [p \in Processes |-> FALSE]
    /\ entry = << >>
    /\ log = [p \in Processes |-> << >>]
    /\ loading = [p \in Processes |-> NotLoading]
    /\ file = << >> /\ cut = FALSE
    /\ edits = 0
    /\ misled = FALSE
----------------------------------------------------------------------------
Last(s) == s[Len(s)]
Prefixes(s) == {SubSeq(s, 1, n) : n \in 0..Len(s)}

\* _resolve_key without an explicit key.  Its lock is of one process only.
ResolveKey(p) ==
    /\ key[p] = NoKey /\ ~making[p]
    /\ IF keyFile = NoKey
       THEN making' = [making EXCEPT ![p] = TRUE] /\ UNCHANGED key
       ELSE key' = [key EXCEPT ![p] = keyFile] /\ UNCHANGED making
    /\ UNCHANGED <<keyFile, entry, log, loading, disk, edits, misled>>

MakeKey(p) ==
    /\ making[p]
    /\ keyFile' = p
    /\ key' = [key EXCEPT ![p] = p]
    /\ making' = [making EXCEPT ![p] = FALSE]
    /\ UNCHANGED <<entry, log, loading, disk, edits, misled>>

PrevHash(p) == IF log[p] = << >> THEN Genesis ELSE Last(log[p])

\* Mutant: the counter holds the last number, not the next.
LastSeq(p) == IF log[p] = << >> THEN -1 ELSE entry[Last(log[p])].seq

\* Mutant: the counter is not set by load.
OwnCount(p) == Cardinality({i \in DOMAIN entry : entry[i].signer = key[p]})

\* _sequence: load goes on from what the last line claims.
NextSeq(p) == IF log[p] = << >> THEN 0 ELSE entry[Last(log[p])].seq + 1

AppendEntry(p) ==
    LET i == Len(entry) + 1 IN
    /\ key[p] # NoKey
    /\ i <= MaxEntries
    /\ entry' = Append(entry, [seq |-> NextSeq(p), prev |-> PrevHash(p),
                               signer |-> key[p], chain |-> Append(log[p], i)])
    /\ log' = [log EXCEPT ![p] = Append(@, i)]
    /\ UNCHANGED <<keyFile, key, making, loading, disk, edits, misled>>

SaveLog(p) ==
    /\ key[p] # NoKey
    /\ file' = log[p] /\ cut' = FALSE
    /\ UNCHANGED <<keyFile, key, making, entry, log, loading, edits, misled>>

\* open(p, "w") truncates and the lines are buffered: of an interrupted save some whole
\* lines are there, and maybe a part of the next one.  The process that starts anew
\* resolves its key again.
Crash(p) ==
    /\ key[p] # NoKey
    /\ \/ UNCHANGED disk
       \/ file' \in Prefixes(log[p]) /\ cut' \in BOOLEAN /\ (cut' => file' # log[p])
    /\ log' = [log EXCEPT ![p] = << >>]
    /\ key' = [key EXCEPT ![p] = NoKey]
    /\ loading' = [loading EXCEPT ![p] = NotLoading]
    /\ UNCHANGED <<keyFile, making, entry, edits, misled>>

\* load reads the file before it takes the lock: an append of another thread may
\* come between, and is replaced.  It raises on a cut line, and nothing is loaded.
ReadFile(p) ==
    /\ key[p] # NoKey /\ ~loading[p].open /\ ~cut
    /\ loading' = [loading EXCEPT ![p] = [open |-> TRUE, lines |-> file]]
    /\ misled' = (misled \/ edits > 0)
    /\ UNCHANGED <<keyFile, key, making, entry, log, disk, edits>>

Replace(p) ==
    /\ loading[p].open
    /\ log' = [log EXCEPT ![p] = loading[p].lines]
    /\ loading' = [loading EXCEPT ![p] = NotLoading]
    /\ UNCHANGED <<keyFile, key, making, entry, disk, edits, misled>>

\* A line is deleted, replaced by another that was seen, or put at the end; a cut line
\* is taken away, or stays.
EditFile ==
    /\ edits < MaxEdits
    /\ edits' = edits + 1
    /\ \/ \E i \in DOMAIN file : file' = SubSeq(file, 1, i - 1) \o SubSeq(file, i + 1, Len(file))
       \/ \E i \in DOMAIN file, e \in DOMAIN entry : file' = [file EXCEPT ![i] = e]
       \/ \E e \in DOMAIN entry : file' = Append(file, e)
       \/ cut /\ UNCHANGED file
    /\ cut' \in {FALSE, cut}
    /\ UNCHANGED <<keyFile, key, making, entry, log, loading, misled>>

\* A line that fits at its place in the file, all but its signature.
ForgeLine ==
    /\ edits < MaxEdits /\ Len(entry) < MaxEntries
    /\ edits' = edits + 1
    /\ \E i \in 1..(Len(file) + 1) :
          /\ entry' = Append(entry, [seq |-> i - 1, signer |-> NoKey, chain |-> << >>,
                                     prev |-> IF i = 1 THEN Genesis ELSE file[i - 1]])
          /\ file' = Append(SubSeq(file, 1, i - 1), Len(entry'))
    /\ cut' = FALSE
    /\ UNCHANGED <<keyFile, key, making, log, loading, misled>>

SignedNext ==
    \/ \E p \in Processes : ResolveKey(p)
    \/ \E p \in Processes : MakeKey(p)
    \/ \E p \in Processes : AppendEntry(p)
    \/ \E p \in Processes : SaveLog(p)
    \/ \E p \in Processes : Crash(p)
    \/ \E p \in Processes : ReadFile(p)
    \/ \E p \in Processes : Replace(p)
    \/ EditFile
    \/ ForgeLine

SignedSpec == SignedInit /\ [][SignedNext]_signed
----------------------------------------------------------------------------
ChainValid(lines) ==
    \A i \in DOMAIN lines :
        entry[lines[i]].prev = IF i = 1 THEN Genesis ELSE lines[i - 1]

SequenceValid(lines) == \A i \in DOMAIN lines : entry[lines[i]].seq = i - 1

TimesValid(lines) == \A i \in 2..Len(lines) : lines[i - 1] <= lines[i]

\* Mutant: whoever signed.
AnySigner(lines, k) == TRUE

SignaturesValid(lines, k) == \A i \in DOMAIN lines : entry[lines[i]].signer = k

\* verify_entries with the key of k.
Verifies(lines, k) ==
    /\ SignaturesValid(lines, k)
    /\ ChainValid(lines) /\ SequenceValid(lines) /\ TimesValid(lines)

\* What verify_file says: it raises on a cut line, as load does.
VerifyFile(k) ==
    IF cut THEN "raises" ELSE IF Verifies(file, k) THEN "valid" ELSE "invalid"

\* A file that is found valid is the log as the process that appended its last line had
\* it: nothing was changed, forged, reordered or taken out before that line, though the
\* file was edited.  It is not evident that lines were taken from its end: whatever
\* verifies does so without its last lines too, against what signed_log.py says of
\* entries that are deleted.
TamperEvident ==
    \A k \in Processes :
        ~misled /\ VerifyFile(k) = "valid" /\ file # << >> =>
            /\ file = entry[Last(file)].chain
            /\ \A lines \in Prefixes(file) : Verifies(lines, k)

OneSigner(k) == \A i \in DOMAIN entry : entry[i].signer = k

\* While nobody edits the file and the processes have one key, no log and no file is
\* found invalid: through crashes, interrupted saves, saves over one another and loads
\* that drop an append.  Where a save was interrupted in a line, verification and load
\* raise, until a save writes the file anew; the whole lines before it verify.
UntouchedVerifies ==
    \A k \in Processes : OneSigner(k) =>
        /\ edits = 0 => VerifyFile(k) # "invalid" /\ Verifies(file, k)
        /\ ~misled => \A p \in Processes : Verifies(log[p], k)
=============================================================================
