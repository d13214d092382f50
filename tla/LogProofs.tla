----------------------------- MODULE LogProofs -----------------------------
(***************************************************************************)
(* Theorems about SignedLog, ActivityLog, Monitor and ContainmentManager,  *)
(* for any processes, keys, events, retention, windows and thresholds:     *)
(* what a log that verifies says, what the rotation keeps, what a level of *)
(* containment rests on, and that the chains which are found happened.     *)
(***************************************************************************)
EXTENDS SignedLog, ActivityLog, Monitor, ContainmentManager, SequenceTheorems, FiniteSetTheorems,
        Induction, TLAPS

----------------------------------------------------------------------------
(* SignedLog: types.                                                       *)

\* The lines are of entries that were made.
Made(lines, e) == lines \in Log /\ \A n \in 1..Len(lines) : lines[n] \in 1..Len(e)

AllMade ==
    /\ Made(file, entry)
    /\ \A p \in Processes : Made(log[p], entry) /\ Made(loading[p].lines, entry)

SignedTypes == SignedTypeOK /\ AllMade /\ (misled => edits > 0)

Grows == /\ entry' \in Seq(Entry) /\ Len(entry') >= Len(entry) /\ Len(entry') <= MaxEntries
         /\ \A i \in 1..Len(entry) : entry'[i] = entry[i]

LEMMA MadeStays ==
    ASSUME SignedTypeOK, Grows
    PROVE  \A lines : Made(lines, entry) => Made(lines, entry')
  BY DEF Made, Grows, SignedTypeOK

LEMMA EntryIsAdded ==
    ASSUME SignedTypeOK, NEW x \in Entry, Len(entry) + 1 <= MaxEntries, entry' = Append(entry, x)
    PROVE  /\ Grows /\ Len(entry') = Len(entry) + 1 /\ entry'[Len(entry) + 1] = x
           /\ Len(entry) + 1 \in Ids
  BY SignedLogAssumption DEF SignedTypeOK, Grows, Ids

LEMMA LineIsAdded ==
    ASSUME SignedTypeOK, NEW lines, Made(lines, entry), Grows, NEW i \in 1..Len(entry')
    PROVE  /\ Append(lines, i) \in Log /\ Made(Append(lines, i), entry')
           /\ Len(Append(lines, i)) = Len(lines) + 1
           /\ Append(lines, i)[Len(lines) + 1] = i
           /\ \A n \in 1..Len(lines) : Append(lines, i)[n] = lines[n]
<1>1. i \in Ids /\ lines \in Log
  BY SignedLogAssumption DEF Grows, Ids, Made
<1> DEFINE l == Append(lines, i)
<1>2. /\ l \in Log /\ Len(l) = Len(lines) + 1 /\ l[Len(lines) + 1] = i
      /\ \A n \in 1..Len(lines) : l[n] = lines[n]
  BY <1>1 DEF Log
<1>3. Made(lines, entry')
  BY MadeStays
<1>4. \A n \in 1..Len(l) : n \in 1..Len(lines) \/ n = Len(lines) + 1
  BY <1>1, <1>2 DEF Log
<1> QED
  BY <1>2, <1>3, <1>4 DEF Made

LEMMA PrefixIsMade ==
    ASSUME NEW e, NEW lines, Made(lines, e), NEW m \in 0..Len(lines)
    PROVE  /\ SubSeq(lines, 1, m) \in Log /\ Made(SubSeq(lines, 1, m), e)
           /\ Len(SubSeq(lines, 1, m)) = m
           /\ \A n \in 1..m : SubSeq(lines, 1, m)[n] = lines[n]
<1>1. lines \in Seq(Ids)
  BY DEF Made, Log
<1> DEFINE l == SubSeq(lines, 1, m)
<1>2. l \in Seq(Ids) /\ Len(l) = m /\ \A n \in 1..m : l[n] = lines[n]
  BY <1>1
<1>3. \A n \in 1..m : n \in 1..Len(lines)
  BY <1>1
<1> QED
  BY <1>2, <1>3 DEF Made, Log

LEMMA LastIsMade ==
    ASSUME NEW lines, Made(lines, entry), lines # << >>, SignedTypeOK
    PROVE  /\ Last(lines) \in 1..Len(entry) /\ Last(lines) \in Ids /\ entry[Last(lines)] \in Entry
           /\ Len(lines) \in 1..Len(lines) /\ Last(lines) = lines[Len(lines)]
  BY SignedLogAssumption DEF Made, Last, Log, Ids, SignedTypeOK

LEMMA AppendedIsEntry ==
    ASSUME SignedTypes, NEW p \in Processes, AppendEntry(p)
    PROVE  [seq |-> NextSeq(p), prev |-> PrevHash(p), signer |-> key[p],
            chain |-> Append(log[p], Len(entry) + 1)] \in Entry
<1>1. SignedTypeOK /\ Made(log[p], entry) /\ log[p] \in Log /\ Len(entry) + 1 \in Ids
  BY SignedLogAssumption DEF SignedTypes, AllMade, AppendEntry, Ids, SignedTypeOK
<1>2. NextSeq(p) \in Nat
  BY <1>1, LastIsMade DEF NextSeq, Entry
<1>3. PrevHash(p) \in Ids \cup {Genesis}
  BY <1>1, LastIsMade DEF PrevHash
<1>4. Append(log[p], Len(entry) + 1) \in Log
  BY <1>1 DEF Log
<1> QED
  BY <1>1, <1>2, <1>3, <1>4 DEF Entry, SignedTypeOK
LEMMA SignedStarts ==
    ASSUME SignedInit
    PROVE  SignedTypes
<1>1. << >> \in Log /\ Made(<< >>, entry) /\ entry = << >>
  BY DEF Log, Made, SignedInit
<1>2. SignedTypeOK
  <2>1. entry \in Seq(Entry) /\ Len(entry) = 0 /\ Len(entry) <= MaxEntries /\ edits \in 0..MaxEdits
    BY <1>1, SignedLogAssumption DEF SignedInit
  <2>2. /\ log \in [Processes -> Log] /\ file \in Log
        /\ loading \in [Processes -> [open : BOOLEAN, lines : Log]]
    BY <1>1 DEF SignedInit, NotLoading
  <2> QED
    BY <2>1, <2>2 DEF SignedInit, SignedTypeOK
<1>3. AllMade
  BY <1>1 DEF AllMade, SignedInit, NotLoading
<1> QED
  BY <1>2, <1>3 DEF SignedTypes, SignedInit

\* The file, as one that edits it leaves it.
LEMMA EditedIsMade ==
    ASSUME SignedTypes, EditFile
    PROVE  Made(file', entry)
<1>1. Made(file, entry) /\ file \in Seq(Ids) /\ \A e \in 1..Len(entry) : e \in Ids
  BY SignedLogAssumption DEF SignedTypes, SignedTypeOK, AllMade, Log, Ids
<1>2. ASSUME NEW i \in DOMAIN file, file' = SubSeq(file, 1, i - 1) \o SubSeq(file, i + 1, Len(file))
      PROVE  Made(file', entry)
  <2> DEFINE a == SubSeq(file, 1, i - 1)
             b == SubSeq(file, i + 1, Len(file))
  <2>1. i \in 1..Len(file)
    BY <1>1, <1>2
  <2>2. /\ a \in Seq(Ids) /\ Len(a) = i - 1
        /\ \A n \in 1..(i - 1) : a[n] = file[n]
    BY <1>1, <2>1
  <2>3. /\ b \in Seq(Ids) /\ Len(b) = Len(file) - i
        /\ \A n \in 1..(Len(file) - i) : b[n] = file[i + n]
    BY <1>1, <2>1
  <2> HIDE DEF a, b
  <2>4. /\ a \o b \in Seq(Ids) /\ Len(a \o b) = Len(a) + Len(b)
        /\ \A n \in 1..(Len(a) + Len(b)) : (a \o b)[n] = IF n <= Len(a) THEN a[n] ELSE b[n - Len(a)]
    BY <2>2, <2>3, ConcatProperties
  <2>a. Len(file) \in Nat
    BY <1>1
  <2>5. ASSUME NEW n \in 1..(Len(a) + Len(b))
        PROVE  (a \o b)[n] \in 1..Len(entry)
    <3>0. \A m \in 1..Len(file) : file[m] \in 1..Len(entry)
      BY <1>1 DEF Made
    <3>b. i \in Int /\ 1 <= i /\ i <= Len(file) /\ n \in Int /\ 1 <= n /\ n <= (i - 1) + (Len(file) - i)
      BY <2>1, <2>2, <2>3, <2>5, <2>a
    <3>1. CASE n <= i - 1
      <4>1. n \in 1..(i - 1) /\ n \in 1..Len(file)
        BY <2>a, <3>1, <3>b
      <4> QED
        BY <2>2, <2>4, <2>5, <3>0, <3>1, <4>1
    <3>2. CASE ~(n <= i - 1)
      <4>1. n - (i - 1) \in 1..(Len(file) - i) /\ i + (n - (i - 1)) \in 1..Len(file)
        BY <2>a, <3>2, <3>b
      <4>2. (a \o b)[n] = b[n - (i - 1)]
        BY <2>2, <2>4, <2>5, <3>2
      <4>3. b[n - (i - 1)] = file[i + (n - (i - 1))]
        BY <2>3, <4>1
      <4> QED
        BY <3>0, <4>1, <4>2, <4>3
    <3> QED
      BY <3>1, <3>2
  <2> QED
    BY <1>2, <2>4, <2>5 DEF Made, Log, a, b
<1>3. ASSUME NEW i \in DOMAIN file, NEW e \in DOMAIN entry, file' = [file EXCEPT ![i] = e]
      PROVE  Made(file', entry)
  <2>1. e \in 1..Len(entry) /\ e \in Ids
    BY <1>1, <1>3 DEF SignedTypes, SignedTypeOK
  <2>2. file' \in Seq(Ids) /\ Len(file') = Len(file)
        /\ \A n \in 1..Len(file) : file'[n] = IF n = i THEN e ELSE file[n]
    BY <1>1, <1>3, <2>1
  <2> QED
    BY <1>1, <2>1, <2>2 DEF Made, Log
<1>4. ASSUME NEW e \in DOMAIN entry, file' = Append(file, e)
      PROVE  Made(file', entry)
  <2>1. e \in 1..Len(entry) /\ e \in Ids
    BY <1>1, <1>4 DEF SignedTypes, SignedTypeOK
  <2>2. file' \in Seq(Ids) /\ Len(file') = Len(file) + 1
        /\ \A n \in 1..Len(file') : file'[n] = IF n <= Len(file) THEN file[n] ELSE e
    BY <1>1, <1>4, <2>1
  <2> QED
    BY <1>1, <2>1, <2>2 DEF Made, Log
<1>5. CASE UNCHANGED file
  BY <1>1, <1>5
<1> QED
  BY <1>2, <1>3, <1>4, <1>5 DEF EditFile

\* A line that someone forged, and the file that ends with it.
LEMMA ForgedForm ==
    ASSUME SignedTypes, ForgeLine
    PROVE  /\ Grows /\ Made(file', entry') /\ Len(entry') = Len(entry) + 1
           /\ entry'[Len(entry) + 1].signer = NoKey
<1>1. PICK i \in 1..(Len(file) + 1) :
          /\ entry' = Append(entry, [seq |-> i - 1, signer |-> NoKey, chain |-> << >>,
                                     prev |-> IF i = 1 THEN Genesis ELSE file[i - 1]])
          /\ file' = Append(SubSeq(file, 1, i - 1), Len(entry'))
  BY DEF ForgeLine
<1>2. SignedTypeOK /\ Made(file, entry) /\ file \in Seq(Ids) /\ Len(entry) + 1 <= MaxEntries
      /\ Len(entry) \in Nat
  BY SignedLogAssumption DEF SignedTypes, SignedTypeOK, AllMade, Log, ForgeLine
<1> DEFINE x == [seq |-> i - 1, signer |-> NoKey, chain |-> << >>,
                 prev |-> IF i = 1 THEN Genesis ELSE file[i - 1]]
<1>3. x \in Entry
  <2>1. x.prev \in Ids \cup {Genesis}
    BY <1>2
  <2>2. x.chain \in Log
    BY DEF Log
  <2> QED
    BY <1>2, <2>1, <2>2 DEF Entry
<1>4. Grows /\ Len(entry') = Len(entry) + 1 /\ entry'[Len(entry) + 1] = x
  BY <1>1, <1>2, <1>3, EntryIsAdded
<1>5. Made(SubSeq(file, 1, i - 1), entry)
  BY <1>2, PrefixIsMade
<1>6. Made(file', entry')
  BY <1>1, <1>2, <1>4, <1>5, LineIsAdded
<1> QED
  BY <1>4, <1>6

LEMMA AppendedForm ==
    ASSUME SignedTypes, NEW p \in Processes, AppendEntry(p)
    PROVE  /\ Grows /\ Len(entry') = Len(entry) + 1
           /\ entry'[Len(entry) + 1] =
                 [seq |-> NextSeq(p), prev |-> PrevHash(p), signer |-> key[p],
                  chain |-> Append(log[p], Len(entry) + 1)]
           /\ log' \in [Processes -> Log]
           /\ log'[p] = Append(log[p], Len(entry) + 1) /\ Made(log'[p], entry')
           /\ \A q \in Processes \ {p} : log'[q] = log[q]
<1>1. SignedTypeOK /\ Made(log[p], entry) /\ Len(entry) \in Nat
  BY DEF SignedTypes, SignedTypeOK, AllMade
<1>2. Grows /\ Len(entry') = Len(entry) + 1
      /\ entry'[Len(entry) + 1] =
            [seq |-> NextSeq(p), prev |-> PrevHash(p), signer |-> key[p],
             chain |-> Append(log[p], Len(entry) + 1)]
  BY <1>1, AppendedIsEntry, EntryIsAdded DEF AppendEntry
<1>3. Append(log[p], Len(entry) + 1) \in Log /\ Made(Append(log[p], Len(entry) + 1), entry')
  BY <1>1, <1>2, LineIsAdded
<1>4. log' = [log EXCEPT ![p] = Append(log[p], Len(entry) + 1)]
  BY DEF AppendEntry
<1> QED
  BY <1>1, <1>2, <1>3, <1>4 DEF SignedTypeOK

LEMMA SignedTyped ==
    ASSUME SignedTypes, [SignedNext]_signed
    PROVE  SignedTypes'
<1>0. SignedTypeOK /\ AllMade /\ (misled => edits > 0)
  BY DEF SignedTypes
<1>1. ASSUME NEW p \in Processes, ResolveKey(p)
      PROVE  SignedTypes'
  BY <1>0, <1>1 DEF disk, ResolveKey, SignedTypes, SignedTypeOK, AllMade
<1>2. ASSUME NEW p \in Processes, MakeKey(p)
      PROVE  SignedTypes'
  BY <1>0, <1>2 DEF disk, MakeKey, SignedTypes, SignedTypeOK, AllMade
<1>3. ASSUME NEW p \in Processes, AppendEntry(p)
      PROVE  SignedTypes'
  <2>1. AllMade'
    BY <1>0, <1>3, AppendedForm, MadeStays DEF disk, AllMade, AppendEntry
  <2> QED
    BY <1>0, <1>3, <2>1, AppendedForm DEF disk, AppendEntry, SignedTypes, SignedTypeOK, Grows
<1>4. ASSUME NEW p \in Processes, SaveLog(p)
      PROVE  SignedTypes'
  BY <1>0, <1>4 DEF SaveLog, SignedTypes, SignedTypeOK, AllMade
<1>5. ASSUME NEW p \in Processes, Crash(p)
      PROVE  SignedTypes'
  <2>1. Made(file', entry)
    BY <1>0, <1>5, PrefixIsMade DEF Crash, AllMade, Prefixes, disk
  <2>2. << >> \in Log /\ Made(<< >>, entry)
    BY DEF Made, Log
  <2>3. file' \in Log
    BY <2>1 DEF Made
  <2>4. AllMade'
    BY <1>0, <1>5, <2>1, <2>2 DEF Crash, AllMade, NotLoading, SignedTypeOK
  <2>5. cut' \in BOOLEAN
    BY <1>0, <1>5 DEF Crash, disk, SignedTypeOK
  <2> QED
    BY <1>0, <1>5, <2>2, <2>3, <2>4, <2>5 DEF Crash, SignedTypes, SignedTypeOK, NotLoading
<1>6. ASSUME NEW p \in Processes, ReadFile(p)
      PROVE  SignedTypes'
  BY <1>0, <1>6 DEF disk, ReadFile, SignedTypes, SignedTypeOK, AllMade
<1>7. ASSUME NEW p \in Processes, Replace(p)
      PROVE  SignedTypes'
  <2>1. << >> \in Log /\ Made(<< >>, entry)
    BY DEF Made, Log
  <2> QED
    BY <1>0, <1>7, <2>1 DEF disk, Replace, SignedTypes, SignedTypeOK, AllMade, NotLoading
<1>8. CASE EditFile
  <2>1. Made(file', entry) /\ file' \in Log /\ UNCHANGED <<entry, log, loading>>
    BY <1>8, EditedIsMade DEF Made, EditFile
  <2>2. AllMade'
    BY <1>0, <2>1 DEF AllMade
  <2>3. edits' \in 0..MaxEdits /\ edits' > 0
    <3>1. edits' = edits + 1 /\ edits < MaxEdits /\ edits \in 0..MaxEdits
      BY <1>0, <1>8 DEF EditFile, SignedTypeOK
    <3> QED
      BY <3>1, SignedLogAssumption
  <2> QED
    BY <1>0, <1>8, <2>1, <2>2, <2>3 DEF EditFile, SignedTypes, SignedTypeOK
<1>9. CASE ForgeLine
  <2>1. Grows /\ Made(file', entry') /\ file' \in Log
    BY <1>9, ForgedForm DEF Made
  <2>2. AllMade'
    BY <1>0, <1>9, <2>1, MadeStays DEF AllMade, ForgeLine
  <2>3. edits' \in 0..MaxEdits /\ edits' > 0
    BY <1>0, <1>9, SignedLogAssumption DEF ForgeLine, SignedTypeOK
  <2> QED
    BY <1>0, <1>9, <2>1, <2>2, <2>3 DEF ForgeLine, SignedTypes, SignedTypeOK, Grows
<1>10. CASE UNCHANGED signed
  BY <1>0, <1>10 DEF signed, SignedTypes, SignedTypeOK, AllMade
<1> QED
  BY <1>1, <1>2, <1>3, <1>4, <1>5, <1>6, <1>7, <1>8, <1>9, <1>10 DEF SignedNext

----------------------------------------------------------------------------
(* A log that was kept.                                                    *)

\* c is the first n lines.
Begins(c, lines, n) == Len(c) = n /\ \A m \in 1..n : c[m] = lines[m]

\* Each line was appended, with a key, to the lines before it.
InPlace(lines, n, x) ==
    /\ x.signer # NoKey /\ x.seq = n - 1 /\ Begins(x.chain, lines, n)
    /\ x.prev = IF n = 1 THEN Genesis ELSE lines[n - 1]
    /\ n > 1 => lines[n - 1] < lines[n]

Kept(lines, e) ==
    Made(lines, e) /\ \A n \in 1..Len(lines) : InPlace(lines, n, e[lines[n]])

\* An entry that was signed ends the log that it was appended to.
Closes(i, x, e) ==
    x.signer # NoKey => /\ Kept(x.chain, e) /\ Len(x.chain) > 0 /\ x.chain[Len(x.chain)] = i

\* Until an edited file is loaded, every log is one that was kept, and the file until
\* it is edited.
KeptInv ==
    /\ SignedTypes
    /\ ~misled => /\ \A p \in Processes : Kept(log[p], entry) /\ Kept(loading[p].lines, entry)
                  /\ edits = 0 => Kept(file, entry)
                  /\ \A i \in 1..Len(entry) : Closes(i, entry[i], entry)

LEMMA EmptyIsKept ==
    ASSUME NEW e
    PROVE  Kept(<< >>, e)
  BY DEF Kept, Made, Log

LEMMA KeptStays ==
    ASSUME SignedTypeOK, Grows
    PROVE  /\ \A lines : Kept(lines, entry) => Kept(lines, entry')
           /\ \A i, x : Closes(i, x, entry) => Closes(i, x, entry')
<1>1. ASSUME NEW lines, Kept(lines, entry)
      PROVE  Kept(lines, entry')
  <2>1. Made(lines, entry) /\ Made(lines, entry')
    BY <1>1, MadeStays DEF Kept
  <2>2. \A n \in 1..Len(lines) : entry'[lines[n]] = entry[lines[n]]
    BY <2>1 DEF Made, Grows
  <2> QED
    BY <1>1, <2>1, <2>2 DEF Kept
<1> QED
  BY <1>1 DEF Closes

LEMMA PrefixIsKept ==
    ASSUME NEW e, NEW lines, Kept(lines, e), NEW m \in 0..Len(lines)
    PROVE  Kept(SubSeq(lines, 1, m), e)
<1>1. Made(lines, e) /\ lines \in Log /\ Len(lines) \in Nat
  BY DEF Kept, Made, Log
<1>2. PICK l : l = SubSeq(lines, 1, m)
  OBVIOUS
<1>3. Made(l, e) /\ Len(l) = m /\ \A n \in 1..m : l[n] = lines[n]
  BY <1>1, <1>2, PrefixIsMade
<1>4. ASSUME NEW n \in 1..Len(l)
      PROVE  InPlace(l, n, e[l[n]])
  <2>1. n \in 1..Len(lines) /\ l[n] = lines[n] /\ (n > 1 => l[n - 1] = lines[n - 1])
    BY <1>1, <1>3
  <2>2. InPlace(lines, n, e[lines[n]])
    BY <2>1 DEF Kept
  <2>3. \A c : Begins(c, lines, n) => Begins(c, l, n)
    BY <1>3 DEF Begins
  <2> QED
    BY <2>1, <2>2, <2>3 DEF InPlace
<1> QED
  BY <1>2, <1>3, <1>4 DEF Kept

\* One entry more.
LEMMA AppendedIsKept ==
    ASSUME SignedTypes, NEW p \in Processes, AppendEntry(p), Kept(log[p], entry)
    PROVE  /\ Kept(log'[p], entry')
           /\ Closes(Len(entry) + 1, entry'[Len(entry) + 1], entry')
<1>1. PICK i \in Nat : i = Len(entry) + 1
  BY DEF SignedTypes, SignedTypeOK
<1>2. PICK l : l = log[p]
  OBVIOUS
<1>3. PICK c : c = Append(l, i)
  OBVIOUS
<1>4. PICK x : x = entry'[i]
  OBVIOUS
<1>5. /\ SignedTypeOK /\ Grows /\ Made(l, entry) /\ Kept(l, entry') /\ l \in Log /\ Len(l) \in Nat
      /\ i \in 1..Len(entry')
  <2>1. SignedTypeOK /\ Grows /\ Made(l, entry) /\ Kept(l, entry')
    <3>1. SignedTypeOK /\ Grows /\ Made(log[p], entry)
      BY AppendedForm DEF SignedTypes, AllMade
    <3> QED
      BY <1>2, <3>1, KeptStays
  <2>2. i \in 1..Len(entry')
    <3>1. Len(entry') = i /\ Len(entry) \in Nat
      <4>1. Len(entry') = Len(entry) + 1
        BY AppendedForm
      <4>2. Len(entry) \in Nat
        BY DEF SignedTypes, SignedTypeOK
      <4> QED
        BY <1>1, <4>1, <4>2
    <3> QED
      BY <1>1, <3>1
  <2> QED
    BY <2>1, <2>2 DEF Made, Log
<1>6. /\ x = [seq |-> NextSeq(p), prev |-> PrevHash(p), signer |-> key[p], chain |-> c]
      /\ log'[p] = c /\ key[p] # NoKey
  BY <1>1, <1>2, <1>3, <1>4, AppendedForm DEF AppendEntry
<1>7. /\ Made(c, entry') /\ Len(c) = Len(l) + 1 /\ c[Len(l) + 1] = i
      /\ \A n \in 1..Len(l) : c[n] = l[n]
  BY <1>3, <1>5, LineIsAdded
<1>8. ASSUME NEW n \in 1..Len(l)
      PROVE  InPlace(c, n, entry'[c[n]])
  <2>1. c[n] = l[n] /\ (n > 1 => c[n - 1] = l[n - 1])
    BY <1>5, <1>7
  <2>2. InPlace(l, n, entry'[l[n]])
    BY <1>5 DEF Kept
  <2>3. \A b : Begins(b, l, n) => Begins(b, c, n)
    BY <1>5, <1>7 DEF Begins
  <2> QED
    BY <2>1, <2>2, <2>3 DEF InPlace
<1>9. InPlace(c, Len(l) + 1, x)
  <2>1. Begins(x.chain, c, Len(l) + 1) /\ x.signer # NoKey
    BY <1>6, <1>7 DEF Begins
  <2>2. CASE l = << >>
    <3>1. Len(l) = 0 /\ x.seq = 0 /\ x.prev = Genesis
      BY <1>2, <1>6, <2>2 DEF NextSeq, PrevHash
    <3> QED
      BY <2>1, <3>1 DEF InPlace
  <2>3. CASE l # << >>
    <3>1. Len(l) \in 1..Len(l) /\ Last(l) = l[Len(l)] /\ Last(l) \in 1..Len(entry)
      BY <1>5, <2>3, LastIsMade
    <3>2. x.seq = entry[l[Len(l)]].seq + 1 /\ x.prev = l[Len(l)]
      BY <1>2, <1>6, <2>3, <3>1 DEF NextSeq, PrevHash
    <3>3. entry[l[Len(l)]].seq = Len(l) - 1
      BY <1>2, <3>1 DEF Kept, InPlace
    <3>4. c[Len(l)] = l[Len(l)] /\ l[Len(l)] < i
      BY <1>1, <1>5, <1>7, <3>1
    <3>5. Len(l) + 1 > 1 /\ (Len(l) + 1) - 1 = Len(l)
      BY <1>5, <3>1
    <3> QED
      BY <1>5, <1>7, <2>1, <3>2, <3>3, <3>4, <3>5 DEF InPlace
  <2> QED
    BY <2>2, <2>3
<1>10. Kept(c, entry')
  <2>1. \A n \in 1..Len(c) : n \in 1..Len(l) \/ n = Len(l) + 1
    BY <1>5, <1>7
  <2>2. entry'[c[Len(l) + 1]] = x
    BY <1>4, <1>7
  <2> QED
    BY <1>7, <1>8, <1>9, <2>1, <2>2 DEF Kept
<1> QED
  BY <1>1, <1>4, <1>5, <1>6, <1>7, <1>10 DEF Closes

LEMMA KeptStarts ==
    ASSUME SignedInit
    PROVE  KeptInv
<1>1. SignedTypes
  BY SignedStarts
<1>2. /\ \A p \in Processes : log[p] = << >> /\ loading[p].lines = << >>
      /\ file = << >> /\ Len(entry) = 0
  BY DEF SignedInit, NotLoading
<1> QED
  BY <1>1, <1>2, EmptyIsKept DEF KeptInv

LEMMA KeptStep ==
    ASSUME KeptInv, [SignedNext]_signed
    PROVE  KeptInv'
<1>0. SignedTypes /\ SignedTypeOK /\ SignedTypes'
  BY SignedTyped DEF KeptInv, SignedTypes
<1> SUFFICES ASSUME ~misled'
             PROVE  /\ \A p \in Processes : Kept(log'[p], entry') /\ Kept(loading'[p].lines, entry')
                    /\ edits' = 0 => Kept(file', entry')
                    /\ \A i \in 1..Len(entry') : Closes(i, entry'[i], entry')
  BY <1>0 DEF KeptInv
<1>a. misled => misled'
  BY DEF SignedNext, signed, ResolveKey, MakeKey, AppendEntry, SaveLog, Crash, ReadFile,
         Replace, EditFile, ForgeLine
<1>b. /\ \A p \in Processes : Kept(log[p], entry) /\ Kept(loading[p].lines, entry)
      /\ edits = 0 => Kept(file, entry)
      /\ \A i \in 1..Len(entry) : Closes(i, entry[i], entry)
  BY <1>a DEF KeptInv
<1>c. Kept(<< >>, entry)
  BY EmptyIsKept
<1>1. CASE UNCHANGED <<entry, log, loading, file, edits>>
  BY <1>1, <1>b
<1>2. ASSUME NEW p \in Processes, AppendEntry(p)
      PROVE  /\ \A q \in Processes : Kept(log'[q], entry') /\ Kept(loading'[q].lines, entry')
             /\ edits' = 0 => Kept(file', entry')
             /\ \A i \in 1..Len(entry') : Closes(i, entry'[i], entry')
  <2>1. /\ Grows /\ Len(entry') = Len(entry) + 1
        /\ \A q \in Processes \ {p} : log'[q] = log[q]
        /\ UNCHANGED <<loading, file, edits>>
    BY <1>0, <1>2, AppendedForm DEF AppendEntry, disk
  <2>2. Kept(log'[p], entry') /\ Closes(Len(entry) + 1, entry'[Len(entry) + 1], entry')
    BY <1>0, <1>2, <1>b, AppendedIsKept
  <2>3. ASSUME NEW i \in 1..Len(entry')
        PROVE  Closes(i, entry'[i], entry')
    <3>1. CASE i = Len(entry) + 1
      BY <2>2, <3>1
    <3>2. CASE i # Len(entry) + 1
      <4>1. i \in 1..Len(entry) /\ entry'[i] = entry[i]
        BY <1>0, <2>1, <3>2 DEF Grows, SignedTypeOK
      <4> QED
        BY <1>0, <1>b, <2>1, <4>1, KeptStays
    <3> QED
      BY <3>1, <3>2
  <2> QED
    BY <1>0, <1>b, <2>1, <2>2, <2>3, KeptStays
<1>3. ASSUME NEW p \in Processes, SaveLog(p)
      PROVE  /\ \A q \in Processes : Kept(log'[q], entry') /\ Kept(loading'[q].lines, entry')
             /\ edits' = 0 => Kept(file', entry')
             /\ \A i \in 1..Len(entry') : Closes(i, entry'[i], entry')
  BY <1>3, <1>b DEF SaveLog
<1>4. ASSUME NEW p \in Processes, Crash(p)
      PROVE  /\ \A q \in Processes : Kept(log'[q], entry') /\ Kept(loading'[q].lines, entry')
             /\ edits' = 0 => Kept(file', entry')
             /\ \A i \in 1..Len(entry') : Closes(i, entry'[i], entry')
  <2>1. edits = 0 => Kept(file', entry)
    BY <1>4, <1>b, PrefixIsKept DEF Crash, Prefixes, disk
  <2>2. \A q \in Processes : Kept(log'[q], entry) /\ Kept(loading'[q].lines, entry)
    BY <1>0, <1>4, <1>b, <1>c DEF Crash, NotLoading, SignedTypeOK
  <2> QED
    BY <1>4, <1>b, <2>1, <2>2 DEF Crash
<1>5. ASSUME NEW p \in Processes, ReadFile(p)
      PROVE  /\ \A q \in Processes : Kept(log'[q], entry') /\ Kept(loading'[q].lines, entry')
             /\ edits' = 0 => Kept(file', entry')
             /\ \A i \in 1..Len(entry') : Closes(i, entry'[i], entry')
  <2>1. edits = 0
    <3>1. ~(edits > 0)
      BY <1>5, Zenon DEF ReadFile
    <3>2. edits \in 0..MaxEdits
      BY <1>0 DEF SignedTypeOK
    <3> QED
      BY <3>1, <3>2, SignedLogAssumption
  <2>2. \A q \in Processes : Kept(loading'[q].lines, entry)
    BY <1>0, <1>5, <1>b, <2>1 DEF ReadFile, SignedTypeOK
  <2> QED
    BY <1>5, <1>b, <2>2 DEF ReadFile, disk
<1>6. ASSUME NEW p \in Processes, Replace(p)
      PROVE  /\ \A q \in Processes : Kept(log'[q], entry') /\ Kept(loading'[q].lines, entry')
             /\ edits' = 0 => Kept(file', entry')
             /\ \A i \in 1..Len(entry') : Closes(i, entry'[i], entry')
  <2>1. \A q \in Processes : Kept(log'[q], entry) /\ Kept(loading'[q].lines, entry)
    BY <1>0, <1>6, <1>b, <1>c DEF Replace, NotLoading, SignedTypeOK
  <2> QED
    BY <1>6, <1>b, <2>1 DEF Replace, disk
<1>7. CASE EditFile
  <2>1. edits' # 0
    BY <1>0, <1>7 DEF EditFile, SignedTypeOK
  <2> QED
    BY <1>7, <1>b, <2>1 DEF EditFile
\* A forged line is not signed.
<1>8. CASE ForgeLine
  <2>1. /\ Grows /\ Len(entry') = Len(entry) + 1 /\ entry'[Len(entry) + 1].signer = NoKey
        /\ UNCHANGED <<log, loading>>
    BY <1>0, <1>8, ForgedForm DEF ForgeLine
  <2>a. edits' # 0
    BY <1>0, <1>8 DEF ForgeLine, SignedTypeOK
  <2>2. ASSUME NEW i \in 1..Len(entry')
        PROVE  Closes(i, entry'[i], entry')
    <3>1. CASE i = Len(entry) + 1
      BY <2>1, <3>1 DEF Closes
    <3>2. CASE i # Len(entry) + 1
      <4>1. i \in 1..Len(entry) /\ entry'[i] = entry[i]
        BY <1>0, <2>1, <3>2 DEF Grows, SignedTypeOK
      <4> QED
        BY <1>0, <1>b, <2>1, <4>1, KeptStays
    <3> QED
      BY <3>1, <3>2
  <2> QED
    BY <1>0, <1>b, <2>1, <2>2, <2>a, KeptStays
<1>9. \/ UNCHANGED <<entry, log, loading, file, edits>>
      \/ EditFile \/ ForgeLine
      \/ \E p \in Processes : AppendEntry(p) \/ SaveLog(p) \/ Crash(p) \/ ReadFile(p) \/ Replace(p)
  BY DEF SignedNext, signed, disk, ResolveKey, MakeKey
<1> QED
  BY <1>1, <1>2, <1>3, <1>4, <1>5, <1>6, <1>7, <1>8, <1>9

\* However the processes append, save, load and crash, and whoever edits the file: until an
\* edited file is loaded, each log has in every line the number of the line and the hash of the
\* one before, so has the file until it is edited, and so had the log that an entry was signed in.
THEOREM KeptInvariant == SignedSpec => []KeptInv
<1>1. SignedInit => KeptInv
  BY KeptStarts
<1>2. KeptInv /\ [SignedNext]_signed => KeptInv'
  BY KeptStep
<1> QED
  BY <1>1, <1>2, PTL DEF SignedSpec

----------------------------------------------------------------------------
(* What verify says of a log.                                              *)

LEMMA KeptVerifies ==
    ASSUME NEW k, OneSigner(k), entry \in Seq(Entry), NEW lines, Kept(lines, entry)
    PROVE  Verifies(lines, k)
<1>1. lines \in Log /\ DOMAIN lines = 1..Len(lines) /\ Len(lines) \in Nat
  BY DEF Kept, Made, Log
<1>2. \A n \in 1..Len(lines) : InPlace(lines, n, entry[lines[n]]) /\ lines[n] \in DOMAIN entry
  BY DEF Kept, Made
<1>3. SignaturesValid(lines, k)
  BY <1>1, <1>2 DEF SignaturesValid, OneSigner
<1>4. ChainValid(lines) /\ SequenceValid(lines)
  BY <1>1, <1>2 DEF ChainValid, SequenceValid, InPlace
<1>5. TimesValid(lines)
  BY <1>1, <1>2 DEF TimesValid, InPlace, Log, Ids
<1> QED
  BY <1>3, <1>4, <1>5 DEF Verifies

\* verify accepts what append, save and load made: while nobody edits the file and the entries
\* have one signer, every log and the file verify with its key, for any number of processes,
\* whatever a crash interrupted, a save overwrote or a load dropped.
THEOREM UntouchedLogsVerify == SignedSpec => []UntouchedVerifies
<1>1. ASSUME KeptInv, NEW k \in Processes, OneSigner(k)
      PROVE  /\ edits = 0 => Verifies(file, k)
             /\ ~misled => \A p \in Processes : Verifies(log[p], k)
  <2>1. entry \in Seq(Entry) /\ (misled => edits > 0) /\ edits \in Nat
    BY <1>1 DEF KeptInv, SignedTypes, SignedTypeOK
  <2>2. edits = 0 => Kept(file, entry)
    BY <1>1, <2>1 DEF KeptInv
  <2>3. ~misled => \A p \in Processes : Kept(log[p], entry)
    BY <1>1 DEF KeptInv
  <2> QED
    BY <1>1, <2>1, <2>2, <2>3, KeptVerifies
<1>2. KeptInv => UntouchedVerifies
  BY <1>1 DEF UntouchedVerifies, VerifyFile
<1> QED
  BY <1>2, KeptInvariant, PTL

\* A file whose lines follow each other is, from its last line to its first, the log
\* that the last line ended.
LEMMA VerifiedIsKept ==
    ASSUME KeptInv, ~misled, NEW k \in Processes, NEW lines, Made(lines, entry), lines # << >>,
           Verifies(lines, k)
    PROVE  lines = entry[Last(lines)].chain
<1>1. PICK L \in Nat : L = Len(lines)
  BY DEF Made, Log
<1>2. /\ lines \in Log /\ L >= 1 /\ DOMAIN lines = 1..L /\ Last(lines) = lines[L]
      /\ \A n \in 1..L : lines[n] \in 1..Len(entry) /\ lines[n] \in DOMAIN entry
  <2>1. SignedTypeOK /\ DOMAIN entry = 1..Len(entry)
    BY DEF KeptInv, SignedTypes, SignedTypeOK
  <2>2. lines \in Log /\ DOMAIN lines = 1..L /\ \A n \in 1..L : lines[n] \in 1..Len(entry)
    BY <1>1 DEF Made, Log
  <2>3. L >= 1 /\ Last(lines) = lines[L]
    BY <1>1, <2>1, LastIsMade
  <2> QED
    BY <2>1, <2>2, <2>3
<1>3. ASSUME NEW n \in 1..L
      PROVE  /\ entry[lines[n]].signer = k /\ entry[lines[n]].seq = n - 1
             /\ entry[lines[n]].prev = IF n = 1 THEN Genesis ELSE lines[n - 1]
  BY <1>2 DEF Verifies, SignaturesValid, SequenceValid, ChainValid
<1>4. PICK c : c = entry[lines[L]].chain
  OBVIOUS
<1>5. k # NoKey
  BY SignedLogAssumption
<1>6. Closes(lines[L], entry[lines[L]], entry)
  BY <1>2 DEF KeptInv
<1>7. Kept(c, entry) /\ Len(c) > 0 /\ c[Len(c)] = lines[L] /\ c \in Log /\ Len(c) \in Nat
  BY <1>2, <1>3, <1>4, <1>5, <1>6 DEF Closes, Kept, Made, Log
<1>8. ASSUME NEW n \in 1..Len(c)
      PROVE  /\ entry[c[n]].seq = n - 1
             /\ entry[c[n]].prev = IF n = 1 THEN Genesis ELSE c[n - 1]
  BY <1>7 DEF Kept, InPlace
<1>9. Len(c) = L
  <2>1. entry[lines[L]].seq = L - 1 /\ entry[lines[L]].seq = Len(c) - 1
    BY <1>2, <1>3, <1>7, <1>8
  <2> QED
    BY <1>7, <2>1
\* The last place at which they differ would not be the last.
<1>10. \A n \in 1..L : c[n] = lines[n]
  <2> DEFINE T == {d \in 0..(L - 1) : c[L - d] # lines[L - d]}
  <2>1. SUFFICES ASSUME T # {}
                 PROVE  FALSE
    <3>1. \A n \in 1..L : L - n \in 0..(L - 1) /\ L - (L - n) = n
      OBVIOUS
    <3> QED
      BY <2>1, <3>1
  <2>a. T \subseteq Nat
    OBVIOUS
  <2>2. PICK d \in T : \A y \in T : d <= y
    BY <2>1, <2>a, LeastNumber
  <2>3. d \in 0..(L - 1) /\ c[L - d] # lines[L - d]
    BY <2>2
  <2>4. d # 0
    BY <1>7, <1>9, <2>3
  <2>5. d - 1 \in 0..(L - 1) /\ d - 1 \notin T
    BY <2>2, <2>3, <2>4
  <2>6. c[L - (d - 1)] = lines[L - (d - 1)]
    BY <2>5
  <2>7. PICK n \in 2..L : n = L - (d - 1) /\ n - 1 = L - d
    BY <2>3, <2>4
  <2>8. c[n] = lines[n] /\ n \in 1..L /\ n # 1
    BY <2>6, <2>7
  <2>9. c[n - 1] = lines[n - 1]
    <3> HIDE DEF T
    <3>1. entry[lines[n]].prev = lines[n - 1]
      BY <1>3, <2>8
    <3>2. n \in 1..Len(c)
      BY <1>9, <2>8
    <3>3. entry[c[n]].prev = c[n - 1]
      BY <1>8, <2>8, <3>2
    <3> QED
      BY <2>8, <3>1, <3>3, Zenon
  <2> QED
    BY <2>3, <2>7, <2>9
<1>11. c = lines
  BY <1>1, <1>2, <1>7, <1>9, <1>10, SeqEqual DEF Log
<1> QED
  BY <1>2, <1>4, <1>11

LEMMA PrefixVerifies ==
    ASSUME NEW k, NEW lines \in Log, Verifies(lines, k), NEW m \in 0..Len(lines)
    PROVE  Verifies(SubSeq(lines, 1, m), k)
<1>1. PICK l : l = SubSeq(lines, 1, m)
  OBVIOUS
<1>2. /\ Len(lines) \in Nat /\ DOMAIN lines = 1..Len(lines) /\ DOMAIN l = 1..m /\ Len(l) = m
      /\ \A n \in 1..m : l[n] = lines[n] /\ n \in DOMAIN lines
  BY <1>1 DEF Log
<1>3. SignaturesValid(l, k)
  BY <1>2 DEF Verifies, SignaturesValid
<1>4. ChainValid(l) /\ SequenceValid(l)
  BY <1>2 DEF Verifies, ChainValid, SequenceValid
<1>5. TimesValid(l)
  BY <1>2 DEF Verifies, TimesValid
<1> QED
  BY <1>1, <1>3, <1>4, <1>5 DEF Verifies

\* Until an edited file is loaded, a file that verifies with the key of a process is the whole
\* log that the last of its lines was signed in.  The lines are found equal from the last to
\* the first, each hash naming the line before it: a first difference would have none.  Without
\* its last lines it verifies as well.
THEOREM EditsAreEvident == SignedSpec => []TamperEvident
<1>1. ASSUME KeptInv, NEW k \in Processes, ~misled, Verifies(file, k), file # << >>
      PROVE  file = entry[Last(file)].chain
  <2>1. Made(file, entry)
    BY <1>1 DEF KeptInv, SignedTypes, AllMade
  <2> QED
    BY <1>1, <2>1, VerifiedIsKept
<1>2. ASSUME KeptInv, NEW k \in Processes, Verifies(file, k), NEW lines \in Prefixes(file)
      PROVE  Verifies(lines, k)
  <2>1. PICK m \in 0..Len(file) : lines = SubSeq(file, 1, m)
    BY <1>2 DEF Prefixes
  <2>2. file \in Log
    BY <1>2 DEF KeptInv, SignedTypes, SignedTypeOK
  <2>3. Verifies(SubSeq(file, 1, m), k)
    BY <1>2, <2>2, PrefixVerifies
  <2> QED
    BY <2>1, <2>3
<1>3. ASSUME NEW k \in Processes, VerifyFile(k) = "valid"
      PROVE  Verifies(file, k)
  BY <1>3 DEF VerifyFile
<1>4. KeptInv => TamperEvident
  BY <1>1, <1>2, <1>3 DEF TamperEvident
<1> QED
  BY <1>4, KeptInvariant, PTL

----------------------------------------------------------------------------
(* ActivityLog.                                                            *)

Found(t, e, d) == e \in plain[t][d] \/ (packed[t][d].form = "whole" /\ e \in packed[t][d].events)

\* Where an event is: in the file of its day, in one form or the other.
InFile(t, e, d) ==
    /\ d <= today
    /\ t = "alerts" => e \in plain[t][d]
    /\ ~Aged(d, Retention) => Found(t, e, d)

InItsFile == \A t \in Tiers, e \in Events, d \in Days : day[t][e] = d => InFile(t, e, d)

\* What the rotation holds between its steps: it works on a past day of a rotated tier,
\* deletes a .gz file of an expired day only, and removes a plain file only when the .gz
\* file is whole and has all of it.  Beside a cut one the plain file stays.
RotationIsSafe ==
    /\ \A d \in Days : packed["alerts"][d].form = "none"
    /\ \A t \in Tiers, d \in Days :
          packed[t][d].form = "cut" /\ ~Aged(d, Retention) => plain[t][d] # {}
    /\ rotation.pc # "idle" => rotation.tier \in Rotated /\ Aged(rotation.day, CompressAfter)
    /\ rotation.pc = "writing" =>
          /\ packed[rotation.tier][rotation.day].form \in {"empty", "cut"}
          /\ plain[rotation.tier][rotation.day] # {}
    /\ rotation.pc = "written" =>
          /\ packed[rotation.tier][rotation.day].form = "whole"
          /\ plain[rotation.tier][rotation.day] \subseteq packed[rotation.tier][rotation.day].events
    /\ rotation.pc = "deleting" => Aged(rotation.day, Retention)

ActivityInv == ActivityTypeOK /\ InItsFile /\ RotationIsSafe

LEMMA ActivityStarts ==
    ASSUME ActivityInit
    PROVE  ActivityInv
<1>1. ActivityTypeOK
  BY ActivityAssumption
     DEF ActivityInit, ActivityTypeOK, Days, Tiers, Packed, NoFile, Rotation, Resting
<1>2. InItsFile /\ RotationIsSafe
  <2>1. \A t \in Tiers, d \in Days : packed[t][d].form = "none"
    BY DEF ActivityInit, NoFile
  <2>2. "alerts" \in Tiers
    BY DEF Tiers
  <2> QED
    BY <2>1, <2>2 DEF ActivityInit, InItsFile, RotationIsSafe, Days, Resting, Unwritten
<1> QED
  BY <1>1, <1>2 DEF ActivityInv

\* A file of a tier is replaced.
LEMMA FileReplaced ==
    ASSUME NEW S, NEW f \in [Tiers -> [Days -> S]], NEW t \in Tiers, NEW d \in Days, NEW new \in S
    PROVE  /\ [f EXCEPT ![t][d] = new] \in [Tiers -> [Days -> S]]
           /\ \A u \in Tiers, c \in Days :
                 [f EXCEPT ![t][d] = new][u][c] = IF u = t /\ c = d THEN new ELSE f[u][c]
<1>1. [f[t] EXCEPT ![d] = new] \in [Days -> S]
  OBVIOUS
<1>2. [f EXCEPT ![t][d] = new] = [f EXCEPT ![t] = [f[t] EXCEPT ![d] = new]]
  OBVIOUS
<1> QED
  BY <1>1, <1>2

LEMMA DayReplaced ==
    ASSUME NEW t \in Tiers, NEW e \in Events, NEW d \in Days,
           day \in [Tiers -> [Events -> Days \cup {Unwritten}]]
    PROVE  /\ [day EXCEPT ![t][e] = d] \in [Tiers -> [Events -> Days \cup {Unwritten}]]
           /\ \A u \in Tiers, c \in Events :
                 [day EXCEPT ![t][e] = d][u][c] = IF u = t /\ c = e THEN d ELSE day[u][c]
<1>1. [day[t] EXCEPT ![e] = d] \in [Events -> Days \cup {Unwritten}]
  OBVIOUS
<1>2. [day EXCEPT ![t][e] = d] = [day EXCEPT ![t] = [day[t] EXCEPT ![e] = d]]
  OBVIOUS
<1> QED
  BY <1>1, <1>2

\* What a step does to the files, file by file.
PlainIs(t, d, S) ==
    /\ plain' \in [Tiers -> [Days -> SUBSET Events]]
    /\ \A u \in Tiers, c \in Days : plain'[u][c] = IF u = t /\ c = d THEN S ELSE plain[u][c]
PackedIs(t, d, f) ==
    /\ packed' \in [Tiers -> [Days -> Packed]]
    /\ \A u \in Tiers, c \in Days : packed'[u][c] = IF u = t /\ c = d THEN f ELSE packed[u][c]
DayIs(t, e, d) ==
    /\ day' \in [Tiers -> [Events -> Days \cup {Unwritten}]]
    /\ \A u \in Tiers, c \in Events : day'[u][c] = IF u = t /\ c = e THEN d ELSE day[u][c]

Wrote(t, e) ==
    /\ PlainIs(t, today, plain[t][today] \cup {e}) /\ DayIs(t, e, today)
    /\ stage' \in [Events -> {"new", "local", "global", "done", "lost"}]
    /\ UNCHANGED <<today, packed, rotation>>

LEMMA WriteForm ==
    ASSUME ActivityTypeOK, NEW e \in Events, WriteLocal(e) \/ WriteGlobal(e) \/ WriteAlert(e)
    PROVE  \E t \in Tiers : Wrote(t, e)
<1>1. ASSUME NEW t \in Tiers, NEW from,
             NEW to \in {"new", "local", "global", "done", "lost"}, Write(e, t, from, to)
      PROVE  Wrote(t, e)
  <2>1. plain[t][today] \cup {e} \in SUBSET Events
    BY DEF ActivityTypeOK
  <2>2. PlainIs(t, today, plain[t][today] \cup {e})
    BY <1>1, <2>1, FileReplaced DEF ActivityTypeOK, Write, PlainIs
  <2>3. DayIs(t, e, today)
    BY <1>1, DayReplaced DEF ActivityTypeOK, Write, DayIs
  <2> QED
    BY <1>1, <2>2, <2>3 DEF ActivityTypeOK, Write, Wrote
<1>2. CASE WriteLocal(e)
  BY <1>1, <1>2 DEF WriteLocal, Tiers
<1>3. CASE WriteGlobal(e)
  BY <1>1, <1>3 DEF WriteGlobal, Tiers
<1>4. CASE WriteAlert(e)
  BY <1>1, <1>4 DEF WriteAlert, Tiers
<1> QED
  BY <1>2, <1>3, <1>4

LEMMA DeleteForm ==
    ASSUME ActivityTypeOK, NEW t \in Tiers, NEW d \in Days, DeletePlain(t, d)
    PROVE  PlainIs(t, d, {})
  BY FileReplaced DEF ActivityTypeOK, DeletePlain, PlainIs

LEMMA FormReplaced ==
    ASSUME ActivityTypeOK, NEW t \in Tiers, NEW d \in Days,
           NEW form \in {"none", "empty", "cut", "whole"},
           packed' = [packed EXCEPT ![t][d].form = form]
    PROVE  PackedIs(t, d, [packed[t][d] EXCEPT !.form = form])
<1>1. packed \in [Tiers -> [Days -> Packed]] /\ packed[t][d] \in Packed
  BY DEF ActivityTypeOK
<1>2. PICK f : f = [packed[t][d] EXCEPT !.form = form]
  OBVIOUS
<1>3. f \in Packed
  BY <1>1, <1>2 DEF Packed
<1>4. packed' = [packed EXCEPT ![t][d] = f]
  BY <1>1, <1>2
<1>5. PICK g : g = packed
  OBVIOUS
<1>6. g \in [Tiers -> [Days -> Packed]]
  BY <1>1, <1>5
<1>7. /\ [g EXCEPT ![t][d] = f] \in [Tiers -> [Days -> Packed]]
      /\ \A u \in Tiers, c \in Days :
            [g EXCEPT ![t][d] = f][u][c] = IF u = t /\ c = d THEN f ELSE g[u][c]
  BY <1>3, <1>6, FileReplaced
<1>8. PackedIs(t, d, f)
  BY <1>4, <1>5, <1>7 DEF PackedIs
<1> QED
  BY <1>2, <1>8

LEMMA OpenForm ==
    ASSUME ActivityTypeOK, NEW t \in Tiers, NEW d \in Days, OpenPacked(t, d)
    PROVE  PackedIs(t, d, [packed[t][d] EXCEPT !.form = "empty"])
  BY FormReplaced DEF OpenPacked

Full(S) == [form |-> "whole", events |-> S]

LEMMA RotationForms ==
    ASSUME ActivityTypeOK
    PROVE  LET t == rotation.tier
               d == rotation.day IN
           /\ t \in Tiers /\ d \in Days
           /\ DeletePacked => PackedIs(t, d, NoFile)
           /\ FlushPacked => PackedIs(t, d, [packed[t][d] EXCEPT !.form = "cut"])
           /\ FillPacked => PackedIs(t, d, Full(plain[t][d]))
           /\ RemovePlain => PlainIs(t, d, {})
<1> DEFINE t == rotation.tier
           d == rotation.day
<1>1. t \in Tiers /\ d \in Days
  BY DEF ActivityTypeOK, Rotation
<1>2. NoFile \in Packed /\ Full(plain[t][d]) \in Packed
  BY <1>1 DEF ActivityTypeOK, NoFile, Packed, Full
<1>3. DeletePacked => PackedIs(t, d, NoFile)
  BY <1>1, <1>2, FileReplaced DEF ActivityTypeOK, DeletePacked, PackedIs
<1>4. FillPacked => PackedIs(t, d, Full(plain[t][d]))
  BY <1>1, <1>2, FileReplaced DEF ActivityTypeOK, FillPacked, PackedIs, Full
<1>5. RemovePlain => PlainIs(t, d, {})
  BY <1>1, FileReplaced DEF ActivityTypeOK, RemovePlain, PlainIs
<1>6. FlushPacked => PackedIs(t, d, [packed[t][d] EXCEPT !.form = "cut"])
  BY <1>1, FormReplaced DEF FlushPacked
<1> QED
  BY <1>1, <1>3, <1>4, <1>5, <1>6

LEMMA ActivityTyped ==
    ASSUME ActivityTypeOK, [ActivityNext]_activity
    PROVE  ActivityTypeOK'
<1> USE ActivityAssumption DEF ActivityTypeOK
<1>1. CASE NextDay
  BY <1>1 DEF NextDay, Days
<1>2. ASSUME NEW e \in Events, WriteLocal(e) \/ WriteGlobal(e) \/ WriteAlert(e)
      PROVE  ActivityTypeOK'
  BY <1>2, WriteForm DEF Wrote, PlainIs, DayIs
<1>3. ASSUME NEW e \in Events, StopRecording(e)
      PROVE  ActivityTypeOK'
  BY <1>3 DEF StopRecording
<1>4. ASSUME NEW t \in Tiers, NEW d \in Days, DeletePlain(t, d)
      PROVE  ActivityTypeOK'
  BY <1>4, DeleteForm DEF DeletePlain, PlainIs, Days, Rotation, Resting, Tiers
<1>5. ASSUME NEW t \in Tiers, NEW d \in Days, OpenPacked(t, d)
      PROVE  ActivityTypeOK'
  BY <1>5, OpenForm DEF OpenPacked, PackedIs, Rotation
<1>6. CASE DeletePacked
  BY <1>6, RotationForms DEF DeletePacked, PackedIs, Days, Rotation, Resting, Tiers
<1>7. CASE FillPacked
  BY <1>7, RotationForms DEF FillPacked, PackedIs, Rotation
<1>8. CASE RemovePlain
  BY <1>8, RotationForms DEF RemovePlain, PlainIs, Days, Rotation, Resting, Tiers
<1>9. CASE StopRotating
  BY <1>9 DEF StopRotating, Days, Rotation, Resting, Tiers
<1>10. CASE FlushPacked
  BY <1>10, RotationForms DEF FlushPacked, PackedIs
<1>11. CASE UNCHANGED activity
  BY <1>11 DEF activity
<1> QED
  BY <1>1, <1>2, <1>3, <1>4, <1>5, <1>6, <1>7, <1>8, <1>9, <1>10, <1>11 DEF ActivityNext

LEMMA RotationStaysSafe ==
    ASSUME ActivityInv, [ActivityNext]_activity
    PROVE  RotationIsSafe'
<1> DEFINE t == rotation.tier
           d == rotation.day
<1>0. /\ t \in Tiers /\ d \in Days /\ today \in Days /\ ActivityTypeOK
      /\ LastDay \in Nat /\ CompressAfter \in Nat /\ Retention \in Nat
      /\ RotationIsSafe /\ rotation \in Rotation
  BY ActivityAssumption DEF ActivityInv, ActivityTypeOK, Rotation
\* Time only makes a day older.
<1>1. CASE NextDay
  BY <1>0, <1>1 DEF NextDay, RotationIsSafe, Aged, Days
\* What is written is of today, and the rotation is on a past day.
<1>2. ASSUME NEW e \in Events, WriteLocal(e) \/ WriteGlobal(e) \/ WriteAlert(e)
      PROVE  RotationIsSafe'
  <2>1. PICK w \in Tiers : Wrote(w, e)
    BY <1>0, <1>2, WriteForm
  <2>2. rotation.pc # "idle" => d # today
    BY <1>0 DEF RotationIsSafe, Aged, Days
  <2>3. rotation.pc # "idle" => plain'[t][d] = plain[t][d]
    BY <1>0, <2>1, <2>2 DEF Wrote, PlainIs
  <2> QED
    BY <1>0, <2>1, <2>3 DEF RotationIsSafe, Wrote, PlainIs, Aged
<1>3. ASSUME NEW e \in Events, StopRecording(e)
      PROVE  RotationIsSafe'
  BY <1>0, <1>3 DEF StopRecording, RotationIsSafe, Aged
<1>4. ASSUME NEW u \in Tiers, NEW c \in Days, DeletePlain(u, c)
      PROVE  RotationIsSafe'
  <2>1. Aged(c, Retention) => Aged(c, CompressAfter)
    BY <1>0, ActivityAssumption DEF Aged, Days
  <2> QED
    BY <1>0, <1>4, <2>1 DEF DeletePlain, Rotate, RotationIsSafe, Aged, Resting
<1>5. ASSUME NEW u \in Tiers, NEW c \in Days, OpenPacked(u, c)
      PROVE  RotationIsSafe'
  <2>1. packed[u][c] \in Packed /\ u # "alerts"
    BY <1>0, <1>5 DEF ActivityTypeOK, OpenPacked, Rotate, Rotated
  <2>2. [packed[u][c] EXCEPT !.form = "empty"].form = "empty"
    BY <2>1 DEF Packed
  <2> QED
    <3>1. PackedIs(u, c, [packed[u][c] EXCEPT !.form = "empty"])
      BY <1>0, <1>5, OpenForm
    <3>2. \A v \in Tiers, b \in Days : ~(v = u /\ b = c) => packed'[v][b] = packed[v][b]
      BY <3>1 DEF PackedIs
    <3>3. packed'[u][c].form = "empty" /\ "alerts" \in Tiers
      BY <2>2, <3>1 DEF PackedIs, Tiers
    <3>4. /\ rotation' = [pc |-> "writing", tier |-> u, day |-> c] /\ UNCHANGED <<plain, today>>
          /\ u \in Rotated /\ plain[u][c] # {} /\ Aged(c, CompressAfter)
      BY <1>5 DEF OpenPacked, Rotate
    <3> QED
      BY <1>0, <2>1, <3>2, <3>3, <3>4 DEF RotationIsSafe, Aged
<1>6. CASE DeletePacked
  BY <1>0, <1>6, RotationForms DEF DeletePacked, RotationIsSafe, PackedIs, NoFile, Resting, Aged
<1>7. CASE FillPacked
  BY <1>0, <1>7, RotationForms DEF FillPacked, RotationIsSafe, PackedIs, Full, Rotation, Rotated, Aged
<1>8. CASE RemovePlain
  BY <1>0, <1>8, RotationForms DEF RemovePlain, PlainIs, RotationIsSafe, Resting, Aged
<1>9. CASE StopRotating
  BY <1>0, <1>9 DEF StopRotating, RotationIsSafe, Resting, Aged
\* The plain file that is being compressed is there.
<1>10. CASE FlushPacked
  <2>1. packed[t][d] \in Packed /\ t # "alerts" /\ plain[t][d] # {}
    BY <1>0, <1>10 DEF ActivityTypeOK, FlushPacked, RotationIsSafe, Rotated
  <2>2. [packed[t][d] EXCEPT !.form = "cut"].form = "cut"
    BY <2>1 DEF Packed
  <2> QED
    BY <1>0, <1>10, <2>1, <2>2, RotationForms DEF FlushPacked, PackedIs, RotationIsSafe, Aged
<1>11. CASE UNCHANGED activity
  BY <1>0, <1>11 DEF activity, RotationIsSafe, Aged
<1> QED
  BY ActivityAssumption, <1>1, <1>2, <1>3, <1>4, <1>5, <1>6, <1>7, <1>8, <1>9, <1>10, <1>11
     DEF ActivityInv, ActivityNext

LEMMA EventsStay ==
    ASSUME ActivityInv, [ActivityNext]_activity
    PROVE  InItsFile'
<1> SUFFICES ASSUME NEW t \in Tiers, NEW e \in Events, NEW d \in Days, day'[t][e] = d
             PROVE  InFile(t, e, d)'
  BY DEF InItsFile
<1>0. /\ rotation.tier \in Tiers /\ rotation.day \in Days /\ today \in Days
      /\ LastDay \in Nat /\ CompressAfter \in Nat /\ Retention \in Nat
      /\ ActivityTypeOK /\ RotationIsSafe
  BY ActivityAssumption DEF ActivityInv, ActivityTypeOK, Rotation
<1>a. day[t][e] = d => InFile(t, e, d)
  BY DEF ActivityInv, InItsFile
<1>1. CASE NextDay
  BY <1>0, <1>1, <1>a DEF NextDay, InFile, Found, Aged, Days
<1>2. ASSUME NEW n \in Events, WriteLocal(n) \/ WriteGlobal(n) \/ WriteAlert(n)
      PROVE  InFile(t, e, d)'
  <2>1. PICK w \in Tiers : Wrote(w, n)
    BY <1>0, <1>2, WriteForm
  <2>2. CASE w = t /\ n = e
    BY <1>0, <2>1, <2>2 DEF Wrote, PlainIs, DayIs, InFile, Found, Days
  <2>3. CASE ~(w = t /\ n = e)
    BY <1>0, <1>a, <2>1, <2>3 DEF Wrote, PlainIs, DayIs, InFile, Found, Aged
  <2> QED
    BY <2>2, <2>3
<1>3. ASSUME NEW n \in Events, StopRecording(n)
      PROVE  InFile(t, e, d)'
  BY <1>3, <1>a DEF StopRecording, InFile, Found, Aged
\* An expired day, of a tier that is not the alerts'.
<1>4. ASSUME NEW u \in Tiers, NEW c \in Days, DeletePlain(u, c)
      PROVE  InFile(t, e, d)'
  BY <1>0, <1>4, <1>a, DeleteForm
     DEF DeletePlain, Rotate, Rotated, PlainIs, InFile, Found, Aged
\* A .gz file is opened where there was none: the plain file has the events.
<1>5. ASSUME NEW u \in Tiers, NEW c \in Days, OpenPacked(u, c)
      PROVE  InFile(t, e, d)'
  BY <1>0, <1>5, <1>a, OpenForm DEF OpenPacked, RotationIsSafe, PackedIs, InFile, Found, Aged
<1>6. CASE DeletePacked
  BY <1>0, <1>6, <1>a, RotationForms
     DEF DeletePacked, RotationIsSafe, PackedIs, InFile, Found, Aged
<1>7. CASE FillPacked
  BY <1>0, <1>7, <1>a, RotationForms
     DEF FillPacked, RotationIsSafe, PackedIs, Full, InFile, Found, Aged
<1>8. CASE RemovePlain
  BY <1>0, <1>8, <1>a, RotationForms
     DEF RemovePlain, RotationIsSafe, Rotated, PlainIs, InFile, Found, Aged
<1>9. CASE StopRotating
  BY <1>9, <1>a DEF StopRotating, InFile, Found, Aged
<1>10. CASE FlushPacked
  BY <1>0, <1>10, <1>a, RotationForms DEF FlushPacked, RotationIsSafe, PackedIs, InFile, Found, Aged
<1>11. CASE UNCHANGED activity
  BY <1>11, <1>a DEF activity, InFile, Found, Aged
<1> QED
  BY ActivityAssumption, <1>1, <1>2, <1>3, <1>4, <1>5, <1>6, <1>7, <1>8, <1>9, <1>10, <1>11
     DEF ActivityNext

\* Between any two steps of the writers and of the rotation each event is in the file of its
\* day, and a plain file is removed only after its whole .gz file.
THEOREM ActivityInvariant == ActivitySpec => []ActivityInv
<1>1. ActivityInit => ActivityInv
  BY ActivityStarts
<1>2. ActivityInv /\ [ActivityNext]_activity => ActivityInv'
  BY ActivityTyped, RotationStaysSafe, EventsStay DEF ActivityInv
<1> QED
  BY <1>1, <1>2, PTL DEF ActivitySpec

\* rotate_logs takes away nothing that is still kept: an event that record wrote to a tier is in
\* the files of its day while LOG_RETENTION_DAYS have not passed, and in the archive of alerts ever
\* after, between any two steps of a rotation and after one that died.  A query over its day
\* returns it unless it meets a cut .gz file, which no query of the alerts does, and beside which
\* the plain file is still there.
THEOREM RotationKeepsEvents == ActivitySpec => []KeptForRetention
<1>1. ASSUME ActivityInv, NEW t \in Tiers, NEW e \in Events, NEW n \in 1..(LastDay + 1),
             Keeps(t, e), day[t][e] \in Asked(n)
      PROVE  /\ e \in OnDisk(t, day[t][e])
             /\ e \in Query(t, n) \/ QueryRaises(t, n)
             /\ t = "alerts" => ~QueryRaises(t, n)
             /\ \A d \in Asked(n) :
                   packed[t][d].form = "cut" /\ ~Aged(d, Retention) => plain[t][d] # {}
  <2>1. day[t][e] \in Days /\ today \in Days /\ LastDay \in Nat /\ Retention \in Nat
    BY <1>1, ActivityAssumption DEF ActivityInv, ActivityTypeOK, Keeps
  <2>2. InFile(t, e, day[t][e])
    BY <1>1, <2>1 DEF ActivityInv, InItsFile
  <2>3. e \in OnDisk(t, day[t][e])
    BY <1>1, <2>1, <2>2 DEF InFile, Found, Aged, Keeps, OnDisk, Days
  <2>4. e \in Query(t, n) \/ QueryRaises(t, n)
    BY <1>1, <2>3 DEF Query
  <2>5. Asked(n) \subseteq Days /\ RotationIsSafe
    BY <1>1 DEF Asked, ActivityInv
  <2> QED
    BY <2>3, <2>4, <2>5 DEF RotationIsSafe, QueryRaises
<1>2. ActivityInv => KeptForRetention
  BY <1>1 DEF KeptForRetention
<1> QED
  BY <1>2, ActivityInvariant, PTL

----------------------------------------------------------------------------
(* ContainmentManager.                                                     *)

\* A level that the alerts since the reset are behind.
Earned(l) == \E r \in Reached(heard) : l <= r

\* No level that the alerts make, and that is reached without an admin, is higher.
Covers(l) == \A r \in Reached(heard) : r <= MaxAutoLevel => l >= r

\* What a call holds in its locals is of alerts since the reset, whatever overlapped it.
CallIsEarned(c) ==
    LET k == processing[c] IN
    /\ k.pc = "adding" => k.sum <= heard
    /\ k.pc = "walking" => k.target \in Reached(heard)
    /\ k.pc = "raising" => k.target <= MaxAutoLevel /\ Earned(k.target)

\* The only call, and nothing overlapped it: it counts all alerts, and misses no level that
\* it looked at.
CallIsExact(c) ==
    LET k == processing[c] IN
    /\ k.pc = "adding" => k.sum = heard
    /\ k.pc # "adding" => count = heard
    /\ k.pc = "walking" => \A r \in Reached(heard) : r <= k.looked => k.target >= r
    /\ k.pc = "raising" => Covers(k.target)

ExactIfAlone ==
    alone =>
        /\ resetting # "overlapped"
        /\ \A c \in CallStates, d \in CallStates : c = d
        /\ resetting = "no" => \A c \in CallStates : CallIsExact(c)
        /\ CallStates = {} /\ resetting = "no" => count = heard
        /\ CallStates = {} /\ fresh => Covers(level)

ContainmentInv ==
    /\ ContainmentTypeOK
    /\ count <= heard
    /\ \A c \in Checkers : CallIsEarned(c)
    /\ resetting = "apart" => CallStates = {} /\ count = 0
    /\ level > manual => level <= MaxAutoLevel /\ Earned(level)
    /\ ExactIfAlone

LEMMA ContainmentStarts ==
    ASSUME ContainmentInit
    PROVE  ContainmentInv
<1>1. Normal \in Levels /\ 0 \in 0..MaxAlerts /\ CallStates = {}
  BY ContainmentAssumption DEF Levels, Normal, CallStates, ContainmentInit, Done
<1>2. Done \in Call
  BY <1>1 DEF Done, Call
<1>3. ContainmentTypeOK
  BY <1>1, <1>2 DEF ContainmentInit, ContainmentTypeOK
<1>4. \A c \in Checkers : CallIsEarned(c)
  BY DEF ContainmentInit, CallIsEarned, Done
<1>5. ExactIfAlone
  BY <1>1 DEF ContainmentInit, ExactIfAlone
<1> QED
  BY <1>1, <1>3, <1>4, <1>5 DEF ContainmentInit, ContainmentInv, Normal

\* The numbers that are compared.
LEMMA ContainmentFacts ==
    ASSUME ContainmentTypeOK
    PROVE  /\ count \in Nat /\ heard \in Nat /\ level \in Levels /\ manual \in Levels
           /\ MaxAutoLevel \in Levels /\ Normal \in Levels /\ MaxAlerts \in Nat
           /\ DOMAIN Thresholds \subseteq Levels /\ \A l \in DOMAIN Thresholds : Thresholds[l] \in Nat
           /\ \A n \in Nat : Reached(n) \subseteq Levels /\ Normal \in Reached(n)
           /\ \A c \in Checkers : /\ processing[c] \in Call /\ processing[c].sum \in Nat
                                  /\ processing[c].target \in Levels /\ processing[c].looked \in Levels
  BY ContainmentAssumption DEF ContainmentTypeOK, Call, Levels, Normal, Reached

\* One call goes on.
CallIs(c, k) ==
    /\ processing' \in [Checkers -> Call]
    /\ processing'[c] = k
    /\ \A d \in Checkers : d # c => processing'[d] = processing[d]

LEMMA CallReplaced ==
    ASSUME ContainmentTypeOK, NEW c \in Checkers, NEW k \in Call,
           processing' = [processing EXCEPT ![c] = k]
    PROVE  /\ CallIs(c, k)
           /\ k.pc # "idle" => CallStates' = CallStates \cup {c}
           /\ k.pc = "idle" => CallStates' = CallStates \ {c}
  BY DEF ContainmentTypeOK, CallIs, CallStates

\* More alerts were handed over.
LEMMA MoreIsReached ==
    ASSUME ContainmentTypeOK, heard' \in Nat, heard' >= heard
    PROVE  /\ Reached(heard) \subseteq Reached(heard')
           /\ \A l : Earned(l) => Earned(l)'
<1>1. heard \in Nat /\ \A l \in DOMAIN Thresholds : Thresholds[l] \in Nat
  BY ContainmentFacts
<1>2. Reached(heard) \subseteq Reached(heard')
  BY <1>1 DEF Reached
<1>3. \A l : Earned(l)' <=> \E r \in Reached(heard') : l <= r
  BY DEF Earned, Reached
<1> QED
  BY <1>2, <1>3 DEF Earned

LEMMA ReadCountKeeps ==
    ASSUME ContainmentInv, NEW c \in Checkers, NEW n \in 1..MaxAlerts, ReadCount(c, n)
    PROVE  ContainmentInv'
<1>0. ContainmentTypeOK /\ count \in Nat /\ heard \in Nat /\ MaxAlerts \in Nat /\ count <= heard
  BY ContainmentFacts DEF ContainmentInv
<1>1. PICK k : k = [Done EXCEPT !.pc = "adding", !.sum = count + n]
  OBVIOUS
<1>2. count + n \in 0..MaxAlerts /\ heard' \in 0..MaxAlerts /\ heard' >= heard /\ heard' = heard + n
  BY <1>0 DEF ReadCount
<1>3. k \in Call /\ k.pc = "adding" /\ k.sum = count + n
  BY <1>1, <1>2, ContainmentFacts, <1>0 DEF Done, Call
<1>4. CallIs(c, k) /\ CallStates' = CallStates \cup {c}
  BY <1>0, <1>1, <1>3, CallReplaced DEF ReadCount
<1>5. Reached(heard) \subseteq Reached(heard') /\ \A l : Earned(l) => Earned(l)'
  BY <1>0, <1>2, MoreIsReached
<1>6. ContainmentTypeOK'
  BY <1>0, <1>2, <1>4 DEF ReadCount, ContainmentTypeOK, CallIs
<1>7. \A d \in Checkers : CallIsEarned(d)'
  <2>1. CallIsEarned(c)'
    BY <1>0, <1>2, <1>3, <1>4 DEF CallIs, CallIsEarned
  <2>2. ASSUME NEW d \in Checkers, d # c
        PROVE  CallIsEarned(d)'
    <3>1. processing'[d] = processing[d] /\ CallIsEarned(d)
      BY <1>4, <2>2 DEF CallIs, ContainmentInv
    <3>2. processing[d].sum \in Nat
      BY <1>0, ContainmentFacts
    <3>3. processing[d].target \in Reached(heard) => processing[d].target \in Reached(heard')
      BY <1>5
    <3> QED
      BY <1>0, <1>2, <1>5, <3>1, <3>2, <3>3 DEF CallIsEarned, Reached, Earned
  <2> QED
    BY <2>1, <2>2
<1>8. ExactIfAlone'
  <2> SUFFICES ASSUME alone'
               PROVE  /\ resetting' # "overlapped"
                      /\ CallStates' = {c} /\ CallIsExact(c)'
    BY DEF ExactIfAlone
  <2>1. alone /\ CallStates = {} /\ resetting = "no" /\ resetting' = "no"
    BY <1>0 DEF ReadCount, ContainmentTypeOK
  <2>2. count = heard
    BY <2>1 DEF ContainmentInv, ExactIfAlone
  <2> QED
    BY <1>2, <1>3, <1>4, <2>1, <2>2 DEF CallIs, CallIsExact
<1>9. resetting' # "apart"
  BY <1>0 DEF ReadCount, ContainmentTypeOK
<1>10. (level > manual => level <= MaxAutoLevel /\ Earned(level))'
  BY <1>5 DEF ReadCount, ContainmentInv, Earned, Reached
<1> QED
  BY <1>0, <1>2, <1>6, <1>7, <1>8, <1>9, <1>10 DEF ReadCount, ContainmentInv

LEMMA WriteCountKeeps ==
    ASSUME ContainmentInv, NEW c \in Checkers, WriteCount(c)
    PROVE  ContainmentInv'
<1>0. ContainmentTypeOK /\ c \in CallStates /\ processing[c].sum \in 0..MaxAlerts
  BY DEF ContainmentInv, ContainmentTypeOK, Call, CallStates, WriteCount
<1>1. PICK k : k = [Done EXCEPT !.pc = "walking"]
  OBVIOUS
<1>2. k \in Call /\ k.pc = "walking" /\ k.target = Normal /\ k.looked = Normal
  BY <1>0, <1>1, ContainmentFacts DEF Done, Call
<1>3. CallIs(c, k) /\ CallStates' = CallStates
  BY <1>0, <1>1, <1>2, CallReplaced DEF WriteCount
<1>4. /\ UNCHANGED <<level, resetting, heard, manual, fresh, alone>> /\ count' = processing[c].sum
      /\ count' <= heard
  BY DEF WriteCount, ContainmentInv, CallIsEarned
<1>5. ContainmentTypeOK'
  BY <1>0, <1>3, <1>4 DEF ContainmentTypeOK, CallIs
<1>6. \A d \in Checkers : CallIsEarned(d)'
  <2>1. CallIsEarned(c)'
    BY <1>2, <1>3, <1>4 DEF CallIs, CallIsEarned, Reached
  <2>2. \A d \in Checkers : d # c => CallIsEarned(d)'
    BY <1>3, <1>4 DEF CallIs, CallIsEarned, Reached, Earned, ContainmentInv
  <2> QED
    BY <2>1, <2>2
<1>7. ExactIfAlone'
  <2> SUFFICES ASSUME alone
               PROVE  /\ resetting # "overlapped" /\ CallStates = {c}
                      /\ resetting = "no" => CallIsExact(c)'
    BY <1>0, <1>3, <1>4 DEF ExactIfAlone
  <2>1. resetting # "overlapped" /\ CallStates = {c} /\ (resetting = "no" => CallIsExact(c))
    BY <1>0 DEF ContainmentInv, ExactIfAlone
  <2>2. resetting = "no" => count' = heard
    BY <1>4, <2>1 DEF CallIsExact, WriteCount
  <2>3. \A r \in Reached(heard) : r <= Normal => Normal >= r
    BY <1>0, ContainmentFacts DEF Levels
  <2>4. \A r \in Reached(heard') : r <= k.looked => k.target >= r
    BY <1>2, <1>4, <2>3 DEF Reached
  <2> QED
    BY <1>2, <1>3, <1>4, <2>1, <2>2, <2>4 DEF CallIs, CallIsExact, Reached
<1>8. resetting # "apart"
  BY <1>0 DEF ContainmentInv
<1> QED
  BY <1>4, <1>5, <1>6, <1>7, <1>8 DEF ContainmentInv, Earned, Reached

\* The count is read anew at each level, and is never more than the alerts.
LEMMA LookKeeps ==
    ASSUME ContainmentInv, NEW c \in Checkers, Look(c)
    PROVE  ContainmentInv'
<1>0. /\ ContainmentTypeOK /\ c \in CallStates /\ processing[c].pc = "walking" /\ processing[c] \in Call
      /\ count \in Nat /\ heard \in Nat /\ count <= heard
  BY ContainmentFacts DEF ContainmentInv, CallStates, Look
<1>a. PICK l \in Unseen(c) :
          /\ \A u \in Unseen(c) : l <= u
          /\ processing' = [processing EXCEPT
                               ![c].looked = l,
                               ![c].target = IF count >= Thresholds[l] THEN l ELSE @]
  BY DEF Look
<1>1. PICK k : k = [processing[c] EXCEPT !.looked = l,
                                         !.target = IF count >= Thresholds[l] THEN l ELSE @]
  OBVIOUS
<1>b. l \in DOMAIN Thresholds /\ l \in Levels /\ l > processing[c].looked /\ Thresholds[l] \in Nat
  BY <1>0, ContainmentFacts DEF Unseen
<1>2. /\ k \in Call /\ k.pc = "walking" /\ k.looked = l
      /\ k.target = IF count >= Thresholds[l] THEN l ELSE processing[c].target
  BY <1>0, <1>1, <1>b DEF Call
<1>c. processing' = [processing EXCEPT ![c] = k]
  BY <1>0, <1>1, <1>a DEF ContainmentTypeOK
<1>3. CallIs(c, k) /\ CallStates' = CallStates
  BY <1>0, <1>2, <1>c, CallReplaced
<1>4. UNCHANGED <<count, level, resetting, heard, manual, fresh, alone>>
  BY DEF Look
<1>5. ContainmentTypeOK'
  BY <1>0, <1>3, <1>4 DEF ContainmentTypeOK, CallIs
<1>6. \A d \in Checkers : CallIsEarned(d)'
  <2>1. k.target \in Reached(heard)
    <3>1. CASE count >= Thresholds[l]
      BY <1>0, <1>2, <1>b, <3>1 DEF Reached
    <3>2. CASE ~(count >= Thresholds[l])
      BY <1>0, <1>2, <3>2 DEF ContainmentInv, CallIsEarned
    <3> QED
      BY <3>1, <3>2
  <2>2. CallIsEarned(c)'
    BY <1>2, <1>3, <1>4, <2>1 DEF CallIs, CallIsEarned, Reached
  <2>3. \A d \in Checkers : d # c => CallIsEarned(d)'
    BY <1>3, <1>4 DEF CallIs, CallIsEarned, Reached, Earned, ContainmentInv
  <2> QED
    BY <2>2, <2>3
<1>7. ExactIfAlone'
  <2> SUFFICES ASSUME alone
               PROVE  /\ resetting # "overlapped" /\ CallStates = {c}
                      /\ resetting = "no" => CallIsExact(c)'
    BY <1>0, <1>3, <1>4 DEF ExactIfAlone
  <2>1. resetting # "overlapped" /\ CallStates = {c} /\ (resetting = "no" => CallIsExact(c))
    BY <1>0 DEF ContainmentInv, ExactIfAlone
  <2>2. ASSUME resetting = "no", NEW r \in Reached(heard), r <= l
        PROVE  k.target >= r
    <3>1. /\ count = heard /\ r \in Levels /\ processing[c].looked \in Levels
          /\ r <= processing[c].looked => processing[c].target >= r
          /\ processing[c].target \in Levels
      BY <1>0, <2>1, <2>2, ContainmentFacts DEF CallIsExact
    <3>2. CASE r = l
      <4>1. l # Normal
        BY <1>b, <3>1 DEF Levels, Normal
      <4>2. count >= Thresholds[l]
        BY <2>2, <3>1, <3>2, <4>1 DEF Reached
      <4> QED
        BY <1>2, <1>b, <3>2, <4>2 DEF Levels
    \* No level between the one that was looked at before and this one has a threshold.
    <3>3. CASE r < l
      <4>1. r <= processing[c].looked
        <5>1. r \notin Unseen(c)
          BY <1>a, <1>b, <3>1, <3>3 DEF Levels
        <5>2. r \in DOMAIN Thresholds \/ r = Normal
          BY <2>2 DEF Reached
        <5> QED
          BY <3>1, <5>1, <5>2 DEF Unseen, Levels, Normal
      <4>2. processing[c].target >= r
        BY <3>1, <4>1
      <4> QED
        BY <1>2, <1>b, <3>1, <3>3, <4>2 DEF Levels
    <3> QED
      BY <1>b, <2>2, <3>1, <3>2, <3>3 DEF Levels
  <2>3. resetting = "no" => count = heard
    BY <1>0, <2>1 DEF CallIsExact
  <2> QED
    BY <1>2, <1>3, <1>4, <2>1, <2>2, <2>3 DEF CallIs, CallIsExact, Reached
<1>8. resetting # "apart"
  BY <1>0 DEF ContainmentInv
<1> QED
  BY <1>0, <1>4, <1>5, <1>6, <1>7, <1>8 DEF ContainmentInv, Earned, Reached

LEMMA CompareKeeps ==
    ASSUME ContainmentInv, NEW c \in Checkers, CompareLevel(c)
    PROVE  ContainmentInv'
<1>0. /\ ContainmentTypeOK /\ c \in CallStates /\ processing[c].pc = "walking" /\ processing[c] \in Call
      /\ heard \in Nat /\ level \in Levels /\ MaxAutoLevel \in Levels /\ processing[c].target \in Levels
      /\ processing[c].looked \in Levels /\ Unseen(c) = {}
  BY ContainmentFacts DEF ContainmentInv, CallStates, CompareLevel
<1>a. PICK T : T = CappedLevel(processing[c].target)
  OBVIOUS
<1>b. /\ T \in Levels /\ T <= MaxAutoLevel /\ T <= processing[c].target
      /\ T = processing[c].target \/ T = MaxAutoLevel
  BY <1>0, <1>a DEF CappedLevel, Levels
<1>1. PICK k : k = IF T > level THEN [Done EXCEPT !.pc = "raising", !.target = T] ELSE Done
  OBVIOUS
<1>2. /\ k \in Call
      /\ T > level => k.pc = "raising" /\ k.target = T
      /\ ~(T > level) => k.pc = "idle"
  <2>1. Done \in Call
    BY <1>0, ContainmentFacts DEF Call, Done
  <2>2. T > level => k = [Done EXCEPT !.pc = "raising", !.target = T]
    BY <1>1
  <2>3. [Done EXCEPT !.pc = "raising", !.target = T] \in Call
    BY <1>b, <2>1 DEF Call
  <2> QED
    BY <1>1, <2>1, <2>2, <2>3 DEF Call, Done
<1>c. processing' = [processing EXCEPT ![c] = k]
  BY <1>1, <1>a DEF CompareLevel
<1>3. /\ CallIs(c, k)
      /\ T > level => CallStates' = CallStates
      /\ ~(T > level) => CallStates' = CallStates \ {c}
  BY <1>0, <1>2, <1>c, CallReplaced
<1>4. UNCHANGED <<count, level, resetting, heard, manual, fresh, alone>>
  BY DEF CompareLevel
<1>5. ContainmentTypeOK'
  BY <1>0, <1>3, <1>4 DEF ContainmentTypeOK, CallIs
<1>6. \A d \in Checkers : CallIsEarned(d)'
  <2>1. T <= MaxAutoLevel /\ Earned(T)
    <3>1. processing[c].target \in Reached(heard)
      BY <1>0 DEF ContainmentInv, CallIsEarned
    <3> QED
      BY <1>b, <3>1 DEF Earned
  <2>2. CallIsEarned(c)'
    <3>1. processing'[c] = k
      BY <1>3 DEF CallIs
    <3>2. CASE T > level
      BY <1>2, <1>4, <2>1, <3>1, <3>2 DEF CallIsEarned, Earned, Reached
    <3>3. CASE ~(T > level)
      BY <1>2, <3>1, <3>3 DEF CallIsEarned
    <3> QED
      BY <3>2, <3>3
  <2>3. \A d \in Checkers : d # c => CallIsEarned(d)'
    BY <1>3, <1>4 DEF CallIs, CallIsEarned, Reached, Earned, ContainmentInv
  <2> QED
    BY <2>2, <2>3
<1>7. ExactIfAlone'
  <2> SUFFICES ASSUME alone
               PROVE  /\ resetting # "overlapped" /\ CallStates = {c} /\ resetting = "no" /\ count = heard
                      /\ T > level => CallIsExact(c)'
                      /\ ~(T > level) => Covers(level)
    BY <1>3, <1>4 DEF ExactIfAlone, Covers, Reached
  <2>1. resetting = "no" /\ CallStates = {c} /\ CallIsExact(c)
    BY <1>0 DEF ContainmentInv, ExactIfAlone, ContainmentTypeOK
  <2>2. Covers(T)
    <3> SUFFICES ASSUME NEW r \in Reached(heard), r <= MaxAutoLevel
                 PROVE  T >= r
      BY DEF Covers
    <3>1. r \in Levels /\ (r \in DOMAIN Thresholds \/ r = Normal)
      BY <1>0, ContainmentFacts DEF Reached
    <3>2. r <= processing[c].looked
      BY <1>0, <3>1 DEF Unseen, Levels, Normal
    <3>3. processing[c].target >= r
      BY <1>0, <2>1, <3>2 DEF CallIsExact
    <3> QED
      BY <1>0, <1>b, <3>1, <3>3 DEF Levels
  <2>3. count = heard
    BY <1>0, <2>1 DEF CallIsExact
  <2>4. T > level => CallIsExact(c)'
    <3>1. Covers(T)'
      BY <1>4, <2>2 DEF Covers, Reached
    <3> QED
      BY <1>2, <1>3, <1>4, <2>3, <3>1 DEF CallIs, CallIsExact, Covers, Reached
  <2>5. ~(T > level) => Covers(level)
    <3>1. \A r \in Reached(heard) : r \in Levels
      BY <1>0, ContainmentFacts
    <3> QED
      BY <1>0, <1>b, <2>2, <3>1 DEF Covers, Levels
  <2> QED
    BY <2>1, <2>3, <2>4, <2>5
<1>8. resetting # "apart"
  BY <1>0 DEF ContainmentInv
<1> QED
  BY <1>4, <1>5, <1>6, <1>7, <1>8 DEF ContainmentInv, Earned, Reached

LEMMA RaiseKeeps ==
    ASSUME ContainmentInv, NEW c \in Checkers, RaiseLevel(c)
    PROVE  ContainmentInv'
<1>0. /\ ContainmentTypeOK /\ c \in CallStates /\ processing[c].pc = "raising"
      /\ processing[c].target \in Levels
      /\ processing[c].target <= MaxAutoLevel /\ Earned(processing[c].target)
  BY ContainmentFacts DEF ContainmentInv, CallStates, RaiseLevel, CallIsEarned
<1>1. Done \in Call /\ Done.pc = "idle"
  BY <1>0, ContainmentFacts DEF Done, Call
<1>2. CallIs(c, Done) /\ CallStates' = CallStates \ {c}
  BY <1>0, <1>1, CallReplaced DEF RaiseLevel
<1>3. UNCHANGED <<count, resetting, heard, manual, fresh, alone>> /\ level' = processing[c].target
  BY DEF RaiseLevel
<1>4. ContainmentTypeOK'
  BY <1>0, <1>2, <1>3 DEF ContainmentTypeOK, CallIs
<1>5. \A d \in Checkers : CallIsEarned(d)'
  <2>1. CallIsEarned(c)'
    BY <1>1, <1>2 DEF CallIs, CallIsEarned
  <2>2. \A d \in Checkers : d # c => CallIsEarned(d)'
    BY <1>2, <1>3 DEF CallIs, CallIsEarned, Reached, Earned, ContainmentInv
  <2> QED
    BY <2>1, <2>2
<1>6. ExactIfAlone'
  <2> SUFFICES ASSUME alone
               PROVE  resetting = "no" /\ CallStates = {c} /\ count = heard /\ Covers(level')
    BY <1>2, <1>3 DEF ExactIfAlone, Covers, Reached
  <2>1. resetting = "no" /\ CallStates = {c} /\ CallIsExact(c)
    BY <1>0 DEF ContainmentInv, ExactIfAlone, ContainmentTypeOK
  <2> QED
    BY <1>0, <1>3, <2>1 DEF CallIsExact
<1>7. resetting # "apart"
  BY <1>0 DEF ContainmentInv
<1> QED
  BY <1>0, <1>3, <1>4, <1>5, <1>6, <1>7 DEF ContainmentInv, Earned, Reached

\* What the admin does leaves the calls as they are.
LEMMA OrderKeeps ==
    ASSUME ContainmentInv, NEW l \in Orders, EscalateManual(l)
    PROVE  ContainmentInv'
<1>0. ContainmentTypeOK /\ l \in Levels /\ manual \in Levels
  BY ContainmentAssumption, ContainmentFacts DEF ContainmentInv
<1>1. /\ UNCHANGED <<count, processing, resetting, heard>> /\ level' = l /\ fresh' = FALSE
      /\ manual' = (IF l > manual THEN l ELSE manual) /\ alone' = (alone /\ CallStates = {})
      /\ CallStates' = CallStates
  BY DEF EscalateManual, CallStates
<1>2. ContainmentTypeOK'
  BY <1>0, <1>1 DEF ContainmentTypeOK
<1>3. ~(level' > manual')
  BY <1>0, <1>1 DEF Levels
<1>4. \A c \in Checkers : CallIsEarned(c)'
  BY <1>1 DEF ContainmentInv, CallIsEarned, Earned, Reached
<1>5. ExactIfAlone'
  BY <1>1 DEF ContainmentInv, ExactIfAlone
<1> QED
  BY <1>1, <1>2, <1>3, <1>4, <1>5 DEF ContainmentInv

LEMMA ResetKeeps ==
    ASSUME ContainmentInv, ResetCount \/ ResetLevel
    PROVE  ContainmentInv'
<1>0. ContainmentTypeOK /\ heard \in Nat /\ 0 \in 0..MaxAlerts /\ Normal \in Levels
      /\ (resetting = "apart" => CallStates = {} /\ count = 0)
  BY ContainmentFacts DEF ContainmentInv
<1>1. CASE ResetCount
  <2>1. /\ UNCHANGED <<level, processing, heard, manual, fresh>> /\ count' = 0 /\ CallStates' = CallStates
        /\ resetting' = (IF CallStates = {} THEN "apart" ELSE "overlapped")
        /\ alone' = (alone /\ CallStates = {}) /\ resetting = "no"
    BY <1>1 DEF ResetCount, CallStates
  <2>2. ContainmentTypeOK'
    BY <1>0, <2>1 DEF ContainmentTypeOK
  <2>3. \A c \in Checkers : CallIsEarned(c)'
    BY <2>1 DEF ContainmentInv, CallIsEarned, Earned, Reached
  <2>4. ExactIfAlone'
    BY <2>1 DEF ContainmentInv, ExactIfAlone, Covers, Reached
  <2>5. (level > manual => level <= MaxAutoLevel /\ Earned(level))'
    BY <2>1 DEF ContainmentInv, Earned, Reached
  <2> QED
    BY <1>0, <2>1, <2>2, <2>3, <2>4, <2>5 DEF ContainmentInv
<1>2. CASE ResetLevel
  <2>1. /\ UNCHANGED <<count, processing>> /\ level' = Normal /\ manual' = Normal
        /\ heard' = (IF resetting = "apart" THEN 0 ELSE heard) /\ fresh' = FALSE
        /\ resetting' = "no" /\ alone' = (resetting = "apart") /\ CallStates' = CallStates
    BY <1>2 DEF ResetLevel, CallStates
  <2>2. ContainmentTypeOK'
    BY <1>0, <2>1 DEF ContainmentTypeOK
  <2>3. count' <= heard'
    BY <1>0, <2>1 DEF ContainmentInv
  <2>4. \A c \in Checkers : CallIsEarned(c)'
    <3>1. CASE resetting = "apart"
      BY <1>0, <2>1, <3>1 DEF CallIsEarned, CallStates
    <3>2. CASE resetting # "apart"
      BY <2>1, <3>2 DEF ContainmentInv, CallIsEarned, Earned, Reached
    <3> QED
      BY <3>1, <3>2
  <2>5. ExactIfAlone'
    BY <1>0, <2>1 DEF ExactIfAlone
  <2>6. ~(level' > manual') /\ resetting' # "apart"
    BY <2>1 DEF Normal
  <2> QED
    BY <2>1, <2>2, <2>3, <2>4, <2>5, <2>6 DEF ContainmentInv
<1> QED
  BY <1>1, <1>2

\* However check, escalate_manual and reset come between each other's reads and writes, what
\* _alert_count holds, what a call of process_alerts is about to store and the level that it is
\* about to set have alerts since the last reset behind them that no call overlapped.
THEOREM ContainmentInvariant == ContainmentSpec => []ContainmentInv
<1>1. ContainmentInit => ContainmentInv
  BY ContainmentStarts
<1>2. ASSUME ContainmentInv, [ContainmentNext]_containment
      PROVE  ContainmentInv'
  <2>1. CASE UNCHANGED containment
    BY <1>2, <2>1 DEF containment, ContainmentInv, ContainmentTypeOK, CallIsEarned, Earned, Reached,
         CallStates, ExactIfAlone, CallIsExact, Covers
  <2> QED
    BY <1>2, <2>1, ReadCountKeeps, WriteCountKeeps, LookKeeps, CompareKeeps, RaiseKeeps, OrderKeeps,
       ResetKeeps DEF ContainmentNext
<1> QED
  BY <1>1, <1>2, PTL DEF ContainmentSpec

\* However checks, orders and resets overlap, and for every table of thresholds, a partial or an
\* unordered one too: a level above what an admin set has the alerts since the reset behind it
\* and is one that may be reached without an admin; where nothing overlapped, and alerts came
\* after the last order, the level is not below what the alerts make it.
THEOREM ContainmentIsEarned == ContainmentSpec => []LevelIsEarned
<1>1. ContainmentInv => LevelIsEarned
  BY DEF ContainmentInv, LevelIsEarned, ExactIfAlone, Earned, Covers
<1> QED
  BY <1>1, ContainmentInvariant, PTL

----------------------------------------------------------------------------
(* Monitor.                                                                *)

\* The resources of a window: of its first n actions, they are finitely many.
UsedBy(s, n) == {s[i].resource : i \in 1..n}

LEMMA ImageIsFinite ==
    ASSUME NEW s \in Seq(Action)
    PROVE  /\ IsFiniteSet({s[i].resource : i \in DOMAIN s})
           /\ {s[i].resource : i \in DOMAIN s} \subseteq Resources
<1>1. Len(s) \in Nat /\ DOMAIN s = 1..Len(s)
  OBVIOUS
<1>2. \A n \in 0..Len(s) : IsFiniteSet(UsedBy(s, n))
  <2> DEFINE T == {n \in 0..Len(s) : ~IsFiniteSet(UsedBy(s, n))}
  <2>1. SUFFICES ASSUME T # {}
                 PROVE  FALSE
    OBVIOUS
  <2>2. T \subseteq Nat
    OBVIOUS
  <2>3. PICK n \in T : \A m \in T : n <= m
    BY <2>1, <2>2, LeastNumber
  <2>4. n \in 0..Len(s) /\ ~IsFiniteSet(UsedBy(s, n))
    BY <2>3
  <2>5. n # 0
    <3>1. UsedBy(s, 0) = {}
      BY DEF UsedBy
    <3> QED
      BY <2>4, <3>1, FS_EmptySet
  <2>6. n - 1 \in 0..Len(s) /\ n - 1 \notin T
    BY <1>1, <2>3, <2>4, <2>5
  <2>7. IsFiniteSet(UsedBy(s, n - 1))
    BY <2>6
  <2>8. UsedBy(s, n) = UsedBy(s, n - 1) \cup {s[n].resource}
    <3>1. n \in Nat /\ n >= 1 /\ n - 1 \in Nat
      BY <1>1, <2>4, <2>5
    <3>2. 1..n = (1..(n - 1)) \cup {n}
      BY <3>1
    <3> QED
      BY <3>2 DEF UsedBy
  <2>9. PICK U : U = UsedBy(s, n - 1)
    OBVIOUS
  <2>10. IsFiniteSet(U)
    BY <2>7, <2>9
  <2>11. IsFiniteSet(U \cup {s[n].resource})
    BY <2>10, FS_AddElement
  <2>12. UsedBy(s, n) = U \cup {s[n].resource}
    BY <2>8, <2>9
  <2> QED
    BY <2>4, <2>11, <2>12
<1>3. {s[i].resource : i \in DOMAIN s} = UsedBy(s, Len(s))
  BY <1>1 DEF UsedBy
<1>4. ASSUME NEW i \in DOMAIN s
      PROVE  s[i].resource \in Resources
  <2>1. s[i] \in Action
    OBVIOUS
  <2> QED
    BY <2>1 DEF Action
<1>5. IsFiniteSet(UsedBy(s, Len(s)))
  BY <1>1, <1>2
<1>6. IsFiniteSet({s[i].resource : i \in DOMAIN s})
  BY <1>3, <1>5
<1>7. {s[i].resource : i \in DOMAIN s} \subseteq Resources
  BY <1>4
<1> QED
  BY <1>6, <1>7

LEMMA SixAreFinite ==
    ASSUME NEW a, NEW b, NEW c, NEW d, NEW e, NEW f
    PROVE  IsFiniteSet({a, b, c, d, e, f})
<1>1. IsFiniteSet({a} \cup {b})
  BY FS_Singleton, FS_AddElement
<1>2. IsFiniteSet(({a} \cup {b}) \cup {c})
  BY <1>1, FS_AddElement
<1>3. IsFiniteSet((({a} \cup {b}) \cup {c}) \cup {d})
  BY <1>2, FS_AddElement
<1>4. IsFiniteSet(((({a} \cup {b}) \cup {c}) \cup {d}) \cup {e})
  BY <1>3, FS_AddElement
<1>5. IsFiniteSet((((({a} \cup {b}) \cup {c}) \cup {d}) \cup {e}) \cup {f})
  BY <1>4, FS_AddElement
<1>6. (((({a} \cup {b}) \cup {c}) \cup {d}) \cup {e}) \cup {f} = {a, b, c, d, e, f}
  OBVIOUS
<1> QED
  BY <1>5, <1>6

LEMMA AnomaliesAreCounted ==
    ASSUME NEW s \in Seq(Action)
    PROVE  Anomalies(s) \in Nat
<1>1. IsFiniteSet(EscalationChains)
  BY SixAreFinite DEF EscalationChains
<1>2. PICK C : C = {chain \in EscalationChains : FindChain(s, chain) # << >>}
  OBVIOUS
<1>3. C \in SUBSET EscalationChains
  BY <1>2
<1>4. IsFiniteSet(C)
  BY <1>1, <1>3, FS_Subset
<1>5. IsFiniteSet(NewResources(s))
  <2>1. PICK S : S = {s[i].resource : i \in DOMAIN s} /\ IsFiniteSet(S)
    BY ImageIsFinite
  <2>2. S \ baseline \in SUBSET S
    OBVIOUS
  <2>3. IsFiniteSet(S \ baseline)
    BY <2>1, <2>2, FS_Subset
  <2> QED
    BY <2>1, <2>3, FS_EmptySet DEF NewResources
<1>6. Cardinality(C) \in Nat /\ Cardinality(NewResources(s)) \in Nat
  BY <1>4, <1>5, FS_CardinalityType
<1>7. Anomalies(s) = Cardinality(C) + (IF RapidFire(s) THEN 1 ELSE 0) + Cardinality(NewResources(s))
  BY <1>2 DEF Anomalies
<1> QED
  BY <1>6, <1>7

LEMMA MonitorStarts ==
    ASSUME MonitorInit
    PROVE  MonitorTypeOK
<1>1. 0 \in Ticks
  BY MonitorAssumption DEF Ticks
<1>2. \A t \in Recorders : stamped[t] = << >> /\ Len(stamped[t]) <= 1
  BY DEF MonitorInit
<1>3. window \in Seq(Action) /\ Len(window) <= WindowSize
  BY MonitorAssumption DEF MonitorInit
<1> QED
  BY <1>1, <1>2, <1>3 DEF MonitorInit, MonitorTypeOK

\* The window is not longer than it may be.
LEMMA NewestFits ==
    ASSUME NEW s \in Seq(Action)
    PROVE  /\ Newest(s, WindowSize) \in Seq(Action)
           /\ Len(Newest(s, WindowSize)) <= WindowSize
<1>2. s \in Seq(Action) /\ Len(s) \in Nat /\ WindowSize \in Nat
  BY MonitorAssumption
<1>3. CASE Len(s) <= WindowSize
  BY <1>2, <1>3 DEF Newest
<1>4. CASE ~(Len(s) <= WindowSize)
  <2>1. Newest(s, WindowSize) = SubSeq(s, Len(s) - WindowSize + 1, Len(s))
    BY <1>4 DEF Newest
  <2>2. /\ SubSeq(s, Len(s) - WindowSize + 1, Len(s)) \in Seq(Action)
        /\ Len(SubSeq(s, Len(s) - WindowSize + 1, Len(s))) = WindowSize
    BY <1>2, <1>4
  <2> QED
    BY <1>2, <2>1, <2>2
<1> QED
  BY <1>3, <1>4

LEMMA MonitorTyped ==
    ASSUME MonitorTypeOK, [MonitorNext]_monitor
    PROVE  MonitorTypeOK'
<1> USE DEF MonitorTypeOK
<1>1. CASE Pass
  BY <1>1, MonitorAssumption DEF Pass, Ticks
<1>2. ASSUME NEW t \in Recorders, NEW r \in Resources, Stamp(t, r)
      PROVE  MonitorTypeOK'
  <2>1. PICK x : x = <<[resource |-> r, at |-> ticks]>>
    OBVIOUS
  <2>2. x \in Seq(Action) /\ Len(x) <= 1
    BY <2>1 DEF Action
  <2>3. stamped' = [stamped EXCEPT ![t] = x]
    BY <1>2, <2>1 DEF Stamp
  <2> QED
    BY <1>2, <2>2, <2>3 DEF Stamp
<1>3. ASSUME NEW t \in Recorders, Put(t)
      PROVE  MonitorTypeOK'
  <2>1. << >> \in Seq(Action) /\ Len(<< >>) <= 1
    OBVIOUS
  <2>2. window' \in Seq(Action) /\ Len(window') <= WindowSize
    <3>1. window \o stamped[t] \in Seq(Action)
      BY <1>3
    <3> QED
      BY <1>3, <3>1, NewestFits DEF Put
  <2>3. stamped' = [stamped EXCEPT ![t] = << >>]
    BY <1>3 DEF Put
  <2> QED
    BY <1>3, <2>1, <2>2, <2>3 DEF Put
<1>4. CASE Check
  <2>1. PICK drift \in {0, 1} : found' = Anomalies(window) + drift
    BY <1>4 DEF Check
  <2>2. found' \in Nat
    BY <2>1, AnomaliesAreCounted
  <2> QED
    BY <1>4, <2>2 DEF Check
<1>5. CASE LearnBaseline
  <2>1. baseline' \subseteq Resources
    BY <1>5, ImageIsFinite DEF LearnBaseline
  <2> QED
    BY <1>5, <2>1 DEF LearnBaseline
<1>6. CASE UNCHANGED monitor
  BY <1>6 DEF monitor
<1> QED
  BY <1>1, <1>2, <1>3, <1>4, <1>5, <1>6 DEF MonitorNext

LEMMA MonitorHolds == MonitorSpec => []MonitorTypeOK
<1>1. MonitorInit => MonitorTypeOK
  BY MonitorStarts
<1>2. MonitorTypeOK /\ [MonitorNext]_monitor => MonitorTypeOK'
  BY MonitorTyped
<1> QED
  BY <1>1, <1>2, PTL DEF MonitorSpec

----------------------------------------------------------------------------
(* The chains that are found.                                              *)

\* What Matched is to be, up to the action at end.
Matching(m, actions, chain, end) ==
    m = [n \in 0..end |-> IF n = 0 THEN << >> ELSE Match(chain, m[n - 1], actions[n])]

LEMMA MatchingExists ==
    ASSUME NEW actions \in Seq(Action), NEW chain
    PROVE  \E m : Matching(m, actions, chain, Len(actions))
<1> DEFINE T == {end \in 0..Len(actions) : ~ \E m : Matching(m, actions, chain, end)}
<1>1. SUFFICES ASSUME T # {}
               PROVE  FALSE
  <2>1. Len(actions) \in 0..Len(actions)
    OBVIOUS
  <2> QED
    BY <2>1
<1>2. T \subseteq Nat
  OBVIOUS
<1>3. PICK end \in T : \A n \in T : end <= n
  BY <1>1, <1>2, LeastNumber
<1>4. end \in 0..Len(actions) /\ ~ \E m : Matching(m, actions, chain, end)
  BY <1>3
<1>5. end # 0
  <2> DEFINE m == [n \in 0..0 |-> << >>]
  <2>1. Matching(m, actions, chain, 0)
    BY DEF Matching
  <2> QED
    BY <1>4, <2>1
<1>6. end - 1 \in 0..Len(actions) /\ end - 1 \notin T
  BY <1>3, <1>4, <1>5
<1>7. PICK m : Matching(m, actions, chain, end - 1)
  BY <1>6
<1> DEFINE longer ==
       [n \in 0..end |-> IF n = end THEN Match(chain, m[end - 1], actions[end]) ELSE m[n]]
<1>8. \A n \in 0..(end - 1) : longer[n] = m[n]
  BY <1>4
<1>9. \A n \in 0..end :
         longer[n] = IF n = 0 THEN << >> ELSE Match(chain, longer[n - 1], actions[n])
  <2>1. TAKE n \in 0..end
  <2>2. CASE n = end
    <3>1. end - 1 \in 0..(end - 1)
      BY <1>4, <1>5
    <3>2. longer[n - 1] = m[end - 1]
      BY <1>8, <2>2, <3>1
    <3> QED
      BY <1>5, <2>2, <3>2
  <2>3. CASE n # end
    <3>1. n \in 0..(end - 1) /\ (n # 0 => n - 1 \in 0..(end - 1))
      BY <1>4, <2>1, <2>3
    <3>2. m[n] = IF n = 0 THEN << >> ELSE Match(chain, m[n - 1], actions[n])
      BY <1>7, <3>1 DEF Matching
    <3> QED
      BY <1>8, <3>1, <3>2
  <2> QED
    BY <2>2, <2>3
<1>10. Matching(longer, actions, chain, end)
  <2>1. longer = [n \in 0..end |-> longer[n]]
    OBVIOUS
  <2> HIDE DEF longer
  <2> QED
    BY <1>9, <2>1 DEF Matching
<1> QED
  BY <1>4, <1>10

LEMMA MatchedIsMatching ==
    ASSUME NEW actions \in Seq(Action), NEW chain
    PROVE  Matching(Matched(actions, chain), actions, chain, Len(actions))
<1>1. PICK m : Matching(m, actions, chain, Len(actions))
  BY MatchingExists
<1> QED
  BY <1>1 DEF Matched, Matching

\* What has matched after n actions: the start of the chain, in time, in n places of the
\* window.
Happened(chain, m, n) ==
    /\ m \in Seq(Action) /\ Len(m) <= Len(chain)
    /\ \A i \in 1..Len(m) : m[i].resource = chain[i] /\ m[i].at - m[1].at <= MaxGap
    /\ \E f \in [1..Len(m) -> 1..n] :
          /\ \A i \in 1..Len(m), j \in 1..Len(m) : i < j => f[i] < f[j]
          /\ \A i \in 1..Len(m) : m[i] = window[f[i]]

LEMMA NothingFound ==
    ASSUME NEW chain, Len(chain) \in Nat, NEW n \in Nat
    PROVE  Happened(chain, << >>, n)
<1>1. << >> \in Seq(Action) /\ Len(<< >>) = 0 /\ 1..Len(<< >>) = {} /\ Len(chain) >= 0
  OBVIOUS
<1>2. [i \in {} |-> 0] \in [{} -> 1..n]
  OBVIOUS
<1> QED
  BY <1>1, <1>2 DEF Happened

\* A match goes on in the window.
LEMMA HappenedLater ==
    ASSUME NEW chain, NEW m, NEW n \in Nat, Happened(chain, m, n)
    PROVE  Happened(chain, m, n + 1)
<1>1. \A f \in [1..Len(m) -> 1..n] : f \in [1..Len(m) -> 1..(n + 1)]
  OBVIOUS
<1> QED
  BY <1>1 DEF Happened

LEMMA HappenedNext ==
    ASSUME window \in Seq(Action), NEW chain, Len(chain) \in Nat, NEW n \in Nat,
           n + 1 <= Len(window), NEW m, Happened(chain, m, n), Len(m) < Len(chain),
           window[n + 1].resource = chain[Len(m) + 1],
           m # << >> => ~TooLate(m[1], window[n + 1])
    PROVE  Happened(chain, Append(m, window[n + 1]), n + 1)
<1>1. PICK a \in Action : a = window[n + 1]
  <2>1. n + 1 \in 1..Len(window)
    OBVIOUS
  <2> QED
    BY <2>1
<1>2. m \in Seq(Action) /\ Len(m) \in Nat /\ Len(chain) \in Nat
  BY DEF Happened
<1>3. PICK k \in Nat : k = Len(m)
  BY <1>2
<1>4. PICK w : w = Append(m, a)
  OBVIOUS
<1>5. /\ w \in Seq(Action) /\ Len(w) = k + 1 /\ w[k + 1] = a
      /\ \A i \in 1..k : w[i] = m[i]
  BY <1>2, <1>3, <1>4
<1>6. k + 1 <= Len(chain)
  BY <1>2, <1>3
<1>7. \A i \in 1..(k + 1) : i \in 1..k \/ i = k + 1
  BY <1>3
<1>8. w[k + 1].resource = chain[k + 1] /\ \A i \in 1..k : w[i].resource = chain[i]
  BY <1>1, <1>3, <1>5 DEF Happened
<1>9. \A i \in 1..(k + 1) : w[i].at - w[1].at <= MaxGap
  <2>1. CASE k = 0
    <3>1. a.at \in Int /\ MaxGap \in Nat
      BY MonitorAssumption DEF Action, Ticks
    <3> QED
      BY <1>5, <1>7, <2>1, <3>1
  <2>2. CASE k # 0
    <3>1. 1 \in 1..k /\ m # << >>
      BY <1>3, <2>2
    <3>2. w[1] = m[1] /\ a.at - m[1].at <= MaxGap
      <4>1. m[1] \in Action
        BY <1>2, <1>3, <3>1
      <4>2. \A b \in Action : b.at \in Int
        BY DEF Action, Ticks
      <4>3. a.at \in Int /\ m[1].at \in Int /\ MaxGap \in Int
        BY <1>1, <4>1, <4>2, MonitorAssumption
      <4> QED
        BY <1>1, <1>5, <3>1, <4>3 DEF TooLate
    <3>3. \A i \in 1..k : m[i].at - m[1].at <= MaxGap
      BY <1>3 DEF Happened
    <3> QED
      BY <1>5, <1>7, <3>2, <3>3
  <2> QED
    BY <2>1, <2>2
<1>10. PICK f \in [1..k -> 1..n] :
          /\ \A i \in 1..k, j \in 1..k : i < j => f[i] < f[j]
          /\ \A i \in 1..k : m[i] = window[f[i]]
  BY <1>3 DEF Happened
<1>11. PICK g : g = [i \in 1..(k + 1) |-> IF i = k + 1 THEN n + 1 ELSE f[i]]
  OBVIOUS
<1>12. /\ \A i \in 1..k : i # k + 1 /\ i \in 1..(k + 1) /\ g[i] = f[i] /\ f[i] \in 1..n
       /\ g[k + 1] = n + 1
  <2>1. \A i \in 1..k : i # k + 1 /\ i \in 1..(k + 1)
    OBVIOUS
  <2>2. k + 1 \in 1..(k + 1)
    OBVIOUS
  <2> QED
    BY <1>10, <1>11, <2>1, <2>2
<1>13. g \in [1..(k + 1) -> 1..(n + 1)]
  <2>1. \A i \in 1..(k + 1) : g[i] \in 1..(n + 1)
    BY <1>7, <1>12
  <2> QED
    BY <1>11, <2>1
<1>14. \A i \in 1..(k + 1), j \in 1..(k + 1) : i < j => g[i] < g[j]
  <2>1. \A i \in 1..k : g[i] < g[k + 1]
    BY <1>12
  <2>2. \A i \in 1..k, j \in 1..k : i < j => g[i] < g[j]
    BY <1>10, <1>12
  <2>3. \A i \in 1..(k + 1), j \in 1..(k + 1) : i < j => i \in 1..k
    BY <1>3
  <2> QED
    BY <1>7, <2>1, <2>2, <2>3
<1>15. \A i \in 1..(k + 1) : w[i] = window[g[i]]
  BY <1>1, <1>5, <1>7, <1>10, <1>12
<1>16. Happened(chain, w, n + 1)
  BY <1>5, <1>6, <1>7, <1>8, <1>9, <1>13, <1>14, <1>15 DEF Happened
<1> QED
  BY <1>1, <1>4, <1>16

LEMMA HappenedStep ==
    ASSUME window \in Seq(Action), NEW chain, Len(chain) \in Nat \ {0},
           NEW n \in Nat, n + 1 <= Len(window), NEW m, Happened(chain, m, n)
    PROVE  Happened(chain, Match(chain, m, window[n + 1]), n + 1)
<1>1. PICK a : a = window[n + 1]
  OBVIOUS
<1>2. m \in Seq(Action) /\ Len(m) \in Nat /\ Len(chain) \in Nat /\ Len(m) <= Len(chain)
  BY DEF Happened
<1>3. CASE Len(m) = Len(chain)
  <2>1. Match(chain, m, a) = m
    BY <1>3 DEF Match
  <2> QED
    BY <1>1, <2>1, HappenedLater
<1>4. CASE Len(m) < Len(chain) /\ a.resource # chain[Len(m) + 1]
  <2>1. Match(chain, m, a) = m
    BY <1>2, <1>4 DEF Match
  <2> QED
    BY <1>1, <2>1, HappenedLater
<1>5. CASE Len(m) < Len(chain) /\ a.resource = chain[Len(m) + 1]
  <2>1. Match(chain, m, a) =
           IF m # << >> /\ TooLate(m[1], a)
           THEN IF a.resource = chain[1] THEN <<a>> ELSE << >>
           ELSE Append(m, a)
    BY <1>2, <1>5 DEF Match
  <2>2. CASE m # << >> /\ TooLate(m[1], a) /\ a.resource = chain[1]
    <3>1. Happened(chain, << >>, n)
      BY NothingFound
    <3>2. Len(<< >>) < Len(chain) /\ a.resource = chain[Len(<< >>) + 1]
      BY <2>2
    <3>3. \A empty : empty = << >> => Happened(chain, Append(empty, a), n + 1)
      BY <1>1, <3>1, <3>2, HappenedNext
    <3>4. Happened(chain, Append(<< >>, a), n + 1)
      BY <3>3
    <3>5. Append(<< >>, a) = <<a>>
      OBVIOUS
    <3> QED
      BY <1>1, <2>1, <2>2, <3>4, <3>5
  <2>3. CASE m # << >> /\ TooLate(m[1], a) /\ a.resource # chain[1]
    BY <1>1, <2>1, <2>3, NothingFound
  <2>4. CASE ~(m # << >> /\ TooLate(m[1], a))
    BY <1>1, <1>5, <2>1, <2>4, HappenedNext
  <2> QED
    BY <2>2, <2>3, <2>4
<1> QED
  BY <1>2, <1>3, <1>4, <1>5

LEMMA ChainsMatch ==
    ASSUME window \in Seq(Action), NEW chain \in EscalationChains
    PROVE  LET m == FindChain(window, chain)
           IN m = << >> \/ Happened(chain, m, Len(window))
<1>1. Len(chain) \in Nat /\ Len(chain) >= 1
  <2>1. \A a, b : Len(<<a, b>>) = 2
    OBVIOUS
  <2>2. \A a, b, c : Len(<<a, b, c>>) = 3
    OBVIOUS
  <2>3. Len(chain) = 2 \/ Len(chain) = 3
    BY <2>1, <2>2, Zenon DEF EscalationChains
  <2> QED
    BY <2>3
<1>2. PICK m : m = Matched(window, chain)
  OBVIOUS
<1>3. Matching(m, window, chain, Len(window))
  BY <1>2, MatchedIsMatching
<1> DEFINE T == {n \in 0..Len(window) : ~Happened(chain, m[n], n)}
<1>4. T = {}
  <2>1. SUFFICES ASSUME T # {}
                 PROVE  FALSE
    OBVIOUS
  <2>2. T \subseteq Nat
    OBVIOUS
  <2>3. PICK n \in T : \A k \in T : n <= k
    BY <2>1, <2>2, LeastNumber
  <2>4. n \in 0..Len(window) /\ ~Happened(chain, m[n], n) /\ Len(window) \in Nat
    BY <2>3
  <2>5. m[n] = IF n = 0 THEN << >> ELSE Match(chain, m[n - 1], window[n])
    BY <1>3, <2>4 DEF Matching
  <2>6. n # 0
    BY <1>1, <2>4, <2>5, NothingFound
  <2>7. PICK k \in Nat : k = n - 1
    BY <2>4, <2>6
  <2>8. n = k + 1 /\ k \in 0..Len(window) /\ k + 1 <= Len(window) /\ k \notin T
    BY <2>3, <2>4, <2>7
  <2>9. Happened(chain, m[k], k)
    BY <2>8
  <2>10. Happened(chain, Match(chain, m[k], window[k + 1]), k + 1)
    BY <1>1, <2>8, <2>9, HappenedStep
  <2> QED
    BY <2>4, <2>5, <2>6, <2>7, <2>8, <2>10
<1>5. Len(window) \in 0..Len(window)
  OBVIOUS
<1>6. Happened(chain, m[Len(window)], Len(window))
  BY <1>4, <1>5
<1> QED
  BY <1>2, <1>6 DEF FindChain

LEMMA ChainsHappened ==
    ASSUME window \in Seq(Action)
    PROVE  NoFalseChain
<1> SUFFICES ASSUME NEW chain \in EscalationChains, NEW m,
                    m = FindChain(window, chain), m # << >>
             PROVE  /\ \A i \in DOMAIN m :
                          m[i].resource = chain[i] /\ m[i].at - m[1].at <= MaxGap
                    /\ \E f \in Places(Len(m)) : \A i \in DOMAIN m : m[i] = window[f[i]]
  BY DEF NoFalseChain
<1>1. Happened(chain, m, Len(window))
  BY ChainsMatch
<1>2. m \in Seq(Action) /\ DOMAIN m = 1..Len(m) /\ DOMAIN window = 1..Len(window)
  BY <1>1 DEF Happened
<1>3. \A i \in DOMAIN m : m[i].resource = chain[i] /\ m[i].at - m[1].at <= MaxGap
  BY <1>1, <1>2 DEF Happened
<1>4. PICK f \in [1..Len(m) -> 1..Len(window)] :
        /\ \A i \in 1..Len(m), j \in 1..Len(m) : i < j => f[i] < f[j]
        /\ \A i \in 1..Len(m) : m[i] = window[f[i]]
  BY <1>1, <1>2 DEF Happened
<1>5. f \in Places(Len(m))
  BY <1>2, <1>4 DEF Places
<1> QED
  BY <1>2, <1>3, <1>4, <1>5

\* _find_chain, on a window of any size and with any gap, whatever order the threads that
\* record its actions left them in: what it reports as a chain is in the window in this
\* order, and no action of it is more than max_gap_seconds after the first.
THEOREM ChainsAreReal == MonitorSpec => []NoFalseChain
<1>1. MonitorTypeOK => NoFalseChain
  BY ChainsHappened DEF MonitorTypeOK
<1> QED
  BY <1>1, MonitorHolds, PTL
=============================================================================
