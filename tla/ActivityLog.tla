---------------------------- MODULE ActivityLog ----------------------------
(***************************************************************************)
(* ActivityStream (aigis/activity.py): events in daily files of three      *)
(* tiers, the rotation that compresses and deletes them, and crashes       *)
(* between the writes, and between the steps of a rotation.                *)
(***************************************************************************)
EXTENDS Integers, FiniteSets

CONSTANTS
    Events,
    Alerts,          \* the events that are alerts
    Retention,       \* LOG_RETENTION_DAYS
    CompressAfter,   \* COMPRESS_AFTER_DAYS
    LastDay          \* bound: the days that pass

VARIABLES
    today,
    plain,    \* plain[t][d]: the events in tier t's file of day d
    packed,   \* packed[t][d]: the .gz file, in which form it is and what it holds
    stage,    \* stage[e]: the writes of record that were made
    rotation, \* the file that rotate_logs works on
    day       \* history: day[t][e] is the day in whose file tier t has e

activity == <<today, plain, packed, stage, rotation, day>>

ASSUME ActivityAssumption ==
    /\ Alerts \subseteq Events
    /\ Retention \in Nat /\ CompressAfter \in Nat /\ CompressAfter <= Retention
    /\ LastDay \in Nat

Tiers == {"local", "global", "alerts"}
Days == 0..LastDay
Unwritten == -1

\* empty: opened, and nothing of its stream is on the disk; cut: a part of it is.
Packed == [form : {"none", "empty", "cut", "whole"}, events : SUBSET Events]
NoFile == [form |-> "none", events |-> {}]

Rotation == [pc : {"idle", "writing", "written", "deleting"}, tier : Tiers, day : Days]
Resting == [pc |-> "idle", tier |-> "local", day |-> 0]

ActivityTypeOK ==
    /\ today \in Days
    /\ plain \in [Tiers -> [Days -> SUBSET Events]]
    /\ packed \in [Tiers -> [Days -> Packed]]
    /\ stage \in [Events -> {"new", "local", "global", "done", "lost"}]
    /\ rotation \in Rotation
    /\ day \in [Tiers -> [Events -> Days \cup {Unwritten}]]

ActivityInit ==
    /\ today = 0
    /\ plain = [t \in Tiers |-> [d \in Days |-> {}]]
    /\ packed = [t \in Tiers |-> [d \in Days |-> NoFile]]
    /\ stage = [e \in Events |-> "new"]
    /\ rotation = Resting
    /\ day = [t \in Tiers |-> [e \in Events |-> Unwritten]]

NextDay ==
    /\ today < LastDay
    /\ today' = today + 1
    /\ UNCHANGED <<plain, packed, stage, rotation, day>>

Write(e, t, from, to) ==
    /\ stage[e] = from
    /\ stage' = [stage EXCEPT ![e] = to]
    /\ plain' = [plain EXCEPT ![t][today] = @ \cup {e}]
    /\ day' = [day EXCEPT ![t][e] = today]
    /\ UNCHANGED <<today, packed, rotation>>

\* record: each tier's file is of the day at its own write.
WriteLocal(e) == Write(e, "local", "new", "local")
WriteGlobal(e) == Write(e, "global", "local", IF e \in Alerts THEN "global" ELSE "done")
WriteAlert(e) == Write(e, "alerts", "global", "done")

\* The process ends before its next write.
StopRecording(e) ==
    /\ stage[e] \in {"local", "global"}
    /\ stage' = [stage EXCEPT ![e] = "lost"]
    /\ UNCHANGED <<today, plain, packed, rotation, day>>

----------------------------------------------------------------------------
\* Alerts are never rotated.
Rotated == {"local", "global"}

\* Mutant: a day too early.
AgedEarly(d, age) == today - d >= age

Aged(d, age) == today - d > age

\* rotate_logs lists the plain files only.
Rotate(t, d) == rotation.pc = "idle" /\ t \in Rotated /\ plain[t][d] # {}

DeletePlain(t, d) ==
    /\ Rotate(t, d)
    /\ Aged(d, Retention)
    /\ plain' = [plain EXCEPT ![t][d] = {}]
    /\ rotation' = IF packed[t][d].form # "none" THEN [pc |-> "deleting", tier |-> t, day |-> d] ELSE Resting
    /\ UNCHANGED <<today, packed, stage, day>>

DeletePacked ==
    /\ rotation.pc = "deleting"
    /\ packed' = [packed EXCEPT ![rotation.tier][rotation.day] = NoFile]
    /\ rotation' = Resting
    /\ UNCHANGED <<today, plain, stage, day>>

\* The .gz file is there before its content is, which is flushed in parts.
OpenPacked(t, d) ==
    /\ Rotate(t, d)
    /\ Aged(d, CompressAfter) /\ ~Aged(d, Retention)
    /\ packed[t][d].form = "none"
    /\ packed' = [packed EXCEPT ![t][d].form = "empty"]
    /\ rotation' = [pc |-> "writing", tier |-> t, day |-> d]
    /\ UNCHANGED <<today, plain, stage, day>>

FlushPacked ==
    /\ rotation.pc = "writing"
    /\ packed[rotation.tier][rotation.day].form = "empty"
    /\ packed' = [packed EXCEPT ![rotation.tier][rotation.day].form = "cut"]
    /\ UNCHANGED <<today, plain, stage, rotation, day>>

FillPacked ==
    LET t == rotation.tier
        d == rotation.day IN
    /\ rotation.pc = "writing"
    /\ packed' = [packed EXCEPT ![t][d] = [form |-> "whole", events |-> plain[t][d]]]
    /\ rotation' = [rotation EXCEPT !.pc = "written"]
    /\ UNCHANGED <<today, plain, stage, day>>

RemovePlain ==
    /\ rotation.pc = "written"
    /\ plain' = [plain EXCEPT ![rotation.tier][rotation.day] = {}]
    /\ rotation' = Resting
    /\ UNCHANGED <<today, packed, stage, day>>

\* What a rotation left half done stays so: a later one finds the .gz file and does
\* not compress again.
StopRotating ==
    /\ rotation.pc # "idle"
    /\ rotation' = Resting
    /\ UNCHANGED <<today, plain, packed, stage, day>>

ActivityNext ==
    \/ NextDay
    \/ \E e \in Events : WriteLocal(e)
    \/ \E e \in Events : WriteGlobal(e)
    \/ \E e \in Alerts : WriteAlert(e)
    \/ \E e \in Events : StopRecording(e)
    \/ \E t \in Tiers, d \in Days : DeletePlain(t, d)
    \/ DeletePacked
    \/ \E t \in Tiers, d \in Days : OpenPacked(t, d)
    \/ FlushPacked
    \/ FillPacked
    \/ RemovePlain
    \/ StopRotating

ActivitySpec == ActivityInit /\ [][ActivityNext]_activity

----------------------------------------------------------------------------
\* The events that are on the disk in the files of day d.  A .gz file of no bytes reads
\* as no lines.
OnDisk(t, d) == plain[t][d] \cup IF packed[t][d].form = "whole" THEN packed[t][d].events ELSE {}

\* The days of query(days = n).
Asked(n) == {d \in Days : d <= today /\ today - d < n}

\* query of tier t over n days, with a limit that it does not reach.  Of what can go
\* wrong with a line _read_jsonl catches JSONDecodeError only: the EOFError at the end
\* of a cut .gz file goes up to the caller, and nothing of any day is returned.
QueryRaises(t, n) == \E d \in Asked(n) : packed[t][d].form = "cut"
Query(t, n) == IF QueryRaises(t, n) THEN {} ELSE UNION {OnDisk(t, d) : d \in Asked(n)}

\* An event that was written, and that is to be kept: in the archive of alerts forever.
Keeps(t, e) ==
    /\ day[t][e] # Unwritten
    /\ t = "alerts" \/ today - day[t][e] <= Retention

\* Whichever step of a rotation was the last, an event that is to be kept is on the
\* disk, in one form or the other, and a query over enough days returns it or raises.
\* A query that raises met a .gz file that is being written or that a crash cut; the
\* plain file of each such day that is still kept is there.  A query of the alerts never
\* raises.
KeptForRetention ==
    \A t \in Tiers, e \in Events, n \in 1..(LastDay + 1) :
        Keeps(t, e) /\ day[t][e] \in Asked(n) =>
            /\ e \in OnDisk(t, day[t][e])
            /\ e \in Query(t, n) \/ QueryRaises(t, n)
            /\ t = "alerts" => ~QueryRaises(t, n)
            /\ \A d \in Asked(n) :
                  packed[t][d].form = "cut" /\ ~Aged(d, Retention) => plain[t][d] # {}
=============================================================================
