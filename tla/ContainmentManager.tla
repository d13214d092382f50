------------------------- MODULE ContainmentManager -------------------------
(***************************************************************************)
(* ContainmentManager (aigis/monitor/containment.py): the checks of        *)
(* BehavioralMonitor hand their alerts to process_alerts, which counts     *)
(* them and raises the level of containment; an admin sets the level by    *)
(* hand or resets it.  Nothing here holds a lock: the threads that use one *)
(* monitor come between each other's reads and writes.                     *)
(***************************************************************************)
EXTENDS Integers, FiniteSets

CONSTANTS
    Checkers,      \* the threads that call check
    Thresholds,    \* Thresholds[l]: the alerts for level l, if it has a threshold
    MaxAutoLevel,
    Orders,        \* bound: the levels an admin sets by hand
    MaxAlerts      \* bound: the alerts since a reset

VARIABLES
    count,     \* _alert_count
    level,     \* _state.level
    processing,      \* processing[c]: where c is in process_alerts
    resetting, \* the admin is between the two writes of reset; some call overlapped it
    heard,     \* history: the alerts handed over since the last reset that no call overlapped
    manual,    \* history: the highest level set by hand since the last reset
    fresh,     \* history: alerts came after the last order of the admin
    alone      \* history: no two calls, orders and resets since that reset overlapped

containment == <<count, level, processing, resetting, heard, manual, fresh, alone>>

\* NORMAL, WARN, THROTTLE, RESTRICT, ISOLATE, STOP.
Levels == 0..5
Normal == 0

ASSUME ContainmentAssumption ==
    /\ DOMAIN Thresholds \subseteq Levels \ {Normal}
    /\ \A l \in DOMAIN Thresholds : Thresholds[l] \in Nat
    /\ MaxAutoLevel \in Levels /\ Orders \subseteq Levels
    /\ MaxAlerts \in Nat

\* sum: what will be stored in count; looked: the last level that the walk has looked
\* at; target: the highest that qualified.
Call == [pc : {"idle", "adding", "walking", "raising"}, sum : 0..MaxAlerts,
         looked : Levels, target : Levels]
Done == [pc |-> "idle", sum |-> 0, looked |-> Normal, target |-> Normal]

ContainmentTypeOK ==
    /\ count \in 0..MaxAlerts /\ heard \in 0..MaxAlerts
    /\ level \in Levels /\ manual \in Levels
    /\ processing \in [Checkers -> Call]
    /\ resetting \in {"no", "apart", "overlapped"}
    /\ fresh \in BOOLEAN /\ alone \in BOOLEAN

ContainmentInit ==
    /\ count = 0 /\ heard = 0
    /\ level = Normal /\ manual = Normal
    /\ processing = [c \in Checkers |-> Done]
    /\ resetting = "no"
    /\ fresh = FALSE /\ alone = TRUE
----------------------------------------------------------------------------
CallStates == {c \in Checkers : processing[c].pc # "idle"}

\* process_alerts with n alerts, which the detectors found in c's copy of the window
\* (Monitor): any number.  _alert_count += n is a read and a write.
ReadCount(c, n) ==
    /\ processing[c].pc = "idle"
    /\ heard + n <= MaxAlerts
    /\ processing' = [processing EXCEPT ![c] = [Done EXCEPT !.pc = "adding", !.sum = count + n]]
    /\ heard' = heard + n
    /\ fresh' = TRUE
    /\ alone' = (alone /\ CallStates = {} /\ resetting = "no")
    /\ resetting' = IF resetting = "no" THEN "no" ELSE "overlapped"
    /\ UNCHANGED <<count, level, manual>>

WriteCount(c) ==
    /\ processing[c].pc = "adding"
    /\ count' = processing[c].sum
    /\ processing' = [processing EXCEPT ![c] = [Done EXCEPT !.pc = "walking"]]
    /\ UNCHANGED <<level, resetting, heard, manual, fresh, alone>>

\* The levels that the walk has still to compare with the count.
Unseen(c) == {l \in DOMAIN Thresholds : l > processing[c].looked}

\* One turn of _evaluate_escalation's loop, which reads the count anew.
Look(c) ==
    /\ processing[c].pc = "walking"
    /\ \E l \in Unseen(c) :
          /\ \A k \in Unseen(c) : l <= k
          /\ processing' = [processing EXCEPT ![c].looked = l,
                                  ![c].target = IF count >= Thresholds[l] THEN l ELSE @]
    /\ UNCHANGED <<count, level, resetting, heard, manual, fresh, alone>>

CappedLevel(target) == IF target > MaxAutoLevel THEN MaxAutoLevel ELSE target

\* Only escalate: the target is compared with the level, and replaces it later.
CompareLevel(c) ==
    /\ processing[c].pc = "walking" /\ Unseen(c) = {}
    /\ LET target == CappedLevel(processing[c].target) IN
       processing' = [processing EXCEPT ![c] = IF target > level
                                   THEN [Done EXCEPT !.pc = "raising", !.target = target]
                                   ELSE Done]
    /\ UNCHANGED <<count, level, resetting, heard, manual, fresh, alone>>

RaiseLevel(c) ==
    /\ processing[c].pc = "raising"
    /\ level' = processing[c].target
    /\ processing' = [processing EXCEPT ![c] = Done]
    /\ UNCHANGED <<count, resetting, heard, manual, fresh, alone>>

\* To any level, also a lower one.
EscalateManual(l) ==
    /\ level' = l
    /\ manual' = IF l > manual THEN l ELSE manual
    /\ fresh' = FALSE
    /\ alone' = (alone /\ CallStates = {})
    /\ UNCHANGED <<count, processing, resetting, heard>>

\* Mutant: the alerts stay counted.
KeepCount ==
    /\ resetting = "no"
    /\ resetting' = IF CallStates = {} THEN "apart" ELSE "overlapped"
    /\ alone' = (alone /\ CallStates = {})
    /\ UNCHANGED <<count, level, processing, heard, manual, fresh>>

ResetCount ==
    /\ resetting = "no"
    /\ count' = 0
    /\ resetting' = IF CallStates = {} THEN "apart" ELSE "overlapped"
    /\ alone' = (alone /\ CallStates = {})
    /\ UNCHANGED <<level, processing, heard, manual, fresh>>

ResetLevel ==
    /\ resetting # "no"
    /\ level' = Normal /\ manual' = Normal
    /\ heard' = IF resetting = "apart" THEN 0 ELSE heard
    /\ alone' = (resetting = "apart")
    /\ resetting' = "no"
    /\ fresh' = FALSE
    /\ UNCHANGED <<count, processing>>

ContainmentNext ==
    \/ \E c \in Checkers, n \in 1..MaxAlerts : ReadCount(c, n)
    \/ \E c \in Checkers : WriteCount(c)
    \/ \E c \in Checkers : Look(c)
    \/ \E c \in Checkers : CompareLevel(c)
    \/ \E c \in Checkers : RaiseLevel(c)
    \/ \E l \in Orders : EscalateManual(l)
    \/ ResetCount
    \/ ResetLevel

ContainmentSpec == ContainmentInit /\ [][ContainmentNext]_containment
----------------------------------------------------------------------------
Reached(n) == {Normal} \cup {l \in DOMAIN Thresholds : n >= Thresholds[l]}

\* However checks, orders and resets overlap: a level above MaxAutoLevel was set by hand
\* since the last reset, and any other level above what was set by hand has behind it
\* the alerts since the last reset that no check overlapped (for itself, or for a higher
\* one that is not reached without an admin).  A reset that a check overlaps may leave a
\* level, or a count, of before it.  Where nothing overlapped since, and alerts came
\* after the admin's last order, containment is not laxer than they make it: overlapping
\* checks may lose alerts, and lower each other's level.
LevelIsEarned ==
    /\ level > manual =>
          level <= MaxAutoLevel /\ \E l \in Reached(heard) : level <= l
    /\ alone /\ fresh /\ CallStates = {} =>
          \A l \in Reached(heard) : l <= MaxAutoLevel => level >= l

\* What the comment in _evaluate_escalation says: only escalate, never auto-de-escalate.
\* Two checks that overlap, or an order of the admin between the comparison and the
\* assignment, let a check lower the level.
NeverDeescalates ==
    [][\A c \in Checkers : RaiseLevel(c) => level' >= level]_containment
=============================================================================
