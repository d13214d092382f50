------------------------------ MODULE Sessions ------------------------------
(***************************************************************************)
(* SessionStore and CrossSessionCorrelator (aigis/cross_session): a file   *)
(* for each session, written when it ends and again when it is resumed,    *)
(* deleted or pruned, and the trends found over those of the last days.    *)
(* One session starts each day, and its day is its name.                   *)
(***************************************************************************)
EXTENDS Integers, Sequences

CONSTANTS
    RiskScores,      \* what max_risk_score may be
    Containment, \* the ranks of containment_max_level
    MaxAge,      \* max_age_days of prune_old
    Window,      \* window_days of analyze
    FinalDay     \* bound

VARIABLES
    sessionDay,
    sessions     \* sessions[d]: the file of the session of day d

sessionStore == <<sessionDay, sessions>>

ASSUME SessionsAssumption ==
    /\ RiskScores \subseteq 0..100 /\ Containment \subseteq 0..5
    /\ MaxAge \in Nat /\ Window \in Nat /\ FinalDay \in Nat \ {0}

SessionDays == 1..FinalDay
Missing == [file |-> "missing", risk |-> 0, level |-> 0]
TornFile == [file |-> "torn", risk |-> 0, level |-> 0]
SessionRecord == [file : {"whole"}, risk : RiskScores, level : Containment]

SessionsTypeOK ==
    /\ sessionDay \in SessionDays
    /\ sessions \in [SessionDays -> SessionRecord \cup {Missing, TornFile}]
    /\ \A d \in SessionDays : d > sessionDay => sessions[d] = Missing

SessionsInit == sessionDay = 1 /\ sessions = [d \in SessionDays |-> Missing]
----------------------------------------------------------------------------
SaveSession(d, risk, held) ==
    /\ d <= sessionDay
    /\ sessions' = [sessions EXCEPT ![d] = [file |-> "whole", risk |-> risk, level |-> held]]
    /\ UNCHANGED sessionDay

\* The process ends in save_session, after the file was opened.
TearSession(d) ==
    /\ d <= sessionDay
    /\ sessions' = [sessions EXCEPT ![d] = TornFile]
    /\ UNCHANGED sessionDay

DeleteSession(d) ==
    /\ sessions[d] # Missing
    /\ sessions' = [sessions EXCEPT ![d] = Missing]
    /\ UNCHANGED sessionDay

\* A file that json cannot read is passed over, and stays.
PruneOld ==
    /\ sessions' = [d \in SessionDays |->
          IF sessions[d].file = "whole" /\ d < sessionDay - MaxAge THEN Missing
          ELSE sessions[d]]
    /\ UNCHANGED sessionDay

NextSessionDay ==
    /\ sessionDay < FinalDay
    /\ sessionDay' = sessionDay + 1
    /\ UNCHANGED sessions

SessionsNext ==
    \/ \E d \in SessionDays, risk \in RiskScores, held \in Containment :
        SaveSession(d, risk, held)
    \/ \E d \in SessionDays : TearSession(d)
    \/ \E d \in SessionDays : DeleteSession(d)
    \/ PruneOld
    \/ NextSessionDay

SessionsSpec == SessionsInit /\ [][SessionsNext]_sessionStore
----------------------------------------------------------------------------
\* list_sessions, and the sort of analyze: the days in their order.
InWindow == {d \in SessionDays : sessions[d].file = "whole" /\ d >= sessionDay - Window}

Analyzed ==
    LET until[d \in 0..FinalDay] ==
            IF d = 0 THEN << >>
            ELSE IF d \in InWindow THEN Append(until[d - 1], d) ELSE until[d - 1]
    IN until[FinalDay]

\* The runs of _check_escalation_trend: best is the longest that ended, run the one
\* that goes on.
Grow(values, acc, i) ==
    IF values[i] > values[i - 1]
    THEN [acc EXCEPT !.run.length = @ + 1]
    ELSE [best |-> IF acc.run.length > acc.best.length THEN acc.run ELSE acc.best,
          run |-> [start |-> i, length |-> 1]]

Runs(values) ==
    LET one == [start |-> 1, length |-> 1]
        acc[i \in 1..Len(values)] ==
            IF i = 1 THEN [best |-> one, run |-> one] ELSE Grow(values, acc[i - 1], i)
    IN acc[Len(values)]

\* Mutant: the run at the end is forgotten.
EndedRun(values) == Runs(values).best

LongestRun(values) ==
    LET runs == Runs(values)
    IN IF runs.run.length > runs.best.length THEN runs.run ELSE runs.best

\* The days named by the alert, none if there is no alert.
Trend(days, values) ==
    IF Len(days) < 3 \/ LongestRun(values).length < 3 THEN << >>
    ELSE LET r == LongestRun(values) IN SubSeq(days, r.start, r.start + r.length - 1)

Risk(days) == [i \in DOMAIN days |-> sessions[days[i]].risk]
Level(days) == [i \in DOMAIN days |-> sessions[days[i]].level]

----------------------------------------------------------------------------
Rising(values, i, n) == \A j \in i..(i + n - 2) : values[j] < values[j + 1]

\* A trend names sessions that follow one another in the window, each above the one
\* before, and as many as any such row has; with three in a row there is an alert,
\* whatever was saved again, torn, deleted or pruned before the analysis.
TrendIsReal ==
    \A values \in {Risk(Analyzed), Level(Analyzed)} :
        LET named == Trend(Analyzed, values)
            rows == {n \in 3..Len(values) : \E i \in 1..(Len(values) - n + 1) : Rising(values, i, n)}
        IN IF rows = {} THEN named = << >>
           ELSE /\ Len(named) \in rows /\ \A n \in rows : n <= Len(named)
                /\ \E i \in DOMAIN values :
                      /\ i + Len(named) - 1 <= Len(values)
                      /\ named = SubSeq(Analyzed, i, i + Len(named) - 1)
                      /\ Rising(values, i, Len(named))
=============================================================================
