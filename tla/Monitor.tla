------------------------------ MODULE Monitor ------------------------------
(***************************************************************************)
(* BehavioralMonitor (aigis/monitor): threads record their actions in a    *)
(* sliding window, and a check looks for chains, bursts and new resources  *)
(* in it.                                                                  *)
(***************************************************************************)
EXTENDS Integers, Sequences, FiniteSets

CONSTANTS
    Recorders,       \* those that record actions
    Resources,     \* the kinds of resource that they use
    WindowSize,    \* deque(maxlen)
    MaxGap,        \* max_gap_seconds, in ticks
    Minute,        \* 60 seconds, in ticks
    MaxPerMinute,
    LastTick       \* bound: ticks

VARIABLES
    ticks,
    stamped,   \* stamped[t]: the actions t has given a time, and not yet recorded
    window,    \* _actions
    baseline,  \* the resources of the learnt profile, none before
    found      \* how many alerts the last check returned

monitor == <<ticks, stamped, window, baseline, found>>

ASSUME MonitorAssumption ==
    /\ WindowSize \in Nat \ {0} /\ MaxGap \in Nat /\ Minute \in Nat /\ MaxPerMinute \in Nat
    /\ LastTick \in Nat

Ticks == 0..LastTick
Action == [resource : Resources, at : Ticks]

MonitorTypeOK ==
    /\ ticks \in Ticks
    /\ stamped \in [Recorders -> Seq(Action)]
    /\ \A t \in Recorders : Len(stamped[t]) <= 1
    /\ window \in Seq(Action) /\ Len(window) <= WindowSize
    /\ baseline \subseteq Resources
    /\ found \in Nat

MonitorInit ==
    /\ ticks = 0
    /\ stamped = [t \in Recorders |-> << >>]
    /\ window = << >>
    /\ baseline = {}
    /\ found = 0

Pass ==
    /\ ticks < LastTick
    /\ ticks' = ticks + 1
    /\ UNCHANGED <<stamped, window, baseline, found>>

\* record takes the time before the lock: the window need not be in order of time.
Stamp(t, resource) ==
    /\ stamped[t] = << >>
    /\ stamped' = [stamped EXCEPT ![t] = <<[resource |-> resource, at |-> ticks]>>]
    /\ UNCHANGED <<ticks, window, baseline, found>>

\* The last n elements of s.
Newest(s, n) == IF Len(s) <= n THEN s ELSE SubSeq(s, Len(s) - n + 1, Len(s))

Put(t) ==
    /\ stamped[t] # << >>
    /\ window' = Newest(window \o stamped[t], WindowSize)
    /\ stamped' = [stamped EXCEPT ![t] = << >>]
    /\ UNCHANGED <<ticks, baseline, found>>

----------------------------------------------------------------------------
EscalationChains ==
    {<<"file:read", "file:write", "shell:exec">>, <<"file:read", "network:fetch">>,
     <<"file:read", "network:send">>, <<"shell:exec", "network:send">>,
     <<"database:query", "network:send">>, <<"file:read", "shell:exec", "network:send">>}

\* Mutant: no gap is too long.
AnyGap(first, a) == FALSE

TooLate(first, a) == a.at - first.at > MaxGap

\* One turn of _find_chain's loop, m the actions that matched so far.
Match(chain, m, a) ==
    CASE Len(m) = Len(chain) -> m
      [] Len(m) < Len(chain) /\ a.resource # chain[Len(m) + 1] -> m
      [] OTHER -> IF m # << >> /\ TooLate(m[1], a)
                  THEN IF a.resource = chain[1] THEN <<a>> ELSE << >>
                  ELSE Append(m, a)

\* Matched(actions, chain)[n]: those that matched after the first n.
Matched(actions, chain) ==
    LET m[n \in 0..Len(actions)] ==
            IF n = 0 THEN << >> ELSE Match(chain, m[n - 1], actions[n])
    IN m

FindChain(actions, chain) ==
    LET m == Matched(actions, chain)[Len(actions)]
    IN IF Len(m) = Len(chain) THEN m ELSE << >>

RapidFire(actions) ==
    /\ Len(actions) >= MaxPerMinute
    /\ \E i \in DOMAIN actions :
          Cardinality({j \in i..Len(actions) : actions[j].at <= actions[i].at + Minute})
            > MaxPerMinute

NewResources(actions) ==
    IF baseline = {} THEN {} ELSE {actions[i].resource : i \in DOMAIN actions} \ baseline

\* The alerts of AnomalyDetector.
Anomalies(actions) ==
    Cardinality({chain \in EscalationChains : FindChain(actions, chain) # << >>})
    + (IF RapidFire(actions) THEN 1 ELSE 0)
    + Cardinality(NewResources(actions))

\* check: the detectors work on a copy of the window that they take under the tracker's
\* lock, and process_alerts gets what they find (ContainmentManager).  DriftDetector
\* compares shares and averages with the baseline; here its statistics say anything,
\* once there is a baseline.
Check ==
    /\ window # << >>
    /\ \E drift \in IF baseline = {} THEN {0} ELSE {0, 1} : found' = Anomalies(window) + drift
    /\ UNCHANGED <<ticks, stamped, window, baseline>>

LearnBaseline ==
    /\ baseline' = {window[i].resource : i \in DOMAIN window}
    /\ UNCHANGED <<ticks, stamped, window, found>>

MonitorNext ==
    \/ Pass
    \/ \E t \in Recorders, r \in Resources : Stamp(t, r)
    \/ \E t \in Recorders : Put(t)
    \/ Check
    \/ LearnBaseline

MonitorSpec == MonitorInit /\ [][MonitorNext]_monitor

----------------------------------------------------------------------------
\* The places in the window of n actions, one after the other.
Places(n) ==
    {f \in [1..n -> DOMAIN window] : \A i \in 1..n, j \in 1..n : i < j => f[i] < f[j]}

\* What is reported as a chain happened: its actions are in the window in this
\* order, and none is more than MaxGap after the first.
NoFalseChain ==
    \A chain \in EscalationChains :
        LET m == FindChain(window, chain) IN
        m # << >> =>
            /\ \A i \in DOMAIN m : m[i].resource = chain[i] /\ m[i].at - m[1].at <= MaxGap
            /\ \E f \in Places(Len(m)) : \A i \in DOMAIN m : m[i] = window[f[i]]
=============================================================================
