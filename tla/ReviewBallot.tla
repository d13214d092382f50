---------------------------- MODULE ReviewBallot ----------------------------
(***************************************************************************)
(* What the review queue promises, although a decision tests the status    *)
(* that its caller saw and not the one that is stored: a ballot on each    *)
(* request.  Whoever finds a request waiting may open a ballot on it and   *)
(* cast it once, and the last one cast counts.  Nobody opens one on a      *)
(* request that is decided.  A ballot to approve may send the request      *)
(* upstream, once, and until it is cast or given up no other ballot on the *)
(* request is cast.                                                        *)
(***************************************************************************)
EXTENDS Naturals

CONSTANTS Requests, Reviewers, Clocks, NoRequest

VARIABLES
    route,      \* route[r]: what the policy makes of the request's score; fixed
    outcome,    \* outcome[r]: "absent" before it is queued, "pending", then the last vote
    due,        \* the requests whose deadline passed while they waited
    sent,       \* sent[r]: times the upstream got it
    ballot,     \* ballot[c]: the ballot of a reviewer's call
    sweep       \* sweep[w]: the requests on which a sweep has a ballot to time them out

ballotVars == <<route, outcome, due, sent, ballot, sweep>>

Votes == {"approve", "reject", "escalate"}

\* "used": the upstream may have got the request.
Paper(stage, r, vote) == [stage |-> stage, on |-> r, vote |-> vote]
Blank == Paper("blank", NoRequest, "none")
Over == Paper("over", NoRequest, "none")

Counted(vote) ==
    CASE vote = "approve" -> "approved"
      [] vote = "reject" -> "rejected"
      [] OTHER -> "escalated"

Init ==
    /\ route \in [Requests -> {"pass", "review", "block"}]
    /\ outcome = [r \in Requests |-> "absent"]
    /\ due = {}
    /\ sent = [r \in Requests |-> 0]
    /\ ballot = [c \in Reviewers |-> Blank]
    /\ sweep = [w \in Clocks |-> {}]

Forward(r) ==
    /\ route[r] = "pass"
    /\ sent[r] = 0
    /\ sent' = [sent EXCEPT ![r] = 1]
    /\ UNCHANGED <<route, outcome, due, ballot, sweep>>

Enqueue(r) ==
    /\ route[r] = "review"
    /\ outcome[r] = "absent"
    /\ outcome' = [outcome EXCEPT ![r] = "pending"]
    /\ UNCHANGED <<route, due, sent, ballot, sweep>>

FallDue(r) ==
    /\ outcome[r] = "pending"
    /\ due' = due \cup {r}
    /\ UNCHANGED <<route, outcome, sent, ballot, sweep>>

Open(c, r, vote) ==
    /\ ballot[c] = Blank
    /\ outcome[r] = "pending"
    /\ ballot' = [ballot EXCEPT ![c] = Paper("open", r, vote)]
    /\ UNCHANGED <<route, outcome, due, sent, sweep>>

\* The request was decided.
TurnAway(c) ==
    /\ ballot[c] = Blank
    /\ ballot' = [ballot EXCEPT ![c] = Over]
    /\ UNCHANGED <<route, outcome, due, sent, sweep>>

\* No other reviewer sent r and has yet to decide it.
Undisturbed(r, v) == \A c \in Reviewers : ballot[c].stage = "used" /\ ballot[c].on = r => c = v

\* The upstream may have got it or not when the attempt fails.
Send(c) ==
    LET r == ballot[c].on IN
    /\ ballot[c].stage = "open" /\ ballot[c].vote = "approve"
    /\ Undisturbed(r, c)
    /\ ballot' = [ballot EXCEPT ![c] = Paper("used", r, "approve")]
    /\ sent' = [sent EXCEPT ![r] = @ + 1] \/ UNCHANGED sent
    /\ UNCHANGED <<route, outcome, due, sweep>>

Cast(c) ==
    LET r == ballot[c].on IN
    /\ ballot[c].stage = IF ballot[c].vote = "approve" THEN "used" ELSE "open"
    /\ Undisturbed(r, c)
    /\ outcome' = [outcome EXCEPT ![r] = Counted(ballot[c].vote)]
    /\ ballot' = [ballot EXCEPT ![c] = Over]
    /\ UNCHANGED <<route, due, sent, sweep>>

GiveUp(c) ==
    /\ ballot[c].stage \in {"open", "used"}
    /\ ballot' = [ballot EXCEPT ![c] = Over]
    /\ UNCHANGED <<route, outcome, due, sent, sweep>>

Notice(w) ==
    /\ sweep[w] = {}
    /\ sweep' = [sweep EXCEPT ![w] = {r \in due : outcome[r] = "pending"}]
    /\ UNCHANGED <<route, outcome, due, sent, ballot>>

TimeOut(w) ==
    /\ \A r \in sweep[w] : Undisturbed(r, w)
    /\ outcome' = [r \in Requests |-> IF r \in sweep[w] THEN "timed_out" ELSE outcome[r]]
    /\ sweep' = [sweep EXCEPT ![w] = {}]
    /\ UNCHANGED <<route, due, sent, ballot>>

Forget(w) ==
    /\ sweep' = [sweep EXCEPT ![w] = {}]
    /\ UNCHANGED <<route, outcome, due, sent, ballot>>

Next ==
    \/ \E r \in Requests : Forward(r) \/ Enqueue(r) \/ FallDue(r)
    \/ \E c \in Reviewers, r \in Requests, vote \in Votes : Open(c, r, vote)
    \/ \E c \in Reviewers : TurnAway(c) \/ Send(c) \/ Cast(c) \/ GiveUp(c)
    \/ \E w \in Clocks : Notice(w) \/ TimeOut(w) \/ Forget(w)

Spec == Init /\ [][Next]_ballotVars
=============================================================================
