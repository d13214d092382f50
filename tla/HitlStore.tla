----------------------------- MODULE HitlStore -----------------------------
(***************************************************************************)
(* The PostgreSQL rows that the self-hosted backend of aigis keeps for a   *)
(* proxied request (backend/app/models): the request, its review item, its *)
(* incident and its audit log, with the row locks transactions take on     *)
(* them.  Every component of the human-in-the-loop pipeline reads and      *)
(* writes this store; Hitl.tla composes them.                              *)
(*                                                                         *)
(* The engine runs at PostgreSQL's default READ COMMITTED: a statement     *)
(* sees what is committed when it starts, a flush locks the rows it        *)
(* updates until commit, and the updates show at commit.                   *)
(***************************************************************************)
EXTENDS Integers, Sequences, FiniteSets

CONSTANTS
    Requests,       \* chat completion requests clients send to the proxy
    Calls,          \* HTTP calls of POST /review/queue/{id}/decide
    Watchers,       \* SLA watcher tasks, one per backend replica
    Responders,     \* HTTP calls of the incident routes
    NoTxn,          \* holder of a free row lock
    NoRequest,      \* target of a transaction that has none
    Scores,         \* input risk scores
    AutoAllow,      \* policy.auto_allow_threshold
    AutoBlock,      \* policy.auto_block_threshold
    Fallback        \* policy.sla_fallback

Txns == Calls \cup Watchers

ASSUME TxnAssumption ==
    /\ Calls \cap Watchers = {}
    /\ NoTxn \notin Txns
    /\ NoRequest \notin Requests

\* Nothing relates the two thresholds: routers/policies.py bounds each to 0..100.
ASSUME ScoreAssumption ==
    /\ Scores \subseteq Int
    /\ AutoAllow \in Int
    /\ AutoBlock \in Int

ASSUME FallbackAssumption == Fallback \in {"block", "allow", "escalate"}

VARIABLES
    score,      \* score[r]: Request.input_risk_score
    request,    \* request[r]: Request.status, "absent" while there is no row
    item,       \* item[r]: ReviewItem.status, "absent" while there is no row
    reviewer,   \* reviewer[r]: ReviewItem.reviewer_id, a call or NoTxn
    incident,   \* incident[r]: the Incident row linked to the request
    audit,      \* audit[r]: the AuditLog entries of the request, as committed
    forwarded,  \* forwarded[r]: times the upstream LLM was called with it
    overdue,    \* the requests whose review deadline has passed
    itemLock,   \* itemLock[r]: the transaction that holds the item's row
    requestLock \* requestLock[r]: the transaction that holds the request's row

rows == <<score, request, item, reviewer, incident, audit, forwarded, overdue>>
locks == <<itemLock, requestLock>>

RequestStatus == {"absent", "queued_for_review", "allowed", "blocked", "escalated"}
ItemStatus == {"absent", "pending", "approved", "rejected", "escalated", "timed_out"}
IncidentStatus == {"absent", "open", "investigating", "mitigated", "closed"}
Resolutions == {"none", "approved", "rejected", "escalated", "false_positive"}

\* The actor of an audit event or a timeline entry that no user caused is NoTxn.
Actors == Calls \cup Responders \cup {NoTxn}

Entries == {"detected", "review", "status_change", "resolved", "assigned", "note"}
Events == {"request.blocked", "request.queued", "request.allowed", "response.blocked",
           "review.approved", "review.rejected", "review.escalated", "review.timed_out"}

IncidentRow == [status : IncidentStatus, resolution : Resolutions,
                resolved : BOOLEAN, closed : BOOLEAN,
                timeline : Seq(Entries \X Actors)]

NoIncident == [status |-> "absent", resolution |-> "none", resolved |-> FALSE,
               closed |-> FALSE, timeline |-> << >>]

\* create_incident: an open row whose timeline holds the detection.
NewIncident == [NoIncident EXCEPT !.status = "open", !.timeline = << <<"detected", NoTxn>> >>]

\* log_event: one more entry, in the caller's transaction.
Logged(log, event, actor) == Append(log, <<event, actor>>)

\* An ORM flush updates the columns whose value differs from the loaded one.
Dirty(stored, seen, new) == IF new = seen THEN stored ELSE new

\* The row after a flush of an incident loaded as "seen" and edited into "new".
Flushed(stored, seen, new) ==
    [status     |-> Dirty(stored.status, seen.status, new.status),
     resolution |-> Dirty(stored.resolution, seen.resolution, new.resolution),
     resolved   |-> Dirty(stored.resolved, seen.resolved, new.resolved),
     closed     |-> Dirty(stored.closed, seen.closed, new.closed),
     timeline   |-> Dirty(stored.timeline, seen.timeline, new.timeline)]

\* The locks a transaction holds are dropped when it commits or rolls back.
Release(lock, t) == [r \in Requests |-> IF lock[r] = t THEN NoTxn ELSE lock[r]]

StoreTypeOK ==
    /\ score \in [Requests -> Scores]
    /\ request \in [Requests -> RequestStatus]
    /\ item \in [Requests -> ItemStatus]
    /\ reviewer \in [Requests -> Calls \cup {NoTxn}]
    /\ incident \in [Requests -> IncidentRow]
    /\ audit \in [Requests -> Seq(Events \X Actors)]
    /\ forwarded \in [Requests -> Nat]
    /\ overdue \subseteq Requests
    /\ itemLock \in [Requests -> Txns \cup {NoTxn}]
    /\ requestLock \in [Requests -> Txns \cup {NoTxn}]

\* A request's score is what the filter will find; it is fixed by its messages.
StoreInit ==
    /\ score \in [Requests -> Scores]
    /\ request = [r \in Requests |-> "absent"]
    /\ item = [r \in Requests |-> "absent"]
    /\ reviewer = [r \in Requests |-> NoTxn]
    /\ incident = [r \in Requests |-> NoIncident]
    /\ audit = [r \in Requests |-> << >>]
    /\ forwarded = [r \in Requests |-> 0]
    /\ overdue = {}
    /\ itemLock = [r \in Requests |-> NoTxn]
    /\ requestLock = [r \in Requests |-> NoTxn]
============================================================================
