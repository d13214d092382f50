---------------------------- MODULE ProxyHandler ----------------------------
(***************************************************************************)
(* handle_proxy_request (backend/app/proxy/handler.py): one HTTP call, one *)
(* transaction per request.  The policy's thresholds route it to block,    *)
(* queue or forward.  get_db commits when the handler returns and rolls    *)
(* back when it raises, so nothing is visible before the call ends.        *)
(***************************************************************************)
EXTENDS HitlStore

VARIABLE proxy  \* proxy[r]: where the handler of request r stands

ProxyPc == {"new", "forwarding", "done", "failed"}

ProxyTypeOK == proxy \in [Requests -> ProxyPc]
ProxyInit == proxy = [r \in Requests |-> "new"]

\* Mutant: the block threshold is compared strictly.
CriticalStrict(r) == score[r] > AutoBlock

\* The three routes of handle_proxy_request, tried in this order.
Critical(r) == score[r] >= AutoBlock
Suspicious(r) == ~Critical(r) /\ score[r] > AutoAllow
Harmless(r) == ~Critical(r) /\ ~(score[r] > AutoAllow)

\* The rows one handler commits; the caller says what becomes of the item.
Record(r, status, event) ==
    /\ request' = [request EXCEPT ![r] = status]
    /\ audit' = [audit EXCEPT ![r] = Logged(@, event, NoTxn)]
    /\ proxy' = [proxy EXCEPT ![r] = "done"]
    /\ UNCHANGED <<score, reviewer, overdue>>
    /\ UNCHANGED locks

OpenIncident(r) == incident' = [incident EXCEPT ![r] = NewIncident]

AutoBlocked(r) ==
    /\ proxy[r] = "new"
    /\ Critical(r)
    /\ Record(r, "blocked", "request.blocked")
    /\ OpenIncident(r)
    /\ UNCHANGED <<item, forwarded>>

EnqueueForReview(r) ==
    /\ proxy[r] = "new"
    /\ Suspicious(r)
    /\ item' = [item EXCEPT ![r] = "pending"]
    /\ Record(r, "queued_for_review", "request.queued")
    /\ OpenIncident(r)
    /\ UNCHANGED forwarded

\* The upstream call happens inside the transaction, before any commit.
ForwardToUpstream(r) ==
    /\ proxy[r] = "new"
    /\ Harmless(r)
    /\ forwarded' = [forwarded EXCEPT ![r] = @ + 1]
    /\ proxy' = [proxy EXCEPT ![r] = "forwarding"]
    /\ UNCHANGED <<score, request, item, reviewer, incident, audit, overdue>>
    /\ UNCHANGED locks

\* The answer passed the output filter, or was no 200 and is not filtered.
ResponseAllowed(r) ==
    /\ proxy[r] = "forwarding"
    /\ Record(r, "allowed", "request.allowed")
    /\ UNCHANGED <<item, incident, forwarded>>

\* A 200 whose output score reached the block threshold.
ResponseBlocked(r) ==
    /\ proxy[r] = "forwarding"
    /\ Record(r, "blocked", "response.blocked")
    /\ OpenIncident(r)
    /\ UNCHANGED <<item, forwarded>>

\* An exception (upstream timeout, a unique violation, a crash): rollback.
ProxyFails(r) ==
    /\ proxy[r] \in {"new", "forwarding"}
    /\ proxy' = [proxy EXCEPT ![r] = "failed"]
    /\ UNCHANGED rows
    /\ UNCHANGED locks

ProxyNext ==
    \E r \in Requests :
        \/ AutoBlocked(r)
        \/ EnqueueForReview(r)
        \/ ForwardToUpstream(r)
        \/ ResponseAllowed(r)
        \/ ResponseBlocked(r)
        \/ ProxyFails(r)
============================================================================
