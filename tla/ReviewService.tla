--------------------------- MODULE ReviewService ---------------------------
(***************************************************************************)
(* The review queue (backend/app/review/service.py, routers/review.py):    *)
(* the decide call a reviewer makes, and the watcher task of each replica  *)
(* that times out the items whose deadline passed.                         *)
(*                                                                         *)
(* A decide call reads the item without a lock (the router's tenant check) *)
(* and again FOR UPDATE.  The second SELECT waits for the row but returns  *)
(* the object the session already holds: SQLAlchemy refreshes it only      *)
(* under populate_existing, which the code does not ask for, so the status *)
(* the call tests is the one it read first.                                *)
(***************************************************************************)
EXTENDS HitlStore

CONSTANT MaxFailures    \* bound: failures of the watchers that are no deadlock

ASSUME FailureAssumption == MaxFailures \in Nat

VARIABLES
    call,       \* call[c]: the transaction of a decide call
    watcher,    \* watcher[w]: the transaction of a watcher's sweep
    failures    \* failures of the watchers so far, up to MaxFailures

Decisions == {"approve", "reject", "escalate"}

CallPc == {"idle", "loading", "loaded", "locked", "replayed", "flushed",
           "committed", "refused", "aborted", "undone"}

\* What the call's session holds: the item and request status it loaded, the
\* status it gives the request, whether the replay gave it a response to store,
\* and the incident it loaded.
CallRecord == [pc : CallPc, req : Requests \cup {NoRequest},
               decision : Decisions \cup {"none"},
               item : ItemStatus, request : RequestStatus,
               verdict : RequestStatus, stored : BOOLEAN,
               incident : IncidentRow]

IdleCall == [pc |-> "idle", req |-> NoRequest, decision |-> "none", item |-> "absent",
             request |-> "absent", verdict |-> "absent", stored |-> FALSE,
             incident |-> NoIncident]

WatcherPc == {"asleep", "loading", "working", "wants_request", "wants_item"}

\* todo and done: the items of the sweep not yet and already flushed; seen: the
\* request status loaded with each; cur: the item being flushed.
WatcherRecord == [pc : WatcherPc, todo : SUBSET Requests, done : SUBSET Requests,
                  seen : [Requests -> RequestStatus], cur : Requests \cup {NoRequest}]

Asleep == [pc |-> "asleep", todo |-> {}, done |-> {},
           seen |-> [r \in Requests |-> "absent"], cur |-> NoRequest]

ReviewTypeOK ==
    /\ call \in [Calls -> CallRecord]
    /\ watcher \in [Watchers -> WatcherRecord]
    /\ failures \in Nat

ReviewInit ==
    /\ call = [c \in Calls |-> IdleCall]
    /\ watcher = [w \in Watchers |-> Asleep]
    /\ failures = 0

\* Mutant: the decision is stored as it was asked.
ItemStatusRaw(d) == d

ItemStatusOf(d) ==
    CASE d = "approve" -> "approved"
      [] d = "reject" -> "rejected"
      [] OTHER -> "escalated"

\* The request status of a decision whose replay, if any, is not filtered.
VerdictOf(d) ==
    CASE d = "approve" -> "allowed"
      [] d = "reject" -> "blocked"
      [] OTHER -> "escalated"

EventOf(d) ==
    CASE d = "approve" -> "review.approved"
      [] d = "reject" -> "review.rejected"
      [] OTHER -> "review.escalated"

----------------------------------------------------------------------------
(* The decide call.                                                        *)

\* A finished call keeps what it was asked, not what its session had loaded.
Finished(c, pc) ==
    call' = [call EXCEPT ![c] = [IdleCall EXCEPT !.pc = pc, !.req = call[c].req,
                                                 !.decision = call[c].decision]]

\* routers/review.py loads the item; a missing one is a 404.
LoadItem(c, r, d) ==
    /\ call[c].pc = "idle"
    /\ item[r] # "absent"
    /\ call' = [call EXCEPT ![c].pc = "loading", ![c].req = r, ![c].decision = d,
                            ![c].item = item[r]]
    /\ UNCHANGED <<rows, locks, watcher, failures>>

\* selectinload is a second statement, with a snapshot of its own.
LoadRequest(c) ==
    /\ call[c].pc = "loading"
    /\ call' = [call EXCEPT ![c].pc = "loaded", ![c].request = request[call[c].req]]
    /\ UNCHANGED <<rows, locks, watcher, failures>>

\* Mutant: the second SELECT has no FOR UPDATE.
ItemReadable(c) == TRUE

ItemUnlocked(c) == itemLock[call[c].req] = NoTxn

\* SELECT ... FOR UPDATE returns once the row is free, and the loaded status
\* lets the decision through.
LockItem(c) ==
    LET r == call[c].req IN
    /\ call[c].pc = "loaded"
    /\ ItemUnlocked(c)
    /\ call[c].item = "pending"
    /\ itemLock' = [itemLock EXCEPT ![r] = c]
    /\ call' = [call EXCEPT ![c].pc = "locked", ![c].verdict = VerdictOf(call[c].decision)]
    /\ UNCHANGED <<rows, requestLock, watcher, failures>>

\* The item was already decided when the call loaded it: ValueError, a 409.
RefuseDecision(c) ==
    /\ call[c].pc = "loaded"
    /\ ItemUnlocked(c)
    /\ call[c].item # "pending"
    /\ Finished(c, "refused")
    /\ UNCHANGED <<rows, locks, watcher, failures>>

\* Mutant: a rejected request is replayed as well.
ReplaysAlways(c) == TRUE

ReplaysUpstream(c) == call[c].decision = "approve"

\* The request is sent upstream while the item's row is locked.  The output
\* filter may withhold the answer; an exception is logged and swallowed, and
\* leaves the request allowed with no response stored.
ReplayApprovedRequest(c) ==
    LET r == call[c].req IN
    /\ call[c].pc = "locked"
    /\ ReplaysUpstream(c)
    /\ \E outcome \in {"answered", "withheld", "lost"} :
          call' = [call EXCEPT ![c].pc = "replayed", ![c].stored = (outcome # "lost"),
                               ![c].verdict = IF outcome = "withheld" THEN "blocked" ELSE @]
    /\ forwarded' = [forwarded EXCEPT ![r] = @ + 1]
    /\ UNCHANGED <<score, request, item, reviewer, incident, audit, overdue>>
    /\ UNCHANGED <<locks, watcher, failures>>

\* The connection failed before anything reached the upstream.
ReplayUnsent(c) ==
    /\ call[c].pc = "locked"
    /\ ReplaysUpstream(c)
    /\ call' = [call EXCEPT ![c].pc = "replayed"]
    /\ UNCHANGED <<rows, locks, watcher, failures>>

ReadyToFlush(c) ==
    \/ call[c].pc = "replayed"
    \/ call[c].pc = "locked" /\ ~ReplaysUpstream(c)

\* A row none of whose columns changed is not updated.
UpdatesRequest(c) == call[c].verdict # call[c].request \/ call[c].stored

\* log_event flushes both rows: the request's before the item's, since the unit
\* of work orders parents first.  The incident is loaded right after.
FlushDecision(c) ==
    LET r == call[c].req IN
    /\ ReadyToFlush(c)
    /\ \/ ~UpdatesRequest(c) /\ UNCHANGED requestLock
       \/ /\ UpdatesRequest(c)
          /\ requestLock[r] = NoTxn
          /\ requestLock' = [requestLock EXCEPT ![r] = c]
    /\ call' = [call EXCEPT ![c].pc = "flushed", ![c].incident = incident[r]]
    /\ UNCHANGED <<rows, itemLock, watcher, failures>>

\* Mutant: the review starts the timeline afresh.
ReviewedAfresh(timeline, c) == << <<"review", c>> >>

Reviewed(timeline, c) == Append(timeline, <<"review", c>>)

\* Mutant: a decided incident is mitigated without resolved_at.
ResolvedNever(c) == call[c].incident.resolved

\* An escalation leaves the incident's status and resolved_at alone.
ResolvedBy(c) == call[c].incident.resolved \/ call[c].decision # "escalate"

\* The loaded incident as the decision edits it.
IncidentDecided(c) ==
    [call[c].incident EXCEPT
        !.resolution = ItemStatusOf(call[c].decision),
        !.status = IF call[c].decision = "escalate" THEN @ ELSE "mitigated",
        !.resolved = ResolvedBy(c),
        !.timeline = Reviewed(@, c)]

\* Mutant: the request's row keeps its status.
RequestKept(c) == request[call[c].req]

RequestDecided(c) == Dirty(request[call[c].req], call[c].request, call[c].verdict)

\* Mutant: the decision is not logged.
AuditUnlogged(c) == audit[call[c].req]

AuditDecided(c) == Logged(audit[call[c].req], EventOf(call[c].decision), c)

\* get_db commits when the route returns.  The item's columns always change,
\* since the call goes on only if it loaded the item as pending.
CommitDecision(c) ==
    LET r == call[c].req IN
    /\ call[c].pc = "flushed"
    /\ item' = [item EXCEPT ![r] = ItemStatusOf(call[c].decision)]
    /\ reviewer' = [reviewer EXCEPT ![r] = c]
    /\ request' = [request EXCEPT ![r] = RequestDecided(c)]
    /\ incident' = [incident EXCEPT ![r] = Flushed(@, call[c].incident, IncidentDecided(c))]
    /\ audit' = [audit EXCEPT ![r] = AuditDecided(c)]
    /\ itemLock' = Release(itemLock, c)
    /\ requestLock' = Release(requestLock, c)
    /\ Finished(c, "committed")
    /\ UNCHANGED <<score, forwarded, overdue, watcher, failures>>

\* A crash, an error or a deadlock rolls the call back; what it sent upstream
\* stays sent: a call past its replay is undone, not merely aborted.
AbortCall(c) ==
    /\ call[c].pc \in {"loading", "loaded", "locked", "replayed", "flushed"}
    /\ itemLock' = Release(itemLock, c)
    /\ requestLock' = Release(requestLock, c)
    /\ Finished(c, IF call[c].pc \in {"replayed", "flushed"} THEN "undone" ELSE "aborted")
    /\ UNCHANGED <<rows, watcher, failures>>

----------------------------------------------------------------------------
(* The watcher: handle_sla_timeouts, run every minute by _sla_watcher.     *)

\* The deadline of an item that was decided already changes nothing.
DeadlinePasses(r) ==
    /\ item[r] = "pending"
    /\ r \notin overdue
    /\ overdue' = overdue \cup {r}
    /\ UNCHANGED <<score, request, item, reviewer, incident, audit, forwarded>>
    /\ UNCHANGED <<locks, call, watcher, failures>>

\* Mutant: the sweep takes every item whose deadline passed.
ExpiredAny == {r \in overdue : item[r] # "absent"}

Expired == {r \in overdue : item[r] = "pending"}

\* The items are selected without FOR UPDATE; an empty sweep changes nothing.
SelectExpired(w) ==
    /\ watcher[w].pc = "asleep"
    /\ Expired # {}
    /\ watcher' = [watcher EXCEPT ![w].pc = "loading", ![w].todo = Expired]
    /\ UNCHANGED <<rows, locks, call, failures>>

LoadExpiredRequests(w) ==
    /\ watcher[w].pc = "loading"
    /\ watcher' = [watcher EXCEPT ![w].pc = "working",
          ![w].seen = [r \in Requests |-> IF r \in watcher[w].todo THEN request[r] ELSE "absent"]]
    /\ UNCHANGED <<rows, locks, call, failures>>

\* The rows come in no stated order: the query has no ORDER BY.
PickExpired(w, r) ==
    /\ watcher[w].pc = "working"
    /\ r \in watcher[w].todo
    /\ watcher' = [watcher EXCEPT ![w].pc = "wants_request", ![w].cur = r]
    /\ UNCHANGED <<rows, locks, call, failures>>

\* The flush updates the request's row, unless blocking it changes nothing.
TimeOutRequest(w) ==
    LET r == watcher[w].cur IN
    /\ watcher[w].pc = "wants_request"
    /\ \/ watcher[w].seen[r] = "blocked" /\ UNCHANGED requestLock
       \/ /\ watcher[w].seen[r] # "blocked"
          /\ requestLock[r] = NoTxn
          /\ requestLock' = [requestLock EXCEPT ![r] = w]
    /\ watcher' = [watcher EXCEPT ![w].pc = "wants_item"]
    /\ UNCHANGED <<rows, itemLock, call, failures>>

TimeOutItem(w) ==
    LET r == watcher[w].cur IN
    /\ watcher[w].pc = "wants_item"
    /\ itemLock[r] = NoTxn
    /\ itemLock' = [itemLock EXCEPT ![r] = w]
    /\ watcher' = [watcher EXCEPT ![w].pc = "working", ![w].cur = NoRequest,
                                  ![w].todo = @ \ {r}, ![w].done = @ \cup {r}]
    /\ UNCHANGED <<rows, requestLock, call, failures>>

\* One commit for the whole sweep.  The policy's sla_fallback is not read:
\* every item is blocked.
CommitTimeouts(w) ==
    LET swept == watcher[w].done IN
    /\ watcher[w].pc = "working"
    /\ watcher[w].todo = {}
    /\ item' = [r \in Requests |-> IF r \in swept THEN "timed_out" ELSE item[r]]
    /\ request' = [r \in Requests |-> IF r \in swept
                      THEN Dirty(request[r], watcher[w].seen[r], "blocked") ELSE request[r]]
    /\ audit' = [r \in Requests |-> IF r \in swept
                    THEN Logged(audit[r], "review.timed_out", NoTxn) ELSE audit[r]]
    /\ itemLock' = Release(itemLock, w)
    /\ requestLock' = Release(requestLock, w)
    /\ watcher' = [watcher EXCEPT ![w] = Asleep]
    /\ UNCHANGED <<score, reviewer, incident, forwarded, overdue, call, failures>>

\* Mutant: an exception ends the watcher task.
Stopped(w) == [Asleep EXCEPT !.pc = "stopped"]

\* _sla_watcher logs the error of a sweep and sleeps again.
Survives(w) == Asleep

\* The whole sweep rolls back.
RollBackSweep(w) ==
    /\ watcher[w].pc # "asleep"
    /\ itemLock' = Release(itemLock, w)
    /\ requestLock' = Release(requestLock, w)
    /\ watcher' = [watcher EXCEPT ![w] = Survives(w)]
    /\ UNCHANGED <<rows, call>>

AbortSweep(w) ==
    /\ failures < MaxFailures
    /\ failures' = failures + 1
    /\ RollBackSweep(w)

----------------------------------------------------------------------------
(* Waiting on row locks.                                                   *)

\* The transaction whose lock t waits for, NoTxn when t waits for none.
Blocker(t) ==
    IF t \in Calls
    THEN CASE call[t].pc = "loaded" -> itemLock[call[t].req]
           [] ReadyToFlush(t) /\ UpdatesRequest(t) -> requestLock[call[t].req]
           [] OTHER -> NoTxn
    ELSE CASE watcher[t].pc = "wants_request" /\ watcher[t].seen[watcher[t].cur] # "blocked"
                -> requestLock[watcher[t].cur]
           [] watcher[t].pc = "wants_item" -> itemLock[watcher[t].cur]
           [] OTHER -> NoTxn

Deadlocked(t) == \E cycle \in SUBSET Txns : t \in cycle /\ cycle = {Blocker(s) : s \in cycle}

\* PostgreSQL aborts one transaction of a cycle after deadlock_timeout.
BreakDeadlock ==
    \/ \E c \in Calls : Deadlocked(c) /\ AbortCall(c)
    \/ \E w \in Watchers : Deadlocked(w) /\ RollBackSweep(w) /\ UNCHANGED failures

----------------------------------------------------------------------------
CallStep(c) ==
    \/ LoadRequest(c)
    \/ LockItem(c)
    \/ RefuseDecision(c)
    \/ ReplayApprovedRequest(c)
    \/ ReplayUnsent(c)
    \/ FlushDecision(c)
    \/ CommitDecision(c)

WatcherStep(w) ==
    \/ SelectExpired(w)
    \/ LoadExpiredRequests(w)
    \/ \E r \in Requests : PickExpired(w, r)
    \/ TimeOutRequest(w)
    \/ TimeOutItem(w)
    \/ CommitTimeouts(w)

ReviewNext ==
    \/ \E c \in Calls, r \in Requests, d \in Decisions : LoadItem(c, r, d)
    \/ \E c \in Calls : CallStep(c)
    \/ \E c \in Calls : AbortCall(c)
    \/ \E r \in Requests : DeadlinePasses(r)
    \/ \E w \in Watchers : WatcherStep(w)
    \/ \E w \in Watchers : AbortSweep(w)
    \/ BreakDeadlock
============================================================================
