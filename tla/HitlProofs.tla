----------------------------- MODULE HitlProofs -----------------------------
(***************************************************************************)
(* What holds of the human-in-the-loop pipeline for every set of requests, *)
(* calls, watchers and responders, and all thresholds and scores.          *)
(***************************************************************************)
EXTENDS Hitl, FiniteSetTheorems, TLAPS

----------------------------------------------------------------------------
(* Types.                                                                  *)

\* Dropping a transaction's locks leaves a lock table.
LEMMA ReleaseType ==
    ASSUME NEW lock \in [Requests -> Txns \cup {NoTxn}], NEW t
    PROVE  Release(lock, t) \in [Requests -> Txns \cup {NoTxn}]
  BY DEF Release

\* log_event leaves a log of events and actors.
LEMMA LoggedType ==
    ASSUME NEW log \in Seq(Events \X Actors), NEW event \in Events, NEW actor \in Actors
    PROVE  Logged(log, event, actor) \in Seq(Events \X Actors)
  BY DEF Logged

\* The row create_incident makes is an incident row.
LEMMA NewIncidentType == NoIncident \in IncidentRow /\ NewIncident \in IncidentRow
<1>1. NoIncident \in IncidentRow
  BY DEF NoIncident, IncidentRow, IncidentStatus, Resolutions
<1>2. << <<"detected", NoTxn>> >> \in Seq(Entries \X Actors)
  <2>1. <<"detected", NoTxn>> \in Entries \X Actors
    BY DEF Entries, Actors
  <2> QED
    BY <2>1
<1>3. "open" \in IncidentStatus
  BY DEF IncidentStatus
<1> QED
  BY <1>1, <1>2, <1>3 DEF NewIncident, IncidentRow

\* A flush of columns of two incident rows leaves an incident row.
LEMMA FlushedType ==
    ASSUME NEW stored \in IncidentRow, NEW seen \in IncidentRow, NEW new \in IncidentRow
    PROVE  Flushed(stored, seen, new) \in IncidentRow
  BY DEF Flushed, Dirty, IncidentRow

\* process_review_decision leaves an incident row in the session.
LEMMA IncidentDecidedType ==
    ASSUME NEW c \in Calls, call[c] \in CallRecord
    PROVE  IncidentDecided(c) \in IncidentRow
<1> DEFINE old == call[c].incident
<1>1. old \in IncidentRow
  BY DEF CallRecord
<1>2. ItemStatusOf(call[c].decision) \in Resolutions
  BY DEF ItemStatusOf, Resolutions
<1>3. (IF call[c].decision = "escalate" THEN old.status ELSE "mitigated") \in IncidentStatus
  BY <1>1 DEF IncidentRow, IncidentStatus
<1>4. ResolvedBy(c) \in BOOLEAN
  BY DEF ResolvedBy
<1>5. Reviewed(old.timeline, c) \in Seq(Entries \X Actors)
  BY <1>1 DEF Reviewed, IncidentRow, Entries, Actors
<1> QED
  BY <1>1, <1>2, <1>3, <1>4, <1>5 DEF IncidentDecided, IncidentRow

\* So does every edit of the incident routes.
LEMMA EditedType ==
    ASSUME NEW row \in IncidentRow, NEW edit \in Edits, NEW u \in Responders,
           NEW new \in Edited(row, edit, u)
    PROVE  new \in IncidentRow
<1>1. ASSUME NEW x \in IncidentRow, NEW entry \in Entries
      PROVE  Journal(x, entry, u) \in IncidentRow
  <2>1. <<entry, u>> \in Entries \X Actors
    BY <1>1 DEF Actors
  <2>2. Append(x.timeline, <<entry, u>>) \in Seq(Entries \X Actors)
    BY <1>1, <2>1 DEF IncidentRow
  <2> QED
    BY <1>1, <2>2 DEF Journal, IncidentRow
<1>2. ASSUME edit \in IncidentStatus
      PROVE  StatusUpdated(row, edit) \in IncidentRow
  BY <1>2 DEF StatusUpdated, IncidentRow
<1>3. ASSUME NEW x \in Resolutions
      PROVE  [row EXCEPT !.resolution = x, !.status = "mitigated", !.resolved = TRUE]
                \in IncidentRow
  BY <1>3 DEF IncidentRow, IncidentStatus
<1> QED
  BY <1>1, <1>2, <1>3 DEF Edited, Edits, IncidentStatus, Entries

----------------------------------------------------------------------------
(* Every step keeps the types.                                             *)

TypeInv == TypeOK /\ Targets

\* The rows a proxy handler commits are of their types.
LEMMA RecordTypes ==
    ASSUME TypeInv, NEW r \in Requests, NEW status \in RequestStatus,
           NEW event \in Events, Record(r, status, event)
    PROVE  /\ request' \in [Requests -> RequestStatus]
           /\ audit' \in [Requests -> Seq(Events \X Actors)]
           /\ ProxyTypeOK'
           /\ UNCHANGED <<score, reviewer, overdue, itemLock, requestLock>>
<1>1. Logged(audit[r], event, NoTxn) \in Seq(Events \X Actors)
  BY LoggedType DEF TypeInv, TypeOK, StoreTypeOK, Actors
<1> QED
  BY <1>1 DEF Record, locks, TypeInv, TypeOK, StoreTypeOK, ProxyTypeOK, ProxyPc

\* The incident a proxy handler opens is of its type.
LEMMA OpenIncidentTypes ==
    ASSUME TypeInv, NEW r \in Requests, OpenIncident(r)
    PROVE  incident' \in [Requests -> IncidentRow]
  BY NewIncidentType DEF OpenIncident, TypeInv, TypeOK, StoreTypeOK

\* A step of the proxy keeps the types.
LEMMA ProxyKeepsTypes ==
    ASSUME TypeInv, ProxyNext, UNCHANGED <<call, watcher, failures, desk>>
    PROVE  TypeInv'
<1>1. ReviewTypeOK' /\ DeskTypeOK' /\ Targets'
  BY DEF TypeInv, TypeOK, ReviewTypeOK, DeskTypeOK, Targets
<1>2. PICK r \in Requests :
        \/ AutoBlocked(r)
        \/ EnqueueForReview(r)
        \/ ForwardToUpstream(r)
        \/ ResponseAllowed(r)
        \/ ResponseBlocked(r)
        \/ ProxyFails(r)
  BY DEF ProxyNext
<1>3. /\ {"blocked", "queued_for_review", "allowed"} \subseteq RequestStatus
      /\ {"request.blocked", "request.queued", "request.allowed", "response.blocked"}
            \subseteq Events
      /\ "pending" \in ItemStatus
  BY DEF RequestStatus, Events, ItemStatus
<1>4. CASE AutoBlocked(r)
  BY <1>1, <1>3, <1>4, RecordTypes, OpenIncidentTypes
  DEF AutoBlocked, TypeInv, TypeOK, StoreTypeOK
<1>5. CASE EnqueueForReview(r)
  BY <1>1, <1>3, <1>5, RecordTypes, OpenIncidentTypes
  DEF EnqueueForReview, TypeInv, TypeOK, StoreTypeOK
<1>6. CASE ForwardToUpstream(r)
  BY <1>1, <1>6 DEF ForwardToUpstream, locks, TypeInv, TypeOK, StoreTypeOK, ProxyTypeOK, ProxyPc
<1>7. CASE ResponseAllowed(r)
  BY <1>1, <1>3, <1>7, RecordTypes DEF ResponseAllowed, TypeInv, TypeOK, StoreTypeOK
<1>8. CASE ResponseBlocked(r)
  BY <1>1, <1>3, <1>8, RecordTypes, OpenIncidentTypes
  DEF ResponseBlocked, TypeInv, TypeOK, StoreTypeOK
<1>9. CASE ProxyFails(r)
  BY <1>1, <1>9 DEF ProxyFails, rows, locks, TypeInv, TypeOK, StoreTypeOK, ProxyTypeOK, ProxyPc
<1> QED
  BY <1>2, <1>4, <1>5, <1>6, <1>7, <1>8, <1>9

\* A step of a decide call keeps the types, and its request is one.
LEMMA CallKeepsTypes ==
    ASSUME TypeInv, NEW c \in Calls, CallStep(c) \/ AbortCall(c), UNCHANGED <<proxy, desk>>
    PROVE  TypeInv'
<1> USE DEF TypeInv, TypeOK, StoreTypeOK, ReviewTypeOK, Targets
<1>1. ProxyTypeOK' /\ DeskTypeOK'
  BY DEF ProxyTypeOK, DeskTypeOK
<1>2. call[c] \in CallRecord
  OBVIOUS
<1>3. /\ {"loaded", "locked", "replayed", "flushed", "committed", "refused", "aborted", "undone"}
            \subseteq CallPc
      /\ {"allowed", "blocked", "escalated", "absent"} \subseteq RequestStatus
      /\ "absent" \in ItemStatus
  BY DEF CallPc, RequestStatus, ItemStatus
<1>4. ASSUME NEW pc \in {"committed", "refused", "aborted", "undone"}, Finished(c, pc),
             call[c].pc # "idle"
      PROVE  /\ call' \in [Calls -> CallRecord]
             /\ \A d \in Calls : call'[d].pc # "idle" => call'[d].req \in Requests
  BY <1>2, <1>3, <1>4, NewIncidentType DEF Finished, IdleCall, CallRecord, Decisions
<1>5. CASE LoadRequest(c)
  <2>1. request[call[c].req] \in RequestStatus
    BY <1>5 DEF LoadRequest
  <2>2. call' \in [Calls -> CallRecord]
    BY <1>2, <1>3, <1>5, <2>1 DEF LoadRequest, CallRecord
  <2> QED
    BY <1>1, <1>5, <2>2 DEF LoadRequest, rows, locks
<1>6. CASE LockItem(c)
  <2>1. VerdictOf(call[c].decision) \in RequestStatus
    BY <1>3 DEF VerdictOf
  <2>2. call' \in [Calls -> CallRecord]
    BY <1>2, <1>3, <1>6, <2>1 DEF LockItem, CallRecord
  <2> QED
    BY <1>1, <1>6, <2>2 DEF LockItem, rows, Txns
<1>7. CASE RefuseDecision(c)
  BY <1>1, <1>4, <1>7 DEF RefuseDecision, rows, locks
<1>8. CASE ReplayApprovedRequest(c)
  <2>1. call' \in [Calls -> CallRecord]
    <3>1. PICK outcome \in {"answered", "withheld", "lost"} :
            call' = [call EXCEPT ![c].pc = "replayed", ![c].stored = (outcome # "lost"),
                        ![c].verdict = IF outcome = "withheld" THEN "blocked" ELSE @]
      BY <1>8 DEF ReplayApprovedRequest
    <3>2. (IF outcome = "withheld" THEN "blocked" ELSE call[c].verdict) \in RequestStatus
      BY <1>2, <1>3 DEF CallRecord
    <3>3. (outcome # "lost") \in BOOLEAN
      OBVIOUS
    <3> QED
      BY <1>2, <1>3, <3>1, <3>2, <3>3 DEF CallRecord
  <2>2. forwarded' \in [Requests -> Nat]
    BY <1>8 DEF ReplayApprovedRequest
  <2>3. \A d \in Calls : call'[d].pc # "idle" => call'[d].req \in Requests
    BY <1>8 DEF ReplayApprovedRequest
  <2> QED
    BY <1>1, <1>8, <2>1, <2>2, <2>3 DEF ReplayApprovedRequest, locks
<1>9. CASE ReplayUnsent(c)
  <2>1. call' \in [Calls -> CallRecord]
    BY <1>2, <1>3, <1>9 DEF ReplayUnsent, CallRecord
  <2> QED
    BY <1>1, <1>9, <2>1 DEF ReplayUnsent, rows, locks
<1>10. CASE FlushDecision(c)
  <2>1. call[c].pc # "idle"
    BY <1>10 DEF FlushDecision, ReadyToFlush
  <2>2. incident[call[c].req] \in IncidentRow
    BY <2>1
  <2>3. call' \in [Calls -> CallRecord]
    BY <1>2, <1>3, <1>10, <2>2 DEF FlushDecision, CallRecord
  <2>4. requestLock' \in [Requests -> Txns \cup {NoTxn}]
    <3>1. \/ requestLock' = requestLock
          \/ requestLock' = [requestLock EXCEPT ![call[c].req] = c]
      BY <1>10 DEF FlushDecision
    <3>2. [requestLock EXCEPT ![call[c].req] = c] \in [Requests -> Txns \cup {NoTxn}]
      BY DEF Txns
    <3> QED
      BY <3>1, <3>2
  <2> QED
    BY <1>1, <1>10, <2>1, <2>3, <2>4 DEF FlushDecision, rows
<1>11. CASE CommitDecision(c)
  <2>1. call[c].req \in Requests
    BY <1>11 DEF CommitDecision
  <2>2. item' \in [Requests -> ItemStatus]
    <3>1. ItemStatusOf(call[c].decision) \in ItemStatus
      BY DEF ItemStatusOf, ItemStatus
    <3> QED
      BY <1>11, <3>1 DEF CommitDecision
  <2>3. request' \in [Requests -> RequestStatus]
    <3>1. RequestDecided(c) \in RequestStatus
      BY <1>2, <2>1 DEF RequestDecided, Dirty, CallRecord
    <3> QED
      BY <1>11, <3>1 DEF CommitDecision
  <2>4. incident' \in [Requests -> IncidentRow]
    <3>1. IncidentDecided(c) \in IncidentRow /\ call[c].incident \in IncidentRow
      BY <1>2, IncidentDecidedType DEF CallRecord
    <3>2. Flushed(incident[call[c].req], call[c].incident, IncidentDecided(c)) \in IncidentRow
      BY <2>1, <3>1, FlushedType
    <3> QED
      BY <1>11, <3>2 DEF CommitDecision
  <2>5. audit' \in [Requests -> Seq(Events \X Actors)]
    <3>1. EventOf(call[c].decision) \in Events /\ c \in Actors
      BY DEF EventOf, Events, Actors
    <3>2. AuditDecided(c) \in Seq(Events \X Actors)
      BY <2>1, <3>1, LoggedType DEF AuditDecided
    <3> QED
      BY <1>11, <3>2 DEF CommitDecision
  <2>6. reviewer' \in [Requests -> Calls \cup {NoTxn}]
    BY <1>11 DEF CommitDecision
  <2>7. /\ itemLock' \in [Requests -> Txns \cup {NoTxn}]
        /\ requestLock' \in [Requests -> Txns \cup {NoTxn}]
    BY <1>11, ReleaseType DEF CommitDecision
  <2> QED
    BY <1>1, <1>4, <1>11, <2>2, <2>3, <2>4, <2>5, <2>6, <2>7 DEF CommitDecision
<1>12. CASE AbortCall(c)
  <2>1. /\ itemLock' \in [Requests -> Txns \cup {NoTxn}]
        /\ requestLock' \in [Requests -> Txns \cup {NoTxn}]
    BY <1>12, ReleaseType DEF AbortCall
  <2> QED
    BY <1>1, <1>4, <1>12, <2>1 DEF AbortCall, rows
<1> QED
  BY <1>5, <1>6, <1>7, <1>8, <1>9, <1>10, <1>11, <1>12 DEF CallStep

\* A step of a watcher keeps the types, and its items are items.
LEMMA WatcherKeepsTypes ==
    ASSUME TypeInv, NEW w \in Watchers, UNCHANGED <<proxy, desk>>,
           \/ WatcherStep(w)
           \/ RollBackSweep(w) /\ failures' \in Nat
    PROVE  TypeInv'
<1> USE DEF TypeInv, TypeOK, StoreTypeOK, ReviewTypeOK, Targets
<1>1. ProxyTypeOK' /\ DeskTypeOK'
  BY DEF ProxyTypeOK, DeskTypeOK
<1>2. watcher[w] \in WatcherRecord /\ Asleep \in WatcherRecord
  BY DEF Asleep, WatcherRecord, WatcherPc, RequestStatus
<1>3. CASE SelectExpired(w)
  <2>1. Expired \subseteq Requests
    BY DEF Expired
  <2>2. watcher' \in [Watchers -> WatcherRecord]
    BY <1>2, <1>3, <2>1 DEF SelectExpired, WatcherRecord, WatcherPc
  <2> QED
    BY <1>1, <1>2, <1>3, <2>1, <2>2 DEF SelectExpired, Expired, rows, locks, WatcherRecord
<1>4. CASE LoadExpiredRequests(w)
  <2>1. [r \in Requests |-> IF r \in watcher[w].todo THEN request[r] ELSE "absent"]
            \in [Requests -> RequestStatus]
    BY DEF RequestStatus
  <2>2. watcher' \in [Watchers -> WatcherRecord]
    BY <1>2, <1>4, <2>1 DEF LoadExpiredRequests, WatcherRecord, WatcherPc
  <2> QED
    BY <1>1, <1>4, <2>2 DEF LoadExpiredRequests, rows, locks
<1>5. ASSUME NEW r \in Requests, PickExpired(w, r)
      PROVE  TypeInv'
  <2>1. watcher' \in [Watchers -> WatcherRecord]
    BY <1>2, <1>5 DEF PickExpired, WatcherRecord, WatcherPc
  <2> QED
    BY <1>1, <1>5, <2>1 DEF PickExpired, rows, locks
<1>6. CASE TimeOutRequest(w)
  <2>1. watcher' \in [Watchers -> WatcherRecord]
    BY <1>2, <1>6 DEF TimeOutRequest, WatcherRecord, WatcherPc
  <2>2. \/ requestLock' = requestLock
        \/ requestLock' = [requestLock EXCEPT ![watcher[w].cur] = w]
    BY <1>6 DEF TimeOutRequest
  <2>3. [requestLock EXCEPT ![watcher[w].cur] = w] \in [Requests -> Txns \cup {NoTxn}]
    BY DEF Txns
  <2>4. Targets'
    <3>1. watcher[w].cur \in watcher[w].todo
      BY <1>6 DEF TimeOutRequest
    <3> QED
      BY <1>6, <3>1 DEF TimeOutRequest
  <2> QED
    BY <1>1, <1>6, <2>1, <2>2, <2>3, <2>4 DEF TimeOutRequest, rows
<1>7. CASE TimeOutItem(w)
  <2>1. watcher[w].cur \in watcher[w].todo /\ watcher[w].todo \subseteq Requests
    BY <1>7 DEF TimeOutItem
  <2>2. watcher' \in [Watchers -> WatcherRecord]
    <3> DEFINE r == watcher[w].cur
    <3>1. watcher[w].todo \ {r} \in SUBSET Requests /\ watcher[w].done \cup {r} \in SUBSET Requests
      BY <2>1
    <3>2. watcher' = [watcher EXCEPT ![w].pc = "working", ![w].cur = NoRequest,
                         ![w].todo = watcher[w].todo \ {r}, ![w].done = watcher[w].done \cup {r}]
      BY <1>7 DEF TimeOutItem
    <3> HIDE DEF r
    <3> QED
      BY <1>2, <3>1, <3>2 DEF WatcherRecord, WatcherPc
  <2>3. itemLock' \in [Requests -> Txns \cup {NoTxn}]
    BY <1>7 DEF TimeOutItem, Txns
  <2> QED
    BY <1>1, <1>7, <2>1, <2>2, <2>3 DEF TimeOutItem, rows
<1>8. CASE CommitTimeouts(w)
  <2>1. item' \in [Requests -> ItemStatus]
    BY <1>8 DEF CommitTimeouts, ItemStatus
  <2>2. request' \in [Requests -> RequestStatus]
    <3>1. \A r \in Requests : Dirty(request[r], watcher[w].seen[r], "blocked") \in RequestStatus
      BY DEF Dirty, RequestStatus
    <3> QED
      BY <1>8, <3>1 DEF CommitTimeouts
  <2>3. audit' \in [Requests -> Seq(Events \X Actors)]
    <3>1. "review.timed_out" \in Events /\ NoTxn \in Actors
      BY DEF Events, Actors
    <3>2. \A r \in Requests : Logged(audit[r], "review.timed_out", NoTxn)
                                 \in Seq(Events \X Actors)
      BY <3>1, LoggedType
    <3> QED
      BY <1>8, <3>2 DEF CommitTimeouts
  <2>4. /\ itemLock' \in [Requests -> Txns \cup {NoTxn}]
        /\ requestLock' \in [Requests -> Txns \cup {NoTxn}]
    BY <1>8, ReleaseType DEF CommitTimeouts
  <2> QED
    BY <1>1, <1>2, <1>8, <2>1, <2>2, <2>3, <2>4 DEF CommitTimeouts, Asleep
<1>9. CASE RollBackSweep(w) /\ failures' \in Nat
  <2>1. /\ itemLock' \in [Requests -> Txns \cup {NoTxn}]
        /\ requestLock' \in [Requests -> Txns \cup {NoTxn}]
    BY <1>9, ReleaseType DEF RollBackSweep
  <2> QED
    BY <1>1, <1>2, <1>9, <2>1 DEF RollBackSweep, Survives, Asleep, rows
<1> QED
  BY <1>3, <1>4, <1>5, <1>6, <1>7, <1>8, <1>9 DEF WatcherStep

\* So does every step of the review service, failures and deadlocks included.
LEMMA ReviewKeepsTypes ==
    ASSUME TypeInv, ReviewNext, UNCHANGED <<proxy, desk>>
    PROVE  TypeInv'
<1>1. ASSUME NEW c \in Calls, NEW r \in Requests, NEW d \in Decisions, LoadItem(c, r, d)
      PROVE  TypeInv'
  <2>1. call' \in [Calls -> CallRecord]
    <3>1. call[c] \in CallRecord /\ item[r] \in ItemStatus /\ "loading" \in CallPc
      BY DEF TypeInv, TypeOK, ReviewTypeOK, StoreTypeOK, CallPc
    <3> QED
      BY <1>1, <3>1 DEF LoadItem, CallRecord, TypeInv, TypeOK, ReviewTypeOK
  <2> QED
    BY <1>1, <2>1 DEF LoadItem, rows, locks, TypeInv, TypeOK, StoreTypeOK, ProxyTypeOK,
                      ReviewTypeOK, DeskTypeOK, Targets
<1>2. ASSUME NEW r \in Requests, DeadlinePasses(r)
      PROVE  TypeInv'
  <2>1. (overdue \cup {r}) \subseteq Requests
    BY DEF TypeInv, TypeOK, StoreTypeOK
  <2> QED
    BY <1>2, <2>1 DEF DeadlinePasses, locks, TypeInv, TypeOK, StoreTypeOK, ProxyTypeOK,
                      ReviewTypeOK, DeskTypeOK, Targets
<1>3. ASSUME NEW w \in Watchers, AbortSweep(w)
      PROVE  TypeInv'
  <2>1. failures' \in Nat
    BY <1>3 DEF AbortSweep, TypeInv, TypeOK, ReviewTypeOK
  <2> QED
    BY <1>3, <2>1, WatcherKeepsTypes DEF AbortSweep
<1>4. CASE BreakDeadlock
  <2>1. failures \in Nat
    BY DEF TypeInv, TypeOK, ReviewTypeOK
  <2> QED
    BY <1>4, <2>1, CallKeepsTypes, WatcherKeepsTypes DEF BreakDeadlock
<1> QED
  BY <1>1, <1>2, <1>3, <1>4, CallKeepsTypes, WatcherKeepsTypes DEF ReviewNext

\* A step of the incident routes keeps the types.
LEMMA DeskKeepsTypes ==
    ASSUME TypeInv, DeskNext, UNCHANGED <<proxy, call, watcher, failures>>
    PROVE  TypeInv'
<1> USE DEF TypeInv, TypeOK, StoreTypeOK, DeskTypeOK, Targets
<1>1. ProxyTypeOK' /\ ReviewTypeOK'
  BY DEF ProxyTypeOK, ReviewTypeOK
<1>2. PICK u \in Responders :
        \/ \E r \in Requests, edit \in Edits : LoadIncident(u, r, edit)
        \/ \E r \in Requests, edit \in Edits : RefuseEdit(u, r, edit)
        \/ SaveIncident(u)
  BY DEF DeskNext
<1>3. ASSUME NEW r \in Requests, NEW edit \in Edits, LoadIncident(u, r, edit)
      PROVE  TypeInv'
  <2>1. PICK new \in Edited(incident[r], edit, u) :
          desk' = [desk EXCEPT ![u] = [pc |-> "editing", req |-> r,
                                       seen |-> incident[r], new |-> new]]
    BY <1>3 DEF LoadIncident
  <2>2. new \in IncidentRow
    BY EditedType
  <2>3. desk' \in [Responders -> DeskRecord]
    BY <2>1, <2>2 DEF DeskRecord
  <2> QED
    BY <1>1, <1>3, <2>1, <2>3 DEF LoadIncident, rows, locks
<1>4. ASSUME NEW r \in Requests, NEW edit \in Edits, RefuseEdit(u, r, edit)
      PROVE  TypeInv'
  <2>1. desk' \in [Responders -> DeskRecord]
    BY <1>4, NewIncidentType DEF RefuseEdit, IdleDesk, DeskRecord
  <2> QED
    BY <1>1, <1>4, <2>1 DEF RefuseEdit, IdleDesk, rows, locks
<1>5. CASE SaveIncident(u)
  <2>1. desk[u] \in DeskRecord /\ desk[u].req \in Requests
    BY <1>5 DEF SaveIncident
  <2>2. Flushed(incident[desk[u].req], desk[u].seen, desk[u].new) \in IncidentRow
    BY <2>1, FlushedType DEF DeskRecord
  <2>3. incident' \in [Requests -> IncidentRow]
    BY <1>5, <2>2 DEF SaveIncident
  <2>4. desk' \in [Responders -> DeskRecord]
    BY <1>5, <2>1, NewIncidentType DEF SaveIncident, IdleDesk, DeskRecord
  <2> QED
    BY <1>1, <1>5, <2>3, <2>4 DEF SaveIncident, IdleDesk, locks
<1> QED
  BY <1>2, <1>3, <1>4, <1>5

\* Before anything runs, every variable is of its type.
LEMMA InitTypes == Init => TypeInv
<1> SUFFICES ASSUME Init PROVE TypeInv
  OBVIOUS
<1>1. StoreTypeOK
  BY NewIncidentType DEF Init, StoreInit, StoreTypeOK, RequestStatus, ItemStatus
<1>2. ProxyTypeOK
  BY DEF Init, ProxyInit, ProxyTypeOK, ProxyPc
<1>3. IdleCall \in CallRecord
  BY NewIncidentType DEF IdleCall, CallRecord, CallPc, ItemStatus, RequestStatus
<1>4. Asleep \in WatcherRecord
  BY DEF Asleep, WatcherRecord, WatcherPc, RequestStatus
<1>5. IdleDesk \in DeskRecord
  BY NewIncidentType DEF IdleDesk, DeskRecord
<1>6. ReviewTypeOK /\ DeskTypeOK
  BY <1>3, <1>4, <1>5 DEF Init, ReviewInit, DeskInit, ReviewTypeOK, DeskTypeOK
<1>7. Targets
  BY DEF Init, ReviewInit, DeskInit, Targets, IdleCall, Asleep, IdleDesk
<1> QED
  BY <1>1, <1>2, <1>6, <1>7 DEF TypeInv, TypeOK

\* No step of the pipeline breaks the types.
LEMMA StepKeepsTypes ==
    ASSUME TypeInv, [Next]_vars
    PROVE  TypeInv'
<1>1. CASE UNCHANGED vars
  BY <1>1 DEF vars, rows, locks, TypeInv, TypeOK, StoreTypeOK, ProxyTypeOK, ReviewTypeOK,
              DeskTypeOK, Targets
<1> QED
  BY <1>1, ProxyKeepsTypes, ReviewKeepsTypes, DeskKeepsTypes DEF Next

\* Every variable holds what its declaration says, whatever the proxy, the decide
\* calls, the watchers and the incident routes do to the rows.
THEOREM TypeCorrect == Spec => []TypeOK
<1>1. TypeInv => TypeOK
  BY DEF TypeInv
<1> QED
  BY InitTypes, StepKeepsTypes, <1>1, PTL DEF Spec

----------------------------------------------------------------------------
(* The row lock of a decide call.                                          *)

\* No call is past its lock before it starts.
LEMMA LockInit == Init => LockDiscipline
  BY DEF Init, ReviewInit, IdleCall, LockDiscipline, Deciding

\* A call past its lock keeps it: nobody else releases or takes it.
LEMMA LockStep ==
    ASSUME TypeInv, LockDiscipline, [Next]_vars
    PROVE  LockDiscipline'
<1> SUFFICES ASSUME NEW r \in Requests, NEW c \in Calls, Deciding(c, r)'
             PROVE  itemLock'[r] = c
  BY DEF LockDiscipline
<1> USE DEF TypeInv, TypeOK, StoreTypeOK, ReviewTypeOK, Deciding
<1>1. c # NoTxn /\ \A w \in Watchers : c # w
  BY TxnAssumption DEF Txns
<1>2. Deciding(c, r) => itemLock[r] = c
  BY DEF LockDiscipline
<1>3. CASE UNCHANGED <<call, itemLock>>
  BY <1>2, <1>3
<1>4. ASSUME NEW t \in Txns, itemLock' = Release(itemLock, t), t # c, Deciding(c, r)
      PROVE  itemLock'[r] = c
  BY <1>2, <1>4 DEF Release
<1>5. CASE ProxyNext /\ UNCHANGED call
  <2>1. UNCHANGED locks
    BY <1>5 DEF ProxyNext, AutoBlocked, EnqueueForReview, ForwardToUpstream, ResponseAllowed,
                ResponseBlocked, ProxyFails, Record
  <2> QED
    BY <1>3, <1>5, <2>1 DEF locks
<1>6. CASE DeskNext /\ UNCHANGED call
  <2>1. UNCHANGED locks
    BY <1>6 DEF DeskNext, LoadIncident, RefuseEdit, SaveIncident
  <2> QED
    BY <1>3, <1>6, <2>1 DEF locks
<1>7. ASSUME NEW d \in Calls, NEW q \in Requests, NEW decision \in Decisions,
             LoadItem(d, q, decision)
      PROVE  itemLock'[r] = c
  BY <1>2, <1>7 DEF LoadItem, locks
<1>8. ASSUME NEW d \in Calls, CallStep(d)
      PROVE  itemLock'[r] = c
  <2>1. CASE LoadRequest(d)
    BY <1>2, <2>1 DEF LoadRequest, locks
  <2>2. CASE LockItem(d)
    BY <1>1, <1>2, <2>2 DEF LockItem, ItemUnlocked
  <2>3. CASE RefuseDecision(d)
    BY <1>2, <2>3 DEF RefuseDecision, Finished, IdleCall, locks
  <2>4. CASE ReplayApprovedRequest(d)
    <3>1. UNCHANGED itemLock /\ call[d].pc = "locked" /\ call'[d].req = call[d].req
          /\ \A e \in Calls \ {d} : call'[e] = call[e]
      BY <2>4 DEF ReplayApprovedRequest, locks
    <3> QED
      BY <1>2, <3>1
  <2>5. CASE ReplayUnsent(d)
    BY <1>2, <2>5 DEF ReplayUnsent, locks
  <2>6. CASE FlushDecision(d)
    BY <1>2, <2>6 DEF FlushDecision, ReadyToFlush
  <2>7. CASE CommitDecision(d)
    <3>1. d # c /\ Deciding(c, r)
      BY <2>7 DEF CommitDecision, Finished, IdleCall
    <3> QED
      BY <1>4, <2>7, <3>1 DEF CommitDecision, Txns
  <2> QED
    BY <1>8, <2>1, <2>2, <2>3, <2>4, <2>5, <2>6, <2>7 DEF CallStep
<1>9. ASSUME NEW d \in Calls, AbortCall(d)
      PROVE  itemLock'[r] = c
  <2>1. d # c /\ Deciding(c, r)
    BY <1>9 DEF AbortCall, Finished, IdleCall
  <2> QED
    BY <1>4, <1>9, <2>1 DEF AbortCall, Txns
<1>10. ASSUME NEW w \in Watchers, WatcherStep(w)
       PROVE  itemLock'[r] = c
  <2>1. CASE UNCHANGED <<itemLock, call>>
    BY <1>3, <2>1
  <2>2. CASE TimeOutItem(w)
    BY <1>1, <1>2, <2>2 DEF TimeOutItem
  <2>3. CASE CommitTimeouts(w)
    BY <1>1, <1>4, <2>3 DEF CommitTimeouts, Txns
  <2> QED
    BY <1>10, <2>1, <2>2, <2>3 DEF WatcherStep, SelectExpired, LoadExpiredRequests, PickExpired,
                                   TimeOutRequest, locks
<1>11. ASSUME NEW w \in Watchers, RollBackSweep(w)
       PROVE  itemLock'[r] = c
  BY <1>1, <1>4, <1>11 DEF RollBackSweep, Txns
<1>12. CASE ReviewNext
  BY <1>3, <1>7, <1>8, <1>9, <1>10, <1>11, <1>12
  DEF ReviewNext, DeadlinePasses, AbortSweep, BreakDeadlock, locks
<1>13. CASE UNCHANGED vars
  BY <1>3, <1>13 DEF vars, locks
<1> QED
  BY <1>5, <1>6, <1>12, <1>13 DEF Next

\* FOR UPDATE keeps the decide calls of one item apart, for any number of calls
\* and watchers: from its lock to its commit a call is alone, so that no two
\* replays of one request overlap.
THEOREM DecideCallsExclude == Spec => []DecisionsExclusive
<1>1. TypeInv /\ LockDiscipline => DecisionsExclusive
  BY DEF LockDiscipline, DecisionsExclusive
<1> QED
  BY InitTypes, StepKeepsTypes, LockInit, LockStep, <1>1, PTL DEF Spec

----------------------------------------------------------------------------
(* Which rows there are.                                                   *)

RowsInv == TypeInv /\ Routed /\ OnRows

\* There is nothing to route and nothing to work on at first.
LEMMA RowsInit == Init => Routed /\ OnRows
  BY DEF Init, StoreInit, ProxyInit, ReviewInit, DeskInit, IdleCall, Asleep, IdleDesk,
         Routed, OnRows

\* A flush changes the status of an incident only to one the session set.
LEMMA FlushedStatus ==
    ASSUME NEW stored, NEW seen, NEW new, stored.status # "absent",
           new.status # seen.status => new.status # "absent"
    PROVE  Flushed(stored, seen, new).status # "absent"
  BY DEF Flushed, Dirty

\* The review service and the incident routes neither add nor drop an item or an
\* incident, and leave a request that was never queued alone.
RowsStay ==
    /\ UNCHANGED <<proxy, score>>
    /\ \A r \in Requests :
          /\ item'[r] = "absent" <=> item[r] = "absent"
          /\ incident[r].status # "absent" => incident'[r].status # "absent"
          /\ incident[r].status = "absent" => incident'[r] = incident[r]
          /\ item[r] = "absent" => request'[r] = request[r]

\* A committed decision leaves the rows of its request there.
LEMMA CommitRows ==
    ASSUME RowsInv, NEW c \in Calls, CommitDecision(c), UNCHANGED proxy
    PROVE  RowsStay
<1> DEFINE q == call[c].req
<1> USE DEF RowsInv, TypeInv, TypeOK, StoreTypeOK
<1>1. q \in Requests /\ item[q] # "absent" /\ incident[q].status # "absent"
  BY DEF CommitDecision, OnRows, Routed, Targets
<1>2. IncidentDecided(c).status # call[c].incident.status => IncidentDecided(c).status # "absent"
  <2>1. call[c].incident \in IncidentRow
    BY DEF ReviewTypeOK, CallRecord
  <2> QED
    BY <2>1 DEF IncidentDecided, IncidentRow
<1>3. Flushed(incident[q], call[c].incident, IncidentDecided(c)).status # "absent"
  BY <1>1, <1>2, FlushedStatus
<1>4. ItemStatusOf(call[c].decision) # "absent"
  BY DEF ItemStatusOf
<1> QED
  BY <1>1, <1>3, <1>4 DEF CommitDecision, RowsStay

\* So does every step of the review service.
LEMMA ReviewRows ==
    ASSUME RowsInv, ReviewNext, UNCHANGED <<proxy, desk>>
    PROVE  RowsStay
<1>1. CASE UNCHANGED <<proxy, score, item, incident, request>>
  BY <1>1 DEF RowsStay
<1>2. ASSUME NEW w \in Watchers, CommitTimeouts(w)
      PROVE  RowsStay
  <2>1. \A r \in watcher[w].done : item[r] # "absent"
    BY DEF RowsInv, OnRows
  <2> QED
    BY <1>2, <2>1 DEF CommitTimeouts, RowsStay
<1>3. ASSUME NEW w \in Watchers, WatcherStep(w)
      PROVE  RowsStay
  BY <1>1, <1>2, <1>3 DEF WatcherStep, SelectExpired, LoadExpiredRequests, PickExpired,
                          TimeOutRequest, TimeOutItem, rows
<1>4. ASSUME NEW c \in Calls, CallStep(c)
      PROVE  RowsStay
  BY <1>1, <1>4, CommitRows DEF CallStep, LoadRequest, LockItem, RefuseDecision,
                                ReplayApprovedRequest, ReplayUnsent, FlushDecision, rows
<1>5. ASSUME NEW c \in Calls, AbortCall(c)
      PROVE  RowsStay
  BY <1>1, <1>5 DEF AbortCall, rows
<1>6. ASSUME NEW w \in Watchers, RollBackSweep(w)
      PROVE  RowsStay
  BY <1>1, <1>6 DEF RollBackSweep, rows
<1> QED
  BY <1>1, <1>3, <1>4, <1>5, <1>6
  DEF ReviewNext, LoadItem, DeadlinePasses, AbortSweep, BreakDeadlock, rows

\* So does every step of the incident routes.
LEMMA DeskRows ==
    ASSUME RowsInv, DeskNext, UNCHANGED <<proxy, call, watcher, failures>>
    PROVE  RowsStay
<1>1. CASE UNCHANGED <<proxy, score, item, incident, request>>
  BY <1>1 DEF RowsStay
<1>2. ASSUME NEW u \in Responders, SaveIncident(u)
      PROVE  RowsStay
  <2> DEFINE q == desk[u].req
  <2>1. q \in Requests /\ incident[q].status # "absent" /\ desk[u].new.status # "absent"
    BY <1>2 DEF SaveIncident, RowsInv, TypeInv, Targets, OnRows
  <2>2. Flushed(incident[q], desk[u].seen, desk[u].new).status # "absent"
    BY <2>1, FlushedStatus
  <2> QED
    BY <1>2, <2>1, <2>2 DEF SaveIncident, RowsStay, RowsInv, TypeInv, TypeOK, StoreTypeOK
<1> QED
  BY <1>1, <1>2 DEF DeskNext, LoadIncident, RefuseEdit, rows

\* Steps that leave the rows there keep what the proxy's routing promised.
LEMMA RoutedStays ==
    ASSUME RowsInv, RowsStay
    PROVE  Routed'
<1> SUFFICES ASSUME NEW r \in Requests
             PROVE  /\ proxy[r] # "done" => /\ request'[r] = "absent"
                                            /\ item'[r] = "absent"
                                            /\ incident'[r] = NoIncident
                    /\ proxy[r] = "forwarding" => score[r] < AutoBlock /\ score[r] <= AutoAllow
                    /\ item'[r] # "absent" => /\ score[r] < AutoBlock
                                              /\ incident'[r].status # "absent"
  BY DEF Routed, RowsStay
<1>1. NoIncident.status = "absent"
  BY DEF NoIncident
<1> QED
  BY <1>1 DEF RowsInv, Routed, RowsStay

\* A handler commits all the rows of its route at once.
LEMMA ProxyRows ==
    ASSUME RowsInv, ProxyNext, UNCHANGED <<call, watcher, failures, desk>>
    PROVE  Routed' /\ OnRows'
<1> USE DEF RowsInv, TypeInv, TypeOK, StoreTypeOK, ProxyTypeOK
<1>1. PICK q \in Requests :
        \/ AutoBlocked(q)
        \/ EnqueueForReview(q)
        \/ ForwardToUpstream(q)
        \/ ResponseAllowed(q)
        \/ ResponseBlocked(q)
        \/ ProxyFails(q)
  BY DEF ProxyNext
<1>2. score' = score
  BY <1>1 DEF AutoBlocked, EnqueueForReview, ForwardToUpstream, ResponseAllowed, ResponseBlocked,
              ProxyFails, Record, rows
<1>3. \A r \in Requests : AutoBlock \in Int /\ AutoAllow \in Int /\ score[r] \in Int
  BY ScoreAssumption
<1>4. NewIncident.status # "absent"
  BY DEF NewIncident, NoIncident
<1>5. proxy[q] # "done" /\ item[q] = "absent" /\ incident[q] = NoIncident /\ request[q] = "absent"
  BY <1>1 DEF AutoBlocked, EnqueueForReview, ForwardToUpstream, ResponseAllowed, ResponseBlocked,
              ProxyFails, Routed
<1>6. NoIncident.status = "absent"
  BY DEF NoIncident
<1>7. \A r \in Requests :
        /\ r # q => /\ UNCHANGED <<item[r], incident[r], request[r], proxy[r]>>
        /\ proxy'[q] # "done" => UNCHANGED <<item, incident, request>>
        /\ proxy'[q] = "forwarding" => score[q] < AutoBlock /\ score[q] <= AutoAllow
        /\ item'[q] # "absent" => score[q] < AutoBlock /\ incident'[q].status # "absent"
  <2>1. CASE AutoBlocked(q)
    BY <1>5, <2>1 DEF AutoBlocked, Record, OpenIncident
  <2>2. CASE EnqueueForReview(q)
    BY <1>3, <1>4, <2>2 DEF EnqueueForReview, Record, OpenIncident, Suspicious, Critical
  <2>3. CASE ForwardToUpstream(q)
    BY <1>3, <1>5, <2>3 DEF ForwardToUpstream, Harmless, Critical
  <2>4. CASE ResponseAllowed(q)
    BY <1>5, <2>4 DEF ResponseAllowed, Record
  <2>5. CASE ResponseBlocked(q)
    BY <1>5, <2>5 DEF ResponseBlocked, Record, OpenIncident
  <2>6. CASE ProxyFails(q)
    BY <1>5, <2>6 DEF ProxyFails, rows
  <2> QED
    BY <1>1, <2>1, <2>2, <2>3, <2>4, <2>5, <2>6
<1>8. Routed'
  BY <1>2, <1>5, <1>7 DEF Routed
<1>9. OnRows'
  BY <1>5, <1>6, <1>7 DEF OnRows, Targets
<1> QED
  BY <1>8, <1>9

\* A step of a decide call is about the request it loaded, and about no other call.
LEMMA CallFrame ==
    ASSUME ReviewTypeOK, NEW d \in Calls, CallStep(d) \/ AbortCall(d)
    PROVE  /\ call[d].pc # "idle"
           /\ call'[d].req = call[d].req
           /\ call'[d].decision = call[d].decision
           /\ \A e \in Calls \ {d} : call'[e] = call[e]
<1> USE DEF ReviewTypeOK
<1>1. ASSUME NEW pc, Finished(d, pc)
      PROVE  /\ call'[d].req = call[d].req
             /\ call'[d].decision = call[d].decision
             /\ \A e \in Calls \ {d} : call'[e] = call[e]
  BY <1>1 DEF Finished, IdleCall
<1>2. CASE LoadRequest(d)
  BY <1>2 DEF LoadRequest, CallRecord
<1>3. CASE LockItem(d)
  BY <1>3 DEF LockItem, CallRecord
<1>4. CASE RefuseDecision(d)
  BY <1>1, <1>4 DEF RefuseDecision
<1>5. CASE ReplayApprovedRequest(d)
  BY <1>5 DEF ReplayApprovedRequest, CallRecord
<1>6. CASE ReplayUnsent(d)
  BY <1>6 DEF ReplayUnsent, CallRecord
<1>7. CASE FlushDecision(d)
  BY <1>7 DEF FlushDecision, ReadyToFlush, CallRecord
<1>8. CASE CommitDecision(d)
  BY <1>1, <1>8 DEF CommitDecision
<1>9. CASE AbortCall(d)
  BY <1>1, <1>9 DEF AbortCall
<1> QED
  BY <1>2, <1>3, <1>4, <1>5, <1>6, <1>7, <1>8, <1>9 DEF CallStep

\* A row that is there stays: what the sessions work on stays with it.
LEMMA ReviewOnRows ==
    ASSUME RowsInv, RowsStay, ReviewNext, UNCHANGED <<proxy, desk>>
    PROVE  OnRows'
<1> USE DEF RowsInv, TypeInv, TypeOK, StoreTypeOK, ReviewTypeOK
<1>1. \A r \in Requests : /\ item[r] # "absent" => item'[r] # "absent"
                          /\ incident[r].status # "absent" => incident'[r].status # "absent"
  BY DEF RowsStay
<1>2. \A u \in Responders :
        desk'[u].pc = "editing" => /\ incident'[desk'[u].req].status # "absent"
                                   /\ desk'[u].new.status # "absent"
  BY <1>1 DEF OnRows, Targets
<1>3. ASSUME NEW c \in Calls, call'[c].pc # "idle"
      PROVE  item'[call'[c].req] # "absent"
  <2>1. CASE call[c].pc # "idle" /\ call'[c].req = call[c].req
    BY <1>1, <2>1 DEF OnRows, Targets
  <2>2. ASSUME NEW d \in Calls, NEW q \in Requests, NEW decision \in Decisions,
               LoadItem(d, q, decision)
        PROVE  item'[call'[c].req] # "absent"
    BY <1>1, <1>3, <2>1, <2>2 DEF LoadItem
  <2>3. ASSUME NEW d \in Calls, CallStep(d) \/ AbortCall(d)
        PROVE  call[c].pc # "idle" /\ call'[c].req = call[c].req
    BY <1>3, <2>3, CallFrame
  <2>4. CASE UNCHANGED call
    BY <1>3, <2>1, <2>4
  <2> QED
    BY <2>1, <2>2, <2>3, <2>4
    DEF ReviewNext, DeadlinePasses, WatcherStep, SelectExpired, LoadExpiredRequests, PickExpired,
        TimeOutRequest, TimeOutItem, CommitTimeouts, AbortSweep, RollBackSweep, BreakDeadlock
<1>4. ASSUME NEW w \in Watchers, NEW r \in watcher'[w].todo \cup watcher'[w].done
      PROVE  item'[r] # "absent"
  <2>1. CASE r \in watcher[w].todo \cup watcher[w].done
    BY <1>1, <2>1 DEF OnRows, Targets
  <2>2. CASE UNCHANGED watcher
    BY <1>4, <2>1, <2>2
  <2>3. ASSUME NEW v \in Watchers, SelectExpired(v)
        PROVE  item'[r] # "absent"
    BY <1>1, <1>4, <2>1, <2>3 DEF SelectExpired, Expired
  <2>4. ASSUME NEW v \in Watchers, TimeOutItem(v)
        PROVE  r \in watcher[w].todo \cup watcher[w].done
    BY <1>4, <2>4 DEF TimeOutItem, Targets
  <2>5. ASSUME NEW v \in Watchers, LoadExpiredRequests(v)
        PROVE  r \in watcher[w].todo \cup watcher[w].done
    BY <1>4, <2>5 DEF LoadExpiredRequests
  <2>6. ASSUME NEW v \in Watchers, NEW q \in Requests, PickExpired(v, q)
        PROVE  r \in watcher[w].todo \cup watcher[w].done
    BY <1>4, <2>6 DEF PickExpired
  <2>7. ASSUME NEW v \in Watchers, TimeOutRequest(v)
        PROVE  r \in watcher[w].todo \cup watcher[w].done
    BY <1>4, <2>7 DEF TimeOutRequest
  <2>8. ASSUME NEW v \in Watchers, watcher' = [watcher EXCEPT ![v] = Asleep]
        PROVE  r \in watcher[w].todo \cup watcher[w].done
    BY <1>4, <2>8 DEF Asleep
  <2> QED
    BY <2>1, <2>2, <2>3, <2>4, <2>5, <2>6, <2>7, <2>8
    DEF ReviewNext, LoadItem, DeadlinePasses, CallStep, LoadRequest, LockItem, RefuseDecision,
        ReplayApprovedRequest, ReplayUnsent, FlushDecision, CommitDecision, AbortCall,
        WatcherStep, CommitTimeouts, RollBackSweep, Survives, AbortSweep, BreakDeadlock
<1> QED
  BY <1>2, <1>3, <1>4 DEF OnRows

\* An edit of an incident that is there leaves it there.
LEMMA DeskOnRows ==
    ASSUME RowsInv, RowsStay, DeskNext, UNCHANGED <<proxy, call, watcher, failures>>
    PROVE  OnRows'
<1> USE DEF RowsInv, TypeInv, TypeOK, StoreTypeOK, DeskTypeOK
<1>1. \A r \in Requests : /\ item[r] # "absent" => item'[r] # "absent"
                          /\ incident[r].status # "absent" => incident'[r].status # "absent"
  BY DEF RowsStay
<1>2. ASSUME NEW row \in IncidentRow, row.status # "absent", NEW u \in Responders,
             NEW edit \in Edits, Accepts(row, edit), NEW new \in Edited(row, edit, u)
      PROVE  new.status # "absent"
  BY <1>2 DEF Edited, Edits, Journal, StatusUpdated, IncidentRow, IncidentStatus
<1>3. ASSUME NEW u \in Responders, desk'[u].pc = "editing"
      PROVE  incident'[desk'[u].req].status # "absent" /\ desk'[u].new.status # "absent"
  <2>1. CASE desk'[u] = desk[u]
    BY <1>1, <1>3, <2>1 DEF OnRows, Targets
  <2>2. ASSUME NEW v \in Responders, NEW q \in Requests, NEW edit \in Edits,
               LoadIncident(v, q, edit)
        PROVE  incident'[desk'[u].req].status # "absent" /\ desk'[u].new.status # "absent"
    <3>1. PICK new \in Edited(incident[q], edit, v) :
            desk' = [desk EXCEPT ![v] = [pc |-> "editing", req |-> q,
                                         seen |-> incident[q], new |-> new]]
      BY <2>2 DEF LoadIncident
    <3>2. new.status # "absent"
      BY <1>2, <2>2 DEF LoadIncident
    <3> QED
      BY <1>1, <2>1, <2>2, <3>1, <3>2 DEF LoadIncident
  <2>3. ASSUME NEW v \in Responders, NEW q, NEW pc \in {"refused", "saved"},
               desk' = [desk EXCEPT ![v] = [IdleDesk EXCEPT !.pc = pc, !.req = q]]
        PROVE  desk'[u] = desk[u]
    <3>1. [IdleDesk EXCEPT !.pc = pc, !.req = q].pc # "editing"
      BY DEF IdleDesk
    <3> QED
      BY <1>3, <2>3, <3>1
  <2> QED
    BY <2>1, <2>2, <2>3 DEF DeskNext, RefuseEdit, SaveIncident
<1> QED
  BY <1>1, <1>3 DEF OnRows, Targets

\* No step of the pipeline works on a row that is not there.
LEMMA RowsStep ==
    ASSUME RowsInv, [Next]_vars
    PROVE  Routed' /\ OnRows'
<1>1. CASE UNCHANGED vars
  BY <1>1 DEF vars, rows, RowsInv, Routed, OnRows
<1> QED
  BY <1>1, ProxyRows, ReviewRows, ReviewOnRows, DeskRows, DeskOnRows, RoutedStays DEF Next

----------------------------------------------------------------------------
(* What reaches the upstream LLM.                                          *)

\* An approval that held the item's row stays one.
LEMMA ApprovesStays ==
    ASSUME TypeInv, ReviewNext, NEW c \in Calls, NEW r \in Requests, Approves(c, r)
    PROVE  Approves(c, r)'
<1> USE DEF TypeInv, TypeOK, ReviewTypeOK, Approves
<1>1. CASE call'[c] = call[c]
  BY <1>1
<1>2. CASE LoadRequest(c) \/ LockItem(c) \/ RefuseDecision(c) \/ ReplayApprovedRequest(c)
             \/ ReplayUnsent(c)
  BY <1>2 DEF LoadRequest, LockItem, RefuseDecision, ReplayApprovedRequest, ReplayUnsent
<1>3. CASE FlushDecision(c)
  BY <1>3 DEF FlushDecision
<1>4. CASE CommitDecision(c)
  BY <1>4 DEF CommitDecision, Finished, IdleCall
<1>5. CASE AbortCall(c)
  BY <1>5 DEF AbortCall, Finished, IdleCall
<1>6. ASSUME NEW d \in Calls, CallStep(d) \/ AbortCall(d)
      PROVE  Approves(c, r)'
  <2>1. CASE d = c
    BY <1>2, <1>3, <1>4, <1>5, <1>6, <2>1 DEF CallStep
  <2> QED
    BY <1>1, <1>6, <2>1, CallFrame
<1>7. ASSUME NEW d \in Calls, NEW q \in Requests, NEW decision \in Decisions,
             LoadItem(d, q, decision)
      PROVE  Approves(c, r)'
  BY <1>1, <1>7 DEF LoadItem
<1>8. CASE UNCHANGED call
  BY <1>1, <1>8
<1> QED
  BY <1>6, <1>7, <1>8
  DEF ReviewNext, DeadlinePasses, WatcherStep, SelectExpired, LoadExpiredRequests, PickExpired,
      TimeOutRequest, TimeOutItem, CommitTimeouts, AbortSweep, RollBackSweep, BreakDeadlock

\* A replay is of a request below the block threshold that was approved.
LEMMA ReplayCleared ==
    ASSUME RowsInv, ForwardedOnlyIfCleared, NEW d \in Calls, ReplayApprovedRequest(d), ReviewNext
    PROVE  ForwardedOnlyIfCleared'
<1> USE DEF RowsInv, TypeInv, TypeOK, StoreTypeOK, ReviewTypeOK
<1>1. PICK q \in Requests : q = call[d].req /\ item[q] # "absent"
  BY DEF ReplayApprovedRequest, OnRows, Targets
<1>2. score[q] < AutoBlock
  BY <1>1 DEF Routed
<1>3. Approves(d, q)'
  <2>1. call'[d].pc = "replayed" /\ call'[d].req = q /\ call'[d].decision = call[d].decision
    BY <1>1 DEF ReplayApprovedRequest, CallRecord
  <2> QED
    BY <2>1 DEF ReplayApprovedRequest, ReplaysUpstream, Approves
<1>4. \A r \in Requests \ {q} : forwarded'[r] = forwarded[r]
  BY <1>1 DEF ReplayApprovedRequest
<1>5. score' = score
  BY DEF ReplayApprovedRequest
<1>6. ASSUME NEW r \in Requests, forwarded'[r] > 0
      PROVE  /\ score'[r] < AutoBlock
             /\ score'[r] <= AutoAllow \/ \E c \in Calls : Approves(c, r)'
  <2>1. CASE r = q
    BY <1>2, <1>3, <1>5, <2>1
  <2>2. CASE r # q
    <3>1. forwarded'[r] = forwarded[r]
      BY <1>4, <2>2
    <3>2. score[r] < AutoBlock /\ (score[r] <= AutoAllow \/ \E c \in Calls : Approves(c, r))
      BY <1>6, <3>1 DEF ForwardedOnlyIfCleared
    <3>3. \A c \in Calls : Approves(c, r) => Approves(c, r)'
      BY ApprovesStays
    <3> QED
      BY <1>5, <3>2, <3>3
  <2> QED
    BY <2>1, <2>2
<1> QED
  BY <1>6 DEF ForwardedOnlyIfCleared

\* No step sends upstream what nobody cleared.
LEMMA ClearedStep ==
    ASSUME RowsInv, ForwardedOnlyIfCleared, [Next]_vars
    PROVE  ForwardedOnlyIfCleared'
<1> USE DEF ForwardedOnlyIfCleared
<1>1. CASE UNCHANGED <<score, forwarded, call>>
  BY <1>1 DEF Approves
<1>2. CASE UNCHANGED <<score, forwarded>> /\ ReviewNext
  BY <1>2, ApprovesStays DEF RowsInv
<1>3. ASSUME NEW q \in Requests, ForwardToUpstream(q), UNCHANGED call
      PROVE  ForwardedOnlyIfCleared'
  <2>1. score[q] < AutoBlock /\ score[q] <= AutoAllow
    <3>1. score[q] \in Int /\ AutoBlock \in Int /\ AutoAllow \in Int
      BY ScoreAssumption DEF RowsInv, TypeInv, TypeOK, StoreTypeOK
    <3> QED
      BY <1>3, <3>1 DEF ForwardToUpstream, Harmless, Critical
  <2>2. \A r \in Requests \ {q} : forwarded'[r] = forwarded[r]
    BY <1>3 DEF ForwardToUpstream, RowsInv, TypeInv, TypeOK, StoreTypeOK
  <2> QED
    BY <1>3, <2>1, <2>2 DEF ForwardToUpstream, Approves
<1>4. CASE ProxyNext /\ UNCHANGED call
  BY <1>1, <1>3, <1>4 DEF ProxyNext, AutoBlocked, EnqueueForReview, ResponseAllowed,
                          ResponseBlocked, ProxyFails, Record, rows
<1>5. CASE DeskNext /\ UNCHANGED call
  BY <1>1, <1>5 DEF DeskNext, LoadIncident, RefuseEdit, SaveIncident, rows
<1>6. CASE ReviewNext
  BY <1>2, <1>6, ReplayCleared
  DEF ReviewNext, LoadItem, CallStep, LoadRequest, LockItem, RefuseDecision, ReplayUnsent,
      FlushDecision, CommitDecision, AbortCall, DeadlinePasses, WatcherStep, SelectExpired,
      LoadExpiredRequests, PickExpired, TimeOutRequest, TimeOutItem, CommitTimeouts, AbortSweep,
      RollBackSweep, BreakDeadlock, rows
<1> QED
  BY <1>1, <1>4, <1>5, <1>6 DEF Next, vars, rows

\* Nothing is forwarded at first.
LEMMA ClearedInit == Init => ForwardedOnlyIfCleared
  BY DEF Init, StoreInit, ForwardedOnlyIfCleared

\* For any thresholds, scores, reviewers and watchers, only the policy or an
\* approval that got the item's lock sends a request upstream.
THEOREM UpstreamSeesClearedRequests == Spec => []ForwardedOnlyIfCleared
  BY InitTypes, StepKeepsTypes, RowsInit, RowsStep, ClearedInit, ClearedStep, PTL DEF Spec, RowsInv

\* The request's row of a critical request: what RowsInv does not say of it.
CriticalRequests ==
    \A r \in Requests : score[r] >= AutoBlock => request[r] \in {"absent", "blocked"}

\* No step shows a critical request as anything but blocked.
LEMMA CriticalStep ==
    ASSUME RowsInv, CriticalRequests, [Next]_vars
    PROVE  CriticalRequests'
<1> USE DEF CriticalRequests
<1>1. CASE UNCHANGED <<score, request>>
  BY <1>1
<1>2. \A r \in Requests : score[r] \in Int /\ AutoBlock \in Int
  BY ScoreAssumption DEF RowsInv, TypeInv, TypeOK, StoreTypeOK
<1>3. CASE RowsStay
  <2>1. \A r \in Requests : score[r] >= AutoBlock => item[r] = "absent"
    BY <1>2 DEF RowsInv, Routed
  <2> QED
    BY <1>3, <2>1 DEF RowsStay
<1>4. CASE ProxyNext
  <2>1. ASSUME NEW q \in Requests, NEW status, NEW event, Record(q, status, event),
               score[q] < AutoBlock \/ status = "blocked"
        PROVE  CriticalRequests'
    BY <1>2, <2>1 DEF Record, RowsInv, TypeInv, TypeOK, StoreTypeOK
  <2>2. ASSUME NEW q \in Requests, EnqueueForReview(q)
        PROVE  CriticalRequests'
    BY <1>2, <2>1, <2>2 DEF EnqueueForReview, Suspicious, Critical
  <2>3. ASSUME NEW q \in Requests, ResponseAllowed(q)
        PROVE  CriticalRequests'
    BY <2>1, <2>3 DEF ResponseAllowed, RowsInv, Routed
  <2> QED
    BY <1>1, <1>4, <2>1, <2>2, <2>3 DEF ProxyNext, AutoBlocked, ForwardToUpstream,
                                        ResponseBlocked, ProxyFails, rows
<1> QED
  BY <1>1, <1>3, <1>4, ReviewRows, DeskRows DEF Next, vars, rows

\* Whatever races, a request whose score reaches the block threshold has no item
\* to decide, is not forwarded and shows as blocked or not at all.
THEOREM CriticalRequestsStayBlocked == Spec => []CriticalStaysBlocked
<1>1. Init => CriticalRequests
  BY DEF Init, StoreInit, CriticalRequests
<1>2. RowsInv /\ CriticalRequests /\ ForwardedOnlyIfCleared => CriticalStaysBlocked
  <2> SUFFICES ASSUME RowsInv, CriticalRequests, ForwardedOnlyIfCleared, NEW r \in Requests,
                      score[r] >= AutoBlock
               PROVE  /\ request[r] \in {"absent", "blocked"}
                      /\ item[r] = "absent"
                      /\ forwarded[r] = 0
    BY DEF CriticalStaysBlocked
  <2>1. score[r] \in Int /\ AutoBlock \in Int /\ forwarded[r] \in Nat
    BY ScoreAssumption DEF RowsInv, TypeInv, TypeOK, StoreTypeOK
  <2> QED
    BY <2>1 DEF CriticalRequests, RowsInv, Routed, ForwardedOnlyIfCleared
<1> QED
  BY InitTypes, StepKeepsTypes, RowsInit, RowsStep, ClearedInit, ClearedStep, CriticalStep,
     <1>1, <1>2, PTL DEF Spec, RowsInv

----------------------------------------------------------------------------
(* The audit log.                                                          *)

\* An entry of a log stays in it.
LEMMA LogGrows ==
    ASSUME NEW log \in Seq(Events \X Actors), NEW event \in Events, NEW actor \in Actors,
           NEW more, more = log \/ more = Logged(log, event, actor)
    PROVE  \A entry : Entered(log, entry) => Entered(more, entry)
  BY DEF Logged, Entered

\* The entry appended is in the log.
LEMMA LogHasLast ==
    ASSUME NEW log \in Seq(Events \X Actors), NEW event \in Events, NEW actor \in Actors
    PROVE  Entered(Logged(log, event, actor), <<event, actor>>)
<1>1. Logged(log, event, actor)[Len(log) + 1] = <<event, actor>>
  BY DEF Logged
<1>2. Len(log) + 1 \in 1..Len(Logged(log, event, actor))
  BY DEF Logged
<1> QED
  BY <1>1, <1>2 DEF Entered

\* An item whose row is left alone stays explained.
LEMMA ExplainedStays ==
    ASSUME TypeInv, NEW r \in Requests, Explained(r),
           item'[r] = item[r], reviewer'[r] = reviewer[r],
           \/ audit'[r] = audit[r]
           \/ \E event \in Events, actor \in Actors : audit'[r] = Logged(audit[r], event, actor)
    PROVE  Explained(r)'
<1>1. audit[r] \in Seq(Events \X Actors)
  BY DEF TypeInv, TypeOK, StoreTypeOK
<1>2. "review.timed_out" \in Events /\ NoTxn \in Actors
  BY DEF Events, Actors
<1>3. \A entry : Entered(audit[r], entry) => Entered(audit'[r], entry)
  BY <1>1, LogGrows
<1> QED
  BY <1>3 DEF Explained, InLog

\* A decision commits with its entry.
LEMMA CommitExplains ==
    ASSUME TypeInv, AuditExplainsStatus, NEW c \in Calls, CommitDecision(c)
    PROVE  AuditExplainsStatus'
<1> USE DEF TypeInv, TypeOK, StoreTypeOK
<1>1. PICK q \in Requests : q = call[c].req
  BY DEF CommitDecision, Targets
<1>2. \A r \in Requests \ {q} : Explained(r)'
  <2>1. \A r \in Requests \ {q} : UNCHANGED <<item[r], reviewer[r], audit[r]>>
    BY <1>1 DEF CommitDecision
  <2> QED
    BY <2>1, ExplainedStays DEF AuditExplainsStatus
<1>3. Explained(q)'
  <2> DEFINE event == EventOf(call[c].decision)
  <2>1. event \in Events /\ c \in Actors /\ audit[q] \in Seq(Events \X Actors)
    BY DEF EventOf, Events, Actors
  <2>2. audit'[q] = Logged(audit[q], event, c)
    BY <1>1 DEF CommitDecision, AuditDecided
  <2>3. Entered(audit'[q], <<event, c>>)
    BY <2>1, <2>2, LogHasLast
  <2>4. item'[q] = ItemStatusOf(call[c].decision) /\ reviewer'[q] = c
    BY <1>1 DEF CommitDecision
  <2> QED
    BY <2>3, <2>4 DEF Explained, InLog, ItemStatusOf, EventOf
<1> QED
  BY <1>2, <1>3 DEF AuditExplainsStatus

\* A sweep commits with an entry for each of its items.
LEMMA TimeoutsExplain ==
    ASSUME TypeInv, AuditExplainsStatus, NEW w \in Watchers, CommitTimeouts(w)
    PROVE  AuditExplainsStatus'
<1> USE DEF TypeInv, TypeOK, StoreTypeOK
<1>1. ASSUME NEW r \in Requests \ watcher[w].done
      PROVE  Explained(r)'
  <2>1. UNCHANGED <<item[r], reviewer[r], audit[r]>>
    BY <1>1 DEF CommitTimeouts
  <2> QED
    BY <1>1, <2>1, ExplainedStays DEF AuditExplainsStatus
<1>2. ASSUME NEW r \in Requests, r \in watcher[w].done
      PROVE  Explained(r)'
  <2>1. item'[r] = "timed_out" /\ audit'[r] = Logged(audit[r], "review.timed_out", NoTxn)
    BY <1>2 DEF CommitTimeouts
  <2>2. "review.timed_out" \in Events /\ NoTxn \in Actors /\ audit[r] \in Seq(Events \X Actors)
    BY DEF Events, Actors
  <2>3. Entered(audit'[r], <<"review.timed_out", NoTxn>>)
    BY <2>1, <2>2, LogHasLast
  <2> QED
    BY <2>1, <2>3 DEF Explained, InLog
<1> QED
  BY <1>1, <1>2 DEF AuditExplainsStatus

\* A handler decides no item.
LEMMA ProxyExplains ==
    ASSUME RowsInv, AuditExplainsStatus, ProxyNext
    PROVE  AuditExplainsStatus'
<1> USE DEF RowsInv, TypeInv, TypeOK, StoreTypeOK
<1>1. ASSUME UNCHANGED <<item, reviewer, audit>>
      PROVE  AuditExplainsStatus'
  BY <1>1, ExplainedStays DEF AuditExplainsStatus
<1>2. ASSUME NEW q \in Requests, NEW status \in RequestStatus, NEW event \in Events,
             Record(q, status, event), item'[q] \in {"absent", "pending"},
             \A r \in Requests \ {q} : item'[r] = item[r]
      PROVE  AuditExplainsStatus'
  <2>1. Explained(q)'
    BY <1>2 DEF Explained
  <2>2. \A r \in Requests \ {q} : UNCHANGED <<item[r], reviewer[r], audit[r]>>
    BY <1>2 DEF Record
  <2> QED
    BY <2>1, <2>2, ExplainedStays DEF AuditExplainsStatus
<1>3. {"blocked", "queued_for_review", "allowed"} \subseteq RequestStatus
      /\ {"request.blocked", "request.queued", "request.allowed", "response.blocked"}
            \subseteq Events
  BY DEF RequestStatus, Events
<1>4. \A q \in Requests : proxy[q] # "done" => item[q] = "absent"
  BY DEF Routed
<1>5. ASSUME NEW q \in Requests, AutoBlocked(q)
      PROVE  AuditExplainsStatus'
  BY <1>2, <1>3, <1>4, <1>5 DEF AutoBlocked
<1>6. ASSUME NEW q \in Requests, EnqueueForReview(q)
      PROVE  AuditExplainsStatus'
  BY <1>2, <1>3, <1>6 DEF EnqueueForReview
<1>7. ASSUME NEW q \in Requests, ResponseAllowed(q)
      PROVE  AuditExplainsStatus'
  BY <1>2, <1>3, <1>4, <1>7 DEF ResponseAllowed
<1>8. ASSUME NEW q \in Requests, ResponseBlocked(q)
      PROVE  AuditExplainsStatus'
  BY <1>2, <1>3, <1>4, <1>8 DEF ResponseBlocked
<1> QED
  BY <1>1, <1>5, <1>6, <1>7, <1>8 DEF ProxyNext, ForwardToUpstream, ProxyFails, rows

\* No step leaves a decided item without its entry.
LEMMA ExplainsStep ==
    ASSUME RowsInv, AuditExplainsStatus, [Next]_vars
    PROVE  AuditExplainsStatus'
<1>1. ASSUME UNCHANGED <<item, reviewer, audit>>
      PROVE  AuditExplainsStatus'
  BY <1>1, ExplainedStays DEF AuditExplainsStatus, RowsInv
<1>2. CASE DeskNext
  BY <1>1, <1>2 DEF DeskNext, LoadIncident, RefuseEdit, SaveIncident, rows
<1>3. CASE ReviewNext
  BY <1>1, <1>3, CommitExplains, TimeoutsExplain
  DEF RowsInv, ReviewNext, LoadItem, CallStep, LoadRequest, LockItem, RefuseDecision,
      ReplayApprovedRequest, ReplayUnsent, FlushDecision, AbortCall, DeadlinePasses, WatcherStep,
      SelectExpired, LoadExpiredRequests, PickExpired, TimeOutRequest, TimeOutItem, AbortSweep,
      RollBackSweep, BreakDeadlock, rows
<1> QED
  BY <1>1, <1>2, <1>3, ProxyExplains DEF Next, vars, rows

\* However many decisions and time-outs overwrite each other, the log holds the
\* event of the status an item ends up with, by the reviewer its row names.
THEOREM DecisionsAreAudited == Spec => []AuditExplainsStatus
<1>1. Init => AuditExplainsStatus
  BY DEF Init, StoreInit, AuditExplainsStatus, Explained
<1> QED
  BY InitTypes, StepKeepsTypes, RowsInit, RowsStep, ExplainsStep, <1>1, PTL DEF Spec, RowsInv

----------------------------------------------------------------------------
(* resolved_at.                                                            *)

TimedInv == RowsInv /\ ResolvedIncidentsAreTimed /\ CopiesTimed

\* What a flush does to resolved_at, given what CopiesTimed says of the copy.
LEMMA FlushedTimed ==
    ASSUME NEW stored \in IncidentRow, NEW seen \in IncidentRow, NEW new \in IncidentRow,
           stored.status \in {"mitigated", "closed"} => stored.resolved,
           seen.resolved => stored.resolved /\ new.resolved,
           new.status \in {"mitigated", "closed"} \ {seen.status} => new.resolved
    PROVE  LET row == Flushed(stored, seen, new) IN
           /\ row.status \in {"mitigated", "closed"} => row.resolved
           /\ stored.resolved => row.resolved
<1>1. stored.resolved \in BOOLEAN /\ seen.resolved \in BOOLEAN /\ new.resolved \in BOOLEAN
  BY DEF IncidentRow
<1> QED
  BY <1>1 DEF Flushed, Dirty

\* What a step does to resolved_at of every row.
RowsTimed ==
    \A r \in Requests :
        /\ incident'[r].status \in {"mitigated", "closed"} => incident'[r].resolved
        /\ incident[r].resolved => incident'[r].resolved

\* A decision that mitigates an incident leaves it a resolved_at.
LEMMA CommitTimed ==
    ASSUME TimedInv, NEW c \in Calls, CommitDecision(c)
    PROVE  RowsTimed
<1> USE DEF TimedInv, RowsInv, TypeInv, TypeOK, StoreTypeOK
<1> DEFINE seen == call[c].incident
<1>1. PICK q \in Requests : q = call[c].req
  BY DEF CommitDecision, Targets
<1>2. seen \in IncidentRow /\ IncidentDecided(c) \in IncidentRow
  BY IncidentDecidedType DEF ReviewTypeOK, CallRecord
<1>3. /\ IncidentDecided(c).resolved = (seen.resolved \/ call[c].decision # "escalate")
      /\ IncidentDecided(c).status = IF call[c].decision = "escalate" THEN seen.status
                                     ELSE "mitigated"
  BY <1>2 DEF IncidentDecided, ResolvedBy, IncidentRow
<1>4. seen.resolved => incident[q].resolved
  BY <1>1 DEF CommitDecision, CopiesTimed
<1>5. incident[q] \in IncidentRow
      /\ (incident[q].status \in {"mitigated", "closed"} => incident[q].resolved)
  BY DEF ResolvedIncidentsAreTimed
<1>6. LET row == Flushed(incident[q], seen, IncidentDecided(c)) IN
      /\ row.status \in {"mitigated", "closed"} => row.resolved
      /\ incident[q].resolved => row.resolved
  BY <1>2, <1>3, <1>4, <1>5, FlushedTimed
<1>7. incident' = [incident EXCEPT ![q] = Flushed(incident[q], seen, IncidentDecided(c))]
  BY <1>1 DEF CommitDecision
<1> HIDE DEF seen
<1> QED
  BY <1>6, <1>7 DEF RowsTimed, ResolvedIncidentsAreTimed

\* So does an edit that mitigates or closes one.
LEMMA SaveTimed ==
    ASSUME TimedInv, NEW u \in Responders, SaveIncident(u)
    PROVE  RowsTimed
<1> USE DEF TimedInv, RowsInv, TypeInv, TypeOK, StoreTypeOK
<1>1. PICK q \in Requests : q = desk[u].req
  BY DEF SaveIncident, Targets
<1>2. desk[u].seen \in IncidentRow /\ desk[u].new \in IncidentRow /\ incident[q] \in IncidentRow
  BY DEF DeskTypeOK, DeskRecord
<1>3. /\ desk[u].seen.resolved => incident[q].resolved /\ desk[u].new.resolved
      /\ desk[u].new.status \in {"mitigated", "closed"} \ {desk[u].seen.status}
            => desk[u].new.resolved
  BY <1>1 DEF SaveIncident, CopiesTimed
<1>4. incident[q].status \in {"mitigated", "closed"} => incident[q].resolved
  BY DEF ResolvedIncidentsAreTimed
<1>5. LET row == Flushed(incident[q], desk[u].seen, desk[u].new) IN
      /\ row.status \in {"mitigated", "closed"} => row.resolved
      /\ incident[q].resolved => row.resolved
  BY <1>2, <1>3, <1>4, FlushedTimed
<1>6. incident' = [incident EXCEPT ![q] = Flushed(incident[q], desk[u].seen, desk[u].new)]
  BY <1>1 DEF SaveIncident
<1> QED
  BY <1>5, <1>6 DEF RowsTimed, ResolvedIncidentsAreTimed

\* No step leaves a resolved incident without one, or takes one away.
LEMMA StepTimed ==
    ASSUME TimedInv, [Next]_vars
    PROVE  RowsTimed
<1>1. CASE UNCHANGED incident
  BY <1>1 DEF RowsTimed, TimedInv, ResolvedIncidentsAreTimed
<1>2. ASSUME NEW q \in Requests, OpenIncident(q), proxy[q] # "done"
      PROVE  RowsTimed
  <2>1. incident[q] = NoIncident /\ ~NoIncident.resolved
        /\ NewIncident.status \notin {"mitigated", "closed"}
    BY <1>2 DEF TimedInv, RowsInv, Routed, NoIncident, NewIncident
  <2> QED
    BY <1>2, <2>1 DEF OpenIncident, RowsTimed, TimedInv, RowsInv, TypeInv, TypeOK, StoreTypeOK,
                      ResolvedIncidentsAreTimed
<1>3. CASE ProxyNext
  BY <1>1, <1>2, <1>3 DEF ProxyNext, AutoBlocked, EnqueueForReview, ForwardToUpstream,
                          ResponseAllowed, ResponseBlocked, ProxyFails, rows
<1>4. CASE DeskNext
  BY <1>1, <1>4, SaveTimed DEF DeskNext, LoadIncident, RefuseEdit, rows
<1>5. CASE ReviewNext
  BY <1>1, <1>5, CommitTimed
  DEF ReviewNext, LoadItem, CallStep, LoadRequest, LockItem, RefuseDecision,
      ReplayApprovedRequest, ReplayUnsent, FlushDecision, AbortCall, DeadlinePasses, WatcherStep,
      SelectExpired, LoadExpiredRequests, PickExpired, TimeOutRequest, TimeOutItem,
      CommitTimeouts, AbortSweep, RollBackSweep, BreakDeadlock, rows
<1> QED
  BY <1>1, <1>3, <1>4, <1>5 DEF Next, vars, rows

\* An edit keeps resolved_at and sets it with a status that needs it.
LEMMA EditedTimed ==
    ASSUME NEW row \in IncidentRow, NEW edit \in Edits, NEW u \in Responders,
           NEW new \in Edited(row, edit, u)
    PROVE  /\ row.resolved => new.resolved
           /\ new.status \in {"mitigated", "closed"} \ {row.status} => new.resolved
<1>1. CASE edit \in IncidentStatus
  <2>1. new = Journal(StatusUpdated(row, edit), "status_change", u)
    BY <1>1 DEF Edited, IncidentStatus
  <2>2. /\ StatusUpdated(row, edit) \in IncidentRow
        /\ StatusUpdated(row, edit).status = edit
        /\ StatusUpdated(row, edit).resolved = (row.resolved \/ edit \in {"mitigated", "closed"})
    BY <1>1 DEF StatusUpdated, IncidentRow
  <2> QED
    BY <2>1, <2>2 DEF Journal, IncidentRow
<1>2. CASE edit = "resolve"
  <2>1. PICK x \in Resolutions : new = Journal([row EXCEPT !.resolution = x, !.status = "mitigated",
                                                         !.resolved = TRUE], "resolved", u)
    BY <1>2 DEF Edited, IncidentStatus
  <2> QED
    BY <2>1 DEF Journal, IncidentRow
<1>3. CASE edit = "assign"
  BY <1>3 DEF Edited, Journal, IncidentRow, IncidentStatus
<1>4. CASE edit = "note"
  BY <1>4 DEF Edited, Journal, IncidentRow, IncidentStatus
<1> QED
  BY <1>1, <1>2, <1>3, <1>4 DEF Edits, IncidentStatus

\* A decide call copies the incident when it flushes, an incident call when it
\* loads; no other step does, and neither is undone.
LEMMA CopySteps ==
    ASSUME TypeInv, [Next]_vars
    PROVE  /\ \A c \in Calls :
                 /\ call'[c].pc = "flushed" => call'[c] = call[c] \/ FlushDecision(c)
                 /\ call[c].pc = "committed" => call'[c] = call[c]
           /\ \A u \in Responders :
                 /\ desk'[u].pc = "editing" =>
                       \/ desk'[u] = desk[u]
                       \/ \E q \in Requests, edit \in Edits : LoadIncident(u, q, edit)
                 /\ desk[u].pc = "saved" => desk'[u] = desk[u]
<1> USE DEF TypeInv, TypeOK, ReviewTypeOK, DeskTypeOK
<1>1. ASSUME NEW c \in Calls
      PROVE  /\ call'[c].pc = "flushed" => call'[c] = call[c] \/ FlushDecision(c)
             /\ call[c].pc = "committed" => call'[c] = call[c]
  <2>1. ASSUME NEW d \in Calls, NEW q \in Requests, NEW decision \in Decisions,
               LoadItem(d, q, decision), call'[c] # call[c]
        PROVE  call'[c].pc = "loading" /\ call[c].pc = "idle"
    BY <2>1 DEF LoadItem, CallRecord
  <2>2. CASE LoadRequest(c)
    BY <2>2 DEF LoadRequest, CallRecord
  <2>3. CASE LockItem(c)
    BY <2>3 DEF LockItem, CallRecord
  <2>4. CASE ReplayApprovedRequest(c)
    BY <2>4 DEF ReplayApprovedRequest, CallRecord
  <2>5. CASE ReplayUnsent(c)
    BY <2>5 DEF ReplayUnsent, CallRecord
  <2>6. CASE FlushDecision(c)
    BY <2>6 DEF FlushDecision, ReadyToFlush
  <2>7. ASSUME NEW pc \in {"committed", "refused", "aborted", "undone"}, Finished(c, pc)
        PROVE  call'[c].pc # "flushed"
    BY <2>7 DEF Finished, IdleCall
  <2>8. CASE CommitDecision(c) \/ RefuseDecision(c) \/ AbortCall(c)
    <3>1. call[c].pc # "committed" /\ call'[c].pc # "flushed"
      BY <2>7, <2>8 DEF CommitDecision, RefuseDecision, AbortCall
    <3> QED
      BY <3>1
  <2>9. ASSUME NEW d \in Calls, CallStep(d) \/ AbortCall(d), call'[c] # call[c]
        PROVE  CallStep(c) \/ AbortCall(c)
    BY <2>9, CallFrame
  <2>10. CASE UNCHANGED call
    BY <2>10
  <2>11. CASE ReviewNext
    BY <2>1, <2>2, <2>3, <2>4, <2>5, <2>6, <2>8, <2>9, <2>10, <2>11
    DEF ReviewNext, CallStep, DeadlinePasses, WatcherStep, SelectExpired, LoadExpiredRequests,
        PickExpired, TimeOutRequest, TimeOutItem, CommitTimeouts, AbortSweep, RollBackSweep,
        BreakDeadlock
  <2> QED
    BY <2>10, <2>11 DEF Next, vars
<1>2. ASSUME NEW u \in Responders
      PROVE  /\ desk'[u].pc = "editing" =>
                   \/ desk'[u] = desk[u]
                   \/ \E q \in Requests, edit \in Edits : LoadIncident(u, q, edit)
             /\ desk[u].pc = "saved" => desk'[u] = desk[u]
  <2>1. ASSUME NEW v \in Responders, NEW q \in Requests, NEW edit \in Edits,
               LoadIncident(v, q, edit), desk'[u] # desk[u]
        PROVE  u = v /\ desk[u].pc = "idle"
    BY <2>1 DEF LoadIncident
  <2>2. ASSUME NEW v \in Responders, NEW q, NEW pc \in {"refused", "saved"},
               desk' = [desk EXCEPT ![v] = [IdleDesk EXCEPT !.pc = pc, !.req = q]],
               desk[v].pc # "saved"
        PROVE  /\ desk'[u] = desk[u] \/ desk'[u].pc # "editing"
               /\ desk[u].pc = "saved" => desk'[u] = desk[u]
    BY <2>2 DEF IdleDesk
  <2>3. CASE DeskNext
    BY <2>1, <2>2, <2>3 DEF DeskNext, RefuseEdit, SaveIncident
  <2> QED
    BY <2>3 DEF Next, vars
<1> QED
  BY <1>1, <1>2

\* The copies of the sessions keep up: resolved_at is never unset.
LEMMA CopiesStep ==
    ASSUME TimedInv, [Next]_vars
    PROVE  CopiesTimed'
<1> USE DEF TimedInv, RowsInv, TypeInv, TypeOK, StoreTypeOK, ReviewTypeOK, DeskTypeOK
<1>1. RowsTimed
  BY StepTimed
<1>2. ASSUME NEW c \in Calls, call'[c].pc = "flushed", call'[c].incident.resolved
      PROVE  incident'[call'[c].req].resolved
  <2>1. CASE call'[c] = call[c]
    BY <1>1, <1>2, <2>1 DEF CopiesTimed, Targets, RowsTimed
  <2>2. CASE FlushDecision(c)
    BY <1>2, <2>2 DEF FlushDecision, CallRecord, rows
  <2> QED
    BY <1>2, <2>1, <2>2, CopySteps
<1>3. ASSUME NEW u \in Responders, desk'[u].pc = "editing"
      PROVE  /\ desk'[u].seen.resolved => incident'[desk'[u].req].resolved
                                          /\ desk'[u].new.resolved
             /\ desk'[u].new.status \in {"mitigated", "closed"} \ {desk'[u].seen.status}
                   => desk'[u].new.resolved
  <2>1. CASE desk'[u] = desk[u]
    BY <1>1, <1>3, <2>1 DEF CopiesTimed, Targets, RowsTimed
  <2>2. ASSUME NEW q \in Requests, NEW edit \in Edits, LoadIncident(u, q, edit)
        PROVE  /\ desk'[u].seen.resolved => incident'[desk'[u].req].resolved
                                            /\ desk'[u].new.resolved
               /\ desk'[u].new.status \in {"mitigated", "closed"} \ {desk'[u].seen.status}
                     => desk'[u].new.resolved
    <3>1. PICK new \in Edited(incident[q], edit, u) :
            desk' = [desk EXCEPT ![u] = [pc |-> "editing", req |-> q,
                                         seen |-> incident[q], new |-> new]]
      BY <2>2 DEF LoadIncident
    <3>2. incident[q] \in IncidentRow
      OBVIOUS
    <3>3. /\ incident[q].resolved => new.resolved
          /\ new.status \in {"mitigated", "closed"} \ {incident[q].status} => new.resolved
      BY <3>2, EditedTimed
    <3> QED
      BY <2>2, <3>1, <3>3 DEF LoadIncident, rows
  <2> QED
    BY <1>3, <2>1, <2>2, CopySteps
<1> QED
  BY <1>2, <1>3 DEF CopiesTimed

\* However the decide calls and the incident routes overwrite each other's columns,
\* an incident that is mitigated or closed has its resolved_at.
THEOREM ResolutionsAreTimed == Spec => []ResolvedIncidentsAreTimed
<1>1. Init => ResolvedIncidentsAreTimed /\ CopiesTimed
  BY DEF Init, StoreInit, ReviewInit, DeskInit, NoIncident, IdleCall, IdleDesk,
         ResolvedIncidentsAreTimed, CopiesTimed
<1>2. TimedInv /\ [Next]_vars => (ResolvedIncidentsAreTimed /\ CopiesTimed)'
  BY StepTimed, CopiesStep DEF RowsTimed, ResolvedIncidentsAreTimed
<1> QED
  BY InitTypes, StepKeepsTypes, RowsInit, RowsStep, <1>1, <1>2, PTL DEF Spec, RowsInv, TimedInv

----------------------------------------------------------------------------
(* The timeline.                                                           *)

Timelines == Seq(Entries \X Actors)

JournalInv == RowsInv /\ TimelinesJournalled

\* A timeline stays well formed while calls and edits go on.
LEMMA JournalStays ==
    ASSUME TypeInv, [Next]_vars, NEW timeline, Journalled(timeline)
    PROVE  Journalled(timeline)'
<1>1. /\ \A c \in Calls : call[c].pc = "committed" => call'[c].pc = "committed"
      /\ \A u \in Responders : desk[u].pc = "saved" => desk'[u].pc = "saved"
  BY CopySteps
<1> QED
  BY <1>1 DEF Journalled

\* One more entry, of an actor that finishes by writing it.
LEMMA JournalGrows ==
    ASSUME TypeInv, [Next]_vars, NEW timeline \in Timelines, Journalled(timeline),
           NEW entry \in (Entries \X Actors),
           \/ \E c \in Calls : /\ entry = <<"review", c>>
                               /\ call[c].pc # "committed"
                               /\ call'[c].pc = "committed"
           \/ \E u \in Responders : /\ entry[1] \notin {"detected", "review"}
                                    /\ entry[2] = u
                                    /\ desk[u].pc # "saved"
                                    /\ desk'[u].pc = "saved"
    PROVE  Journalled(Append(timeline, entry))'
<1> DEFINE more == Append(timeline, entry)
<1>1. /\ Len(more) = Len(timeline) + 1
      /\ Len(timeline) \in Nat
      /\ more[Len(timeline) + 1] = entry
      /\ \A i \in 1..Len(timeline) : more[i] = timeline[i]
  BY DEF Timelines
<1>2. Journalled(timeline)'
  BY JournalStays
<1>3. \A i \in 1..Len(timeline) : timeline[i] # entry
  BY DEF Journalled
<1>4. entry[1] # "detected"
  OBVIOUS
<1>5. \/ \E c \in Calls : entry = <<"review", c>> /\ call'[c].pc = "committed"
      \/ \E u \in Responders : /\ entry[1] \notin {"detected", "review"}
                               /\ entry[2] = u
                               /\ desk'[u].pc = "saved"
  OBVIOUS
<1> HIDE DEF more
<1>6. \A i \in 1..Len(more) : i \in 1..Len(timeline) \/ i = Len(timeline) + 1
  BY <1>1
<1>7. Len(more) > 0 /\ more[1] = <<"detected", NoTxn>>
  BY <1>1, <1>2 DEF Journalled
<1>8. ASSUME NEW i \in 1..Len(more)
      PROVE  \/ more[i][1] = "detected" /\ i = 1
             \/ \E c \in Calls : more[i] = <<"review", c>> /\ call'[c].pc = "committed"
             \/ \E u \in Responders : /\ more[i][1] \notin {"detected", "review"}
                                      /\ more[i][2] = u
                                      /\ desk'[u].pc = "saved"
  <2>1. CASE i \in 1..Len(timeline)
    BY <1>1, <1>2, <2>1 DEF Journalled
  <2>2. CASE i = Len(timeline) + 1
    BY <1>1, <1>5, <2>2
  <2> QED
    BY <1>6, <2>1, <2>2
<1>9. \A i, j \in 1..Len(more) : more[i] = more[j] => i = j
  BY <1>1, <1>2, <1>3, <1>6 DEF Journalled
<1>10. Journalled(more)'
  BY <1>7, <1>8, <1>9 DEF Journalled, more
<1> QED
  BY <1>10 DEF more

\* A flush writes the session's timeline when it differs from the one it loaded.
LEMMA FlushedTimeline ==
    ASSUME NEW stored \in IncidentRow, NEW seen \in IncidentRow, NEW new \in IncidentRow,
           NEW entry \in (Entries \X Actors), new.timeline = Append(seen.timeline, entry)
    PROVE  Flushed(stored, seen, new).timeline = new.timeline
<1>1. seen.timeline \in Timelines
  BY DEF IncidentRow, Timelines
<1>2. Len(new.timeline) = Len(seen.timeline) + 1 /\ Len(seen.timeline) \in Nat
  BY <1>1 DEF Timelines
<1>3. new.timeline # seen.timeline
  BY <1>2
<1> QED
  BY <1>3 DEF Flushed, Dirty

RowsJournalled ==
    \A r \in Requests : incident[r].status # "absent" => Journalled(incident[r].timeline)

\* A row a step leaves alone stays journalled.
LEMMA RowJournalStays ==
    ASSUME TypeInv, [Next]_vars, RowsJournalled, NEW r \in Requests,
           incident'[r] = incident[r], incident'[r].status # "absent"
    PROVE  Journalled(incident[r].timeline)'
<1>1. PICK timeline : timeline = incident[r].timeline
  OBVIOUS
<1>2. Journalled(timeline)
  BY <1>1 DEF RowsJournalled
<1>3. Journalled(timeline)'
  BY <1>2, JournalStays
<1>4. timeline = incident'[r].timeline
  BY <1>1
<1> QED
  BY <1>3, <1>4 DEF Journalled

\* A decision's timeline, flushed over whatever is there, is well formed.
LEMMA CommitJournalled ==
    ASSUME JournalInv, [Next]_vars, NEW c \in Calls, CommitDecision(c)
    PROVE  RowsJournalled'
<1> USE DEF JournalInv, RowsInv, TypeInv, TypeOK, StoreTypeOK
<1>1. PICK q \in Requests : q = call[c].req
  BY DEF CommitDecision, Targets
<1>2. PICK seen \in IncidentRow : seen = call[c].incident
  BY DEF ReviewTypeOK, CallRecord
<1>3. PICK new \in IncidentRow : new = IncidentDecided(c)
  BY IncidentDecidedType DEF ReviewTypeOK, CallRecord
<1>4. PICK entry \in (Entries \X Actors) : entry = <<"review", c>>
  BY DEF Entries, Actors
<1>5. new.timeline = Append(seen.timeline, entry)
  BY <1>2, <1>3, <1>4 DEF IncidentDecided, Reviewed, IncidentRow
<1>6. incident' = [incident EXCEPT ![q] = Flushed(incident[q], seen, new)]
  BY <1>1, <1>2, <1>3 DEF CommitDecision
<1>7. PICK timeline \in Timelines : timeline = seen.timeline
  BY DEF IncidentRow, Timelines
<1>8. Journalled(timeline)
  BY <1>2, <1>7 DEF CommitDecision, TimelinesJournalled
<1>9. call[c].pc # "committed" /\ call'[c].pc = "committed"
  BY DEF CommitDecision, Finished, IdleCall, ReviewTypeOK, CallRecord
<1>10. Journalled(Append(timeline, entry))'
  BY <1>4, <1>8, <1>9, JournalGrows
<1>11. incident'[q].timeline = Append(timeline, entry)
  BY <1>5, <1>6, <1>7, FlushedTimeline
<1>12. Journalled(incident[q].timeline)'
  BY <1>10, <1>11 DEF Journalled
<1>13. \A r \in Requests \ {q} : incident'[r] = incident[r]
  BY <1>6
<1> QED
  BY <1>12, <1>13, RowJournalStays DEF RowsJournalled, TimelinesJournalled

\* So is an edit's.
LEMMA SaveJournalled ==
    ASSUME JournalInv, [Next]_vars, NEW u \in Responders, SaveIncident(u)
    PROVE  RowsJournalled'
<1> USE DEF JournalInv, RowsInv, TypeInv, TypeOK, StoreTypeOK
<1>1. PICK q \in Requests : q = desk[u].req
  BY DEF SaveIncident, Targets
<1>2. PICK seen \in IncidentRow, new \in IncidentRow : seen = desk[u].seen /\ new = desk[u].new
  BY DEF DeskTypeOK, DeskRecord
<1>3. PICK name \in Entries \ {"detected", "review"} :
        desk[u].new.timeline = Append(desk[u].seen.timeline, <<name, u>>)
  BY DEF SaveIncident, TimelinesJournalled
<1>4. PICK entry \in (Entries \X Actors) : entry = <<name, u>>
  BY DEF Actors
<1>5. new.timeline = Append(seen.timeline, entry)
  BY <1>2, <1>3, <1>4
<1>6. incident' = [incident EXCEPT ![q] = Flushed(incident[q], seen, new)]
  BY <1>1, <1>2 DEF SaveIncident
<1>7. PICK timeline \in Timelines : timeline = seen.timeline
  BY DEF IncidentRow, Timelines
<1>8. Journalled(timeline)
  BY <1>2, <1>7 DEF SaveIncident, TimelinesJournalled
<1>9. desk[u].pc # "saved" /\ desk'[u].pc = "saved"
  BY DEF SaveIncident, IdleDesk, DeskTypeOK, DeskRecord
<1>10. Journalled(Append(timeline, entry))'
  BY <1>3, <1>4, <1>8, <1>9, JournalGrows
<1>11. incident'[q].timeline = Append(timeline, entry)
  BY <1>5, <1>6, <1>7, FlushedTimeline
<1>12. Journalled(incident[q].timeline)'
  BY <1>10, <1>11 DEF Journalled
<1>13. \A r \in Requests \ {q} : incident'[r] = incident[r]
  BY <1>6
<1> QED
  BY <1>12, <1>13, RowJournalStays DEF RowsJournalled, TimelinesJournalled

\* So is the timeline of a new incident.
LEMMA OpenJournalled ==
    ASSUME JournalInv, [Next]_vars, NEW q \in Requests, OpenIncident(q)
    PROVE  RowsJournalled'
<1>1. incident' = [incident EXCEPT ![q] = NewIncident] /\ incident'[q] = NewIncident
  BY DEF OpenIncident, JournalInv, RowsInv, TypeInv, TypeOK, StoreTypeOK
<1>2. incident'[q].timeline = << <<"detected", NoTxn>> >>
  BY <1>1 DEF NewIncident, NoIncident
<1>3. Journalled(incident[q].timeline)'
  BY <1>2 DEF Journalled
<1>4. \A r \in Requests \ {q} : incident'[r] = incident[r]
  BY <1>1 DEF JournalInv, RowsInv, TypeInv, TypeOK, StoreTypeOK
<1> QED
  BY <1>3, <1>4, RowJournalStays DEF RowsJournalled, TimelinesJournalled, JournalInv, RowsInv

\* Every step leaves the rows with well-formed timelines.
LEMMA RowsStepJournalled ==
    ASSUME JournalInv, [Next]_vars
    PROVE  RowsJournalled'
<1>1. CASE UNCHANGED incident
  BY <1>1, RowJournalStays DEF RowsJournalled, TimelinesJournalled, JournalInv, RowsInv
<1>2. CASE ProxyNext
  BY <1>1, <1>2, OpenJournalled DEF ProxyNext, AutoBlocked, EnqueueForReview, ForwardToUpstream,
                                    ResponseAllowed, ResponseBlocked, ProxyFails, rows
<1>3. CASE DeskNext
  BY <1>1, <1>3, SaveJournalled DEF DeskNext, LoadIncident, RefuseEdit, rows
<1>4. CASE ReviewNext
  BY <1>1, <1>4, CommitJournalled
  DEF ReviewNext, LoadItem, CallStep, LoadRequest, LockItem, RefuseDecision,
      ReplayApprovedRequest, ReplayUnsent, FlushDecision, AbortCall, DeadlinePasses, WatcherStep,
      SelectExpired, LoadExpiredRequests, PickExpired, TimeOutRequest, TimeOutItem,
      CommitTimeouts, AbortSweep, RollBackSweep, BreakDeadlock, rows
<1> QED
  BY <1>1, <1>2, <1>3, <1>4 DEF Next, vars, rows

\* Every accepted edit enters one entry of its own.
LEMMA EditedJournal ==
    ASSUME NEW row \in IncidentRow, NEW edit \in Edits, NEW u \in Responders,
           NEW new \in Edited(row, edit, u)
    PROVE  \E name \in Entries \ {"detected", "review"} :
              new.timeline = Append(row.timeline, <<name, u>>)
<1>1. {"status_change", "resolved", "assigned", "note"} \subseteq Entries \ {"detected", "review"}
  BY DEF Entries
<1>2. ASSUME NEW x \in IncidentRow, NEW name, x.timeline = row.timeline
      PROVE  Journal(x, name, u).timeline = Append(row.timeline, <<name, u>>)
  BY <1>2 DEF Journal, IncidentRow
<1>3. CASE edit \in IncidentStatus
  <2>1. new = Journal(StatusUpdated(row, edit), "status_change", u)
    BY <1>3 DEF Edited, IncidentStatus
  <2>2. StatusUpdated(row, edit) \in IncidentRow
        /\ StatusUpdated(row, edit).timeline = row.timeline
    BY <1>3 DEF StatusUpdated, IncidentRow
  <2> QED
    BY <1>1, <1>2, <2>1, <2>2
<1>4. CASE edit = "resolve"
  <2> DEFINE y(x) == [row EXCEPT !.resolution = x, !.status = "mitigated", !.resolved = TRUE]
  <2>1. PICK x \in Resolutions : new = Journal(y(x), "resolved", u)
    BY <1>4 DEF Edited, IncidentStatus
  <2>2. y(x) \in IncidentRow /\ y(x).timeline = row.timeline
    BY DEF IncidentRow, IncidentStatus
  <2> QED
    BY <1>1, <1>2, <2>1, <2>2
<1>5. CASE edit \in {"assign", "note"}
  BY <1>1, <1>2, <1>5 DEF Edited, IncidentStatus
<1> QED
  BY <1>3, <1>4, <1>5 DEF Edits, IncidentStatus

\* And the sessions with well-formed copies.
LEMMA CopiesJournalled ==
    ASSUME JournalInv, [Next]_vars
    PROVE  /\ (\A c \in Calls : call[c].pc = "flushed" => Journalled(call[c].incident.timeline))'
           /\ (\A u \in Responders : desk[u].pc = "editing" =>
                 /\ Journalled(desk[u].seen.timeline)
                 /\ \E entry \in Entries \ {"detected", "review"} :
                       desk[u].new.timeline = Append(desk[u].seen.timeline, <<entry, u>>))'
<1> USE DEF JournalInv, RowsInv, TypeInv, TypeOK, StoreTypeOK, ReviewTypeOK, DeskTypeOK
<1>1. ASSUME NEW c \in Calls, call'[c].pc = "flushed"
      PROVE  Journalled(call[c].incident.timeline)'
  <2>1. PICK timeline : timeline = call'[c].incident.timeline
    OBVIOUS
  <2>2. CASE call'[c] = call[c]
    <3>1. Journalled(timeline)
      BY <1>1, <2>1, <2>2 DEF TimelinesJournalled
    <3>2. Journalled(timeline)'
      BY <3>1, JournalStays
    <3> QED
      BY <2>1, <3>2 DEF Journalled
  <2>3. CASE FlushDecision(c)
    <3>1. call[c].req \in Requests /\ incident[call[c].req].status # "absent"
      BY <2>3 DEF FlushDecision, ReadyToFlush, Targets, OnRows, Routed
    <3>2. call'[c].incident = incident[call[c].req]
      BY <2>3 DEF FlushDecision, CallRecord
    <3>3. Journalled(timeline)
      BY <2>1, <3>1, <3>2 DEF TimelinesJournalled
    <3>4. Journalled(timeline)'
      BY <3>3, JournalStays
    <3> QED
      BY <2>1, <3>4 DEF Journalled
  <2> QED
    BY <1>1, <2>2, <2>3, CopySteps
<1>2. ASSUME NEW u \in Responders, desk'[u].pc = "editing"
      PROVE  /\ Journalled(desk[u].seen.timeline)'
             /\ \E entry \in Entries \ {"detected", "review"} :
                   desk'[u].new.timeline = Append(desk'[u].seen.timeline, <<entry, u>>)
  <2>1. PICK timeline : timeline = desk'[u].seen.timeline
    OBVIOUS
  <2>2. CASE desk'[u] = desk[u]
    <3>1. Journalled(timeline) /\ \E entry \in Entries \ {"detected", "review"} :
                                     desk[u].new.timeline = Append(timeline, <<entry, u>>)
      BY <1>2, <2>1, <2>2 DEF TimelinesJournalled
    <3>2. Journalled(timeline)'
      BY <3>1, JournalStays
    <3>3. Journalled(desk[u].seen.timeline)'
      BY <2>1, <3>2 DEF Journalled
    <3> QED
      BY <2>1, <2>2, <3>1, <3>3
  <2>3. ASSUME NEW q \in Requests, NEW edit \in Edits, LoadIncident(u, q, edit)
        PROVE  /\ Journalled(desk[u].seen.timeline)'
               /\ \E entry \in Entries \ {"detected", "review"} :
                     desk'[u].new.timeline = Append(desk'[u].seen.timeline, <<entry, u>>)
    <3>1. PICK new \in Edited(incident[q], edit, u) :
            desk' = [desk EXCEPT ![u] = [pc |-> "editing", req |-> q,
                                         seen |-> incident[q], new |-> new]]
      BY <2>3 DEF LoadIncident
    <3>2. desk'[u].seen = incident[q] /\ desk'[u].new = new
      BY <3>1
    <3>3. Journalled(timeline)
      BY <2>1, <2>3, <3>2 DEF LoadIncident, TimelinesJournalled
    <3>4. Journalled(timeline)'
      BY <3>3, JournalStays
    <3>5. Journalled(desk[u].seen.timeline)'
      BY <2>1, <3>4 DEF Journalled
    <3>6. incident[q] \in IncidentRow
      OBVIOUS
    <3>7. \E name \in Entries \ {"detected", "review"} :
             new.timeline = Append(incident[q].timeline, <<name, u>>)
      BY <3>6, EditedJournal
    <3> QED
      BY <3>2, <3>5, <3>7
  <2> QED
    BY <1>2, <2>2, <2>3, CopySteps
<1> QED
  BY <1>1, <1>2

\* No stale copy costs a timeline the entry of the detection, and no transaction
\* enters itself twice, for any number of decide calls and incident calls.
THEOREM TimelinesKeepDetection == Spec => []TimelineKeepsDetection
<1>1. Init => TimelinesJournalled
  BY DEF Init, StoreInit, ReviewInit, DeskInit, NoIncident, IdleCall, IdleDesk,
         TimelinesJournalled
<1>2. JournalInv /\ [Next]_vars => TimelinesJournalled'
  BY RowsStepJournalled, CopiesJournalled DEF RowsJournalled, TimelinesJournalled
<1>3. JournalInv => TimelineKeepsDetection
  BY DEF JournalInv, TimelinesJournalled, Journalled, TimelineKeepsDetection
<1> QED
  BY InitTypes, StepKeepsTypes, RowsInit, RowsStep, <1>1, <1>2, <1>3, PTL
  DEF Spec, RowsInv, JournalInv

----------------------------------------------------------------------------
(* Items and requests.                                                     *)

Reviews == {"review.approved", "review.rejected", "review.escalated", "review.timed_out"}

DecidedIn(entries) == {i \in 1..Len(entries) : entries[i][1] \in Reviews}

Logs == Seq(Events \X Actors)

\* The entries of reviews are the decisions of a log; one more entry is one more of them
\* or none.
LEMMA DecisionsAreCounted ==
    ASSUME NEW log \in Logs
    PROVE  /\ IsFiniteSet(DecidedIn(log)) /\ Cardinality(DecidedIn(log)) \in Nat
           /\ \A event \in Events, actor \in Actors :
                 Cardinality(DecidedIn(Logged(log, event, actor))) =
                    Cardinality(DecidedIn(log)) + IF event \in Reviews THEN 1 ELSE 0
<1>1. Len(log) \in Nat
  BY DEF Logs
<1>2. IsFiniteSet(DecidedIn(log)) /\ Cardinality(DecidedIn(log)) \in Nat
  <2>1. IsFiniteSet(1..Len(log))
    BY <1>1, FS_Interval
  <2>2. DecidedIn(log) \in SUBSET (1..Len(log))
    BY DEF DecidedIn
  <2> QED
    BY <2>1, <2>2, FS_Subset, FS_CardinalityType
<1>3. ASSUME NEW event \in Events, NEW actor \in Actors
      PROVE  Cardinality(DecidedIn(Logged(log, event, actor))) =
                Cardinality(DecidedIn(log)) + IF event \in Reviews THEN 1 ELSE 0
  <2> DEFINE more == Logged(log, event, actor)
             n == Len(log) + 1
  <2>1. Len(more) = n /\ more[n][1] = event /\ \A i \in 1..Len(log) : more[i] = log[i]
    BY DEF Logs, Logged
  <2>2. 1..n = (1..Len(log)) \cup {n} /\ n \notin 1..Len(log)
    BY <1>1
  <2> HIDE DEF more, n
  <2>3. DecidedIn(more) = DecidedIn(log) \cup {i \in {n} : event \in Reviews}
    BY <2>1, <2>2 DEF DecidedIn
  <2>4. n \notin DecidedIn(log)
    BY <2>2 DEF DecidedIn
  <2>5. CASE event \in Reviews
    <3>1. DecidedIn(more) = DecidedIn(log) \cup {n}
      BY <2>3, <2>5
    <3>2. Cardinality(DecidedIn(log) \cup {n}) = Cardinality(DecidedIn(log)) + 1
      BY <1>2, <2>4, FS_AddElement
    <3> QED
      BY <2>5, <3>1, <3>2 DEF more
  <2>6. CASE event \notin Reviews
    <3>1. DecidedIn(more) = DecidedIn(log)
      BY <2>3, <2>6
    <3> QED
      BY <1>2, <2>6, <3>1 DEF more
  <2> QED
    BY <2>5, <2>6
<1> QED
  BY <1>2, <1>3

\* The events that are no review's are a handler's.
LEMMA DecidedIs ==
    ASSUME NEW log \in Logs
    PROVE  DecidedIn(log) = {i \in 1..Len(log) : log[i][1] \notin
              {"request.queued", "request.blocked", "request.allowed", "response.blocked"}}
<1>1. \A i \in 1..Len(log) : log[i][1] \in Events
  BY DEF Logs
<1>2. \A event \in Events :
        event \notin {"request.queued", "request.blocked", "request.allowed", "response.blocked"}
           <=> event \in Reviews
  BY DEF Events, Reviews
<1> QED
  BY <1>1, <1>2 DEF DecidedIn

Count(r) == Cardinality(Decided(r))

\* The statuses that a decision and a time-out give the item and its request.
Outcomes == {<<"approved", "allowed">>, <<"approved", "blocked">>, <<"rejected", "blocked">>,
             <<"escalated", "escalated">>, <<"timed_out", "blocked">>}

\* What a step does to the rows of r: nothing, what a handler commits, or a decision,
\* whose session had loaded a recent status of the request.
Untouched(r) == UNCHANGED <<item[r], request[r], Count(r)>>

Handled(r) ==
    /\ item[r] = "absent" /\ Count(r)' = 0
    /\ \/ item'[r] = "absent" /\ request'[r] \in {"allowed", "blocked"}
       \/ item'[r] = "pending" /\ request'[r] = "queued_for_review"

DecidedNow(r) ==
    /\ item[r] # "absent" /\ Count(r)' = Count(r) + 1
    /\ \E outcome \in Outcomes, seen \in RequestStatus :
          /\ Recent(r, seen)
          /\ item'[r] = outcome[1]
          /\ request'[r] = Dirty(request[r], seen, outcome[2])

Moved(r) == Untouched(r) \/ Handled(r) \/ DecidedNow(r)

AgreeInv == RowsInv /\ ItemRequestAgree /\ StatusesRecent

LEMMA CountIs ==
    ASSUME TypeInv, TypeInv', NEW r \in Requests
    PROVE  /\ audit[r] \in Logs /\ Count(r) = Cardinality(DecidedIn(audit[r])) /\ Count(r) \in Nat
           /\ audit'[r] \in Logs /\ Count(r)' = Cardinality(DecidedIn(audit'[r])) /\ Count(r)' \in Nat
<1>1. audit[r] \in Logs /\ audit'[r] \in Logs
  BY DEF TypeInv, TypeOK, StoreTypeOK, Logs
<1>2. /\ Decided(r) = DecidedIn(audit[r])
      /\ Decided(r)' = DecidedIn(audit'[r])
  BY <1>1, DecidedIs DEF Decided
<1> QED
  BY <1>1, <1>2, DecisionsAreCounted DEF Count

\* Rows that move so agree as before: a decision that leaves the request's row alone
\* found its own status there, or is the third at least.
LEMMA MovedAgree ==
    ASSUME AgreeInv, TypeInv', \A r \in Requests : Moved(r)
    PROVE  /\ ItemRequestAgree'
           /\ \A r \in Requests : item'[r] \in {"absent", "pending"} <=> Cardinality(Decided(r))' = 0
           /\ \A r \in Requests, seen \in RequestStatus : Recent(r, seen) => Recent(r, seen)'
<1> SUFFICES ASSUME NEW r \in Requests
             PROVE  /\ Count(r)' <= 2 =>
                          CASE item'[r] = "pending" -> request'[r] = "queued_for_review"
                            [] item'[r] = "approved" -> request'[r] \in {"allowed", "blocked"}
                            [] item'[r] \in {"rejected", "timed_out"} -> request'[r] = "blocked"
                            [] item'[r] = "escalated" -> request'[r] = "escalated"
                            [] OTHER -> request'[r] \in {"absent", "allowed", "blocked"}
                    /\ item'[r] \in {"absent", "pending"} <=> Count(r)' = 0
                    /\ \A seen \in RequestStatus : Recent(r, seen) => Recent(r, seen)'
  BY DEF ItemRequestAgree, Count
<1>1. Count(r) \in Nat /\ Count(r)' \in Nat
  BY CountIs DEF AgreeInv, RowsInv
<1>2. /\ Count(r) <= 2 =>
            CASE item[r] = "pending" -> request[r] = "queued_for_review"
              [] item[r] = "approved" -> request[r] \in {"allowed", "blocked"}
              [] item[r] \in {"rejected", "timed_out"} -> request[r] = "blocked"
              [] item[r] = "escalated" -> request[r] = "escalated"
              [] OTHER -> request[r] \in {"absent", "allowed", "blocked"}
      /\ item[r] \in {"absent", "pending"} <=> Count(r) = 0
  BY DEF AgreeInv, ItemRequestAgree, StatusesRecent, Count
<1>3. ASSUME NEW seen
      PROVE  /\ Recent(r, seen) <=> \/ seen = "queued_for_review"
                                    \/ Count(r) >= 1 /\ (Count(r) = 1 => request[r] = seen)
             /\ Recent(r, seen)' <=> \/ seen = "queued_for_review"
                                     \/ Count(r)' >= 1 /\ (Count(r)' = 1 => request'[r] = seen)
  BY DEF Recent, Count
<1>4. CASE Untouched(r)
  BY <1>2, <1>3, <1>4 DEF Untouched
<1>5. CASE Handled(r)
  BY <1>1, <1>2, <1>3, <1>5 DEF Handled
<1>6. CASE DecidedNow(r)
  <2>1. PICK outcome \in Outcomes, seen \in RequestStatus :
          /\ Recent(r, seen)
          /\ item'[r] = outcome[1]
          /\ request'[r] = Dirty(request[r], seen, outcome[2])
    BY <1>6 DEF DecidedNow
  <2>2. Count(r)' = Count(r) + 1
    BY <1>6 DEF DecidedNow
  <2>3. outcome[2] # "queued_for_review" /\ outcome[1] \notin {"absent", "pending"}
    BY DEF Outcomes
  <2>4. Count(r)' <= 2 => request'[r] = outcome[2]
    BY <1>1, <1>3, <2>1, <2>2, <2>3 DEF Dirty
  <2>5. \A s \in RequestStatus : Recent(r, s) => Recent(r, s)'
    BY <1>1, <1>3, <2>2
  <2> QED
    BY <1>1, <2>1, <2>2, <2>3, <2>4, <2>5 DEF Outcomes
<1> QED
  BY <1>4, <1>5, <1>6 DEF Moved

\* The entry that a step appends to the log of r counts if it is a review's.
LEMMA CountMoves ==
    ASSUME TypeInv, TypeInv', NEW r \in Requests
    PROVE  /\ audit'[r] = audit[r] => Count(r)' = Count(r)
           /\ \A event \in Events, actor \in Actors : audit'[r] = Logged(audit[r], event, actor) =>
                 Count(r)' = Count(r) + IF event \in Reviews THEN 1 ELSE 0
  BY CountIs, DecisionsAreCounted

\* A commit decides its request and no other.
LEMMA CommitMoves ==
    ASSUME AgreeInv, TypeInv', NEW c \in Calls, CommitDecision(c)
    PROVE  \A r \in Requests : Moved(r)
<1> USE DEF AgreeInv, RowsInv, TypeInv, TypeOK, StoreTypeOK, ReviewTypeOK
<1>1. call[c].pc = "flushed" /\ call[c] \in CallRecord
  BY DEF CommitDecision
<1>2. PICK q \in Requests : q = call[c].req
  BY <1>1 DEF Targets
<1>3. ASSUME NEW r \in Requests, r # q
      PROVE  Moved(r)
  <2>1. UNCHANGED <<item[r], request[r], audit[r]>>
    BY <1>2, <1>3 DEF CommitDecision
  <2> QED
    BY <2>1, CountMoves DEF Moved, Untouched
<1>4. Moved(q)
  <2>1. PICK d : d = call[c].decision
    OBVIOUS
  <2>2. item[q] # "absent"
    BY <1>1, <1>2 DEF OnRows
  <2>3. EventOf(d) \in Events /\ EventOf(d) \in Reviews /\ c \in Actors
    BY DEF EventOf, Events, Reviews, Actors
  <2>4. audit'[q] = Logged(audit[q], EventOf(d), c)
    BY <1>2, <2>1 DEF CommitDecision, AuditDecided
  <2>5. Count(q)' = Count(q) + 1
    BY <2>3, <2>4, CountMoves
  <2>6. item'[q] = ItemStatusOf(d) /\ request'[q] = Dirty(request[q], call[c].request, call[c].verdict)
    BY <1>2, <2>1 DEF CommitDecision, RequestDecided
  <2>7. Recent(q, call[c].request) /\ call[c].request \in RequestStatus
    BY <1>1, <1>2 DEF StatusesRecent, CallRecord
  <2>8. <<ItemStatusOf(d), call[c].verdict>> \in Outcomes
    <3>1. call[c].verdict = VerdictOf(d) \/ (d = "approve" /\ call[c].verdict = "blocked")
      BY <1>1, <2>1 DEF StatusesRecent
    <3> QED
      BY <3>1 DEF ItemStatusOf, VerdictOf, Outcomes
  <2> QED
    BY <2>2, <2>5, <2>6, <2>7, <2>8 DEF Moved, DecidedNow
<1> QED
  BY <1>3, <1>4

\* A sweep times out what it flushed.
LEMMA TimeoutsMove ==
    ASSUME AgreeInv, TypeInv', NEW w \in Watchers, CommitTimeouts(w)
    PROVE  \A r \in Requests : Moved(r)
<1> USE DEF AgreeInv, RowsInv, TypeInv, TypeOK, StoreTypeOK, ReviewTypeOK
<1>1. watcher[w].pc = "working" /\ watcher[w] \in WatcherRecord
  BY DEF CommitTimeouts
<1>2. ASSUME NEW r \in Requests, r \notin watcher[w].done
      PROVE  Moved(r)
  <2>1. UNCHANGED <<item[r], request[r], audit[r]>>
    BY <1>2 DEF CommitTimeouts
  <2> QED
    BY <2>1, CountMoves DEF Moved, Untouched
<1>3. ASSUME NEW r \in Requests, r \in watcher[w].done
      PROVE  Moved(r)
  <2>1. item[r] # "absent"
    BY <1>3 DEF OnRows
  <2>2. "review.timed_out" \in Events /\ "review.timed_out" \in Reviews /\ NoTxn \in Actors
    BY DEF Events, Reviews, Actors
  <2>3. audit'[r] = Logged(audit[r], "review.timed_out", NoTxn)
    BY <1>3 DEF CommitTimeouts
  <2>4. Count(r)' = Count(r) + 1
    BY <2>2, <2>3, CountMoves
  <2>5. item'[r] = "timed_out" /\ request'[r] = Dirty(request[r], watcher[w].seen[r], "blocked")
    BY <1>3 DEF CommitTimeouts
  <2>6. Recent(r, watcher[w].seen[r]) /\ watcher[w].seen[r] \in RequestStatus
    BY <1>1, <1>3 DEF StatusesRecent, WatcherRecord
  <2>7. <<"timed_out", "blocked">> \in Outcomes
    BY DEF Outcomes
  <2> QED
    BY <2>1, <2>4, <2>5, <2>6, <2>7 DEF Moved, DecidedNow
<1> QED
  BY <1>2, <1>3

\* A handler finds no row of its request.
LEMMA HandlersMove ==
    ASSUME AgreeInv, TypeInv', ProxyNext
    PROVE  \A r \in Requests : Moved(r)
<1> USE DEF AgreeInv, RowsInv, TypeInv, TypeOK, StoreTypeOK
<1>1. ASSUME UNCHANGED <<item, request, audit>>
      PROVE  \A r \in Requests : Moved(r)
  BY <1>1, CountMoves DEF Moved, Untouched
<1>2. ASSUME NEW q \in Requests, proxy[q] # "done", NEW status, NEW event \in Events \ Reviews,
             Record(q, status, event), \A r \in Requests \ {q} : item'[r] = item[r],
             \/ item'[q] = item[q] /\ status \in {"allowed", "blocked"}
             \/ item'[q] = "pending" /\ status = "queued_for_review"
      PROVE  \A r \in Requests : Moved(r)
  <2>1. \A r \in Requests \ {q} : UNCHANGED <<item[r], request[r], audit[r]>>
    BY <1>2 DEF Record
  <2>2. item[q] = "absent" /\ Count(q) = 0
    BY <1>2 DEF Routed, StatusesRecent, Count
  <2>3. audit'[q] = Logged(audit[q], event, NoTxn) /\ NoTxn \in Actors /\ request'[q] = status
    BY <1>2 DEF Record, Actors
  <2>4. Count(q)' = 0
    BY <1>2, <2>2, <2>3, CountMoves
  <2>5. Moved(q)
    BY <1>2, <2>2, <2>3, <2>4 DEF Moved, Handled
  <2> QED
    BY <2>1, <2>5, CountMoves DEF Moved, Untouched
<1>3. {"request.blocked", "request.queued", "request.allowed", "response.blocked"}
         \subseteq Events \ Reviews
  BY DEF Events, Reviews
<1>4. ASSUME NEW q \in Requests, AutoBlocked(q)
      PROVE  \A r \in Requests : Moved(r)
  BY <1>2, <1>3, <1>4 DEF AutoBlocked
<1>5. ASSUME NEW q \in Requests, EnqueueForReview(q)
      PROVE  \A r \in Requests : Moved(r)
  BY <1>2, <1>3, <1>5 DEF EnqueueForReview
<1>6. ASSUME NEW q \in Requests, ResponseAllowed(q)
      PROVE  \A r \in Requests : Moved(r)
  BY <1>2, <1>3, <1>6 DEF ResponseAllowed
<1>7. ASSUME NEW q \in Requests, ResponseBlocked(q)
      PROVE  \A r \in Requests : Moved(r)
  BY <1>2, <1>3, <1>7 DEF ResponseBlocked
<1> QED
  BY <1>1, <1>4, <1>5, <1>6, <1>7 DEF ProxyNext, ForwardToUpstream, ProxyFails, rows

\* So each step decides, handles or leaves alone each request.
LEMMA NextMoves ==
    ASSUME AgreeInv, TypeInv', [Next]_vars
    PROVE  \A r \in Requests : Moved(r)
<1>1. ASSUME UNCHANGED <<item, request, audit>>
      PROVE  \A r \in Requests : Moved(r)
  BY <1>1, CountMoves DEF Moved, Untouched, AgreeInv, RowsInv
<1>2. CASE DeskNext
  BY <1>1, <1>2 DEF DeskNext, LoadIncident, RefuseEdit, SaveIncident, rows
<1>3. CASE ReviewNext
  BY <1>1, <1>3, CommitMoves, TimeoutsMove
  DEF ReviewNext, LoadItem, CallStep, LoadRequest, LockItem, RefuseDecision,
      ReplayApprovedRequest, ReplayUnsent, FlushDecision, AbortCall, DeadlinePasses, WatcherStep,
      SelectExpired, LoadExpiredRequests, PickExpired, TimeOutRequest, TimeOutItem, AbortSweep,
      RollBackSweep, BreakDeadlock, rows
<1> QED
  BY <1>1, <1>2, <1>3, HandlersMove DEF Next, vars, rows

\* A status that is loaded is recent.
LEMMA LoadedIsRecent ==
    ASSUME AgreeInv, TypeInv', NEW r \in Requests, item[r] # "absent"
    PROVE  Recent(r, request[r]) /\ request[r] \in RequestStatus
<1>1. Count(r) \in Nat /\ request[r] \in RequestStatus
  BY CountIs DEF AgreeInv, RowsInv, TypeInv, TypeOK, StoreTypeOK
<1>2. CASE Count(r) = 0
  <2>1. item[r] = "pending" /\ request[r] = "queued_for_review"
    BY <1>2 DEF AgreeInv, StatusesRecent, ItemRequestAgree, Count
  <2> QED
    BY <1>1, <2>1 DEF Recent
<1>3. CASE Count(r) # 0
  BY <1>1, <1>3 DEF Recent, Count
<1> QED
  BY <1>2, <1>3

CallRecent(c) ==
    /\ call[c].pc \in {"loaded", "locked", "replayed", "flushed"} =>
          Recent(call[c].req, call[c].request)
    /\ call[c].pc \in {"locked", "replayed", "flushed"} =>
          \/ call[c].verdict = VerdictOf(call[c].decision)
          \/ call[c].decision = "approve" /\ call[c].verdict = "blocked"

SweepRecent(w) ==
    IF watcher[w].pc \in {"asleep", "loading"} THEN watcher[w].done = {}
    ELSE \A r \in watcher[w].todo \cup watcher[w].done : Recent(r, watcher[w].seen[r])

RecentStays == \A r \in Requests, seen \in RequestStatus : Recent(r, seen) => Recent(r, seen)'

\* A call that stays where it is, or goes on with what it loaded.
LEMMA CallGoesOn ==
    ASSUME AgreeInv, RecentStays, NEW c \in Calls, call'[c].req = call[c].req,
           call'[c].pc \in {"loaded", "locked", "replayed", "flushed"} =>
              /\ call[c].pc \in {"loaded", "locked", "replayed", "flushed"}
              /\ call'[c].request = call[c].request,
           call'[c].pc \in {"locked", "replayed", "flushed"} =>
              \/ call'[c].verdict = VerdictOf(call'[c].decision)
              \/ call'[c].decision = "approve" /\ call'[c].verdict = "blocked"
    PROVE  CallRecent(c)'
<1> SUFFICES ASSUME call'[c].pc \in {"loaded", "locked", "replayed", "flushed"}
             PROVE  Recent(call[c].req, call[c].request)'
  BY DEF CallRecent
<1>1. PICK q, seen : q = call[c].req /\ seen = call[c].request
  OBVIOUS
<1>2. q \in Requests /\ seen \in RequestStatus /\ Recent(q, seen)
  BY <1>1 DEF AgreeInv, RowsInv, TypeInv, TypeOK, Targets, ReviewTypeOK, CallRecord, StatusesRecent
<1>3. Recent(q, seen)'
  BY <1>2 DEF RecentStays
<1>4. q = call'[c].req /\ seen = call'[c].request
  BY <1>1
<1> QED
  BY <1>3, <1>4

\* The steps of a call.
LEMMA CallStaysRecent ==
    ASSUME AgreeInv, TypeInv', RecentStays, NEW c \in Calls, CallStep(c) \/ AbortCall(c)
    PROVE  CallRecent(c)'
<1> USE DEF AgreeInv, RowsInv, TypeInv, TypeOK, ReviewTypeOK
<1>0. call[c] \in CallRecord /\ call'[c].req = call[c].req
  BY CallFrame
<1>1. ASSUME NEW pc \in {"refused", "committed", "aborted", "undone"}, Finished(c, pc)
      PROVE  CallRecent(c)'
  <2>1. call'[c].pc = pc
    BY <1>1 DEF Finished, IdleCall
  <2> QED
    BY <2>1 DEF CallRecent
<1>2. CASE LoadRequest(c)
  <2>1. PICK q \in Requests : q = call[c].req /\ item[q] # "absent"
    BY <1>2 DEF LoadRequest, Targets, OnRows
  <2>2. PICK seen : seen = request[q]
    OBVIOUS
  <2>3. seen \in RequestStatus /\ Recent(q, seen)
    BY <2>1, <2>2, LoadedIsRecent
  <2>4. Recent(q, seen)'
    BY <2>3 DEF RecentStays
  <2>5. call'[c].req = q /\ call'[c].request = seen /\ call'[c].pc = "loaded"
    BY <1>0, <1>2, <2>1, <2>2 DEF LoadRequest, CallRecord
  <2> QED
    BY <2>4, <2>5 DEF CallRecent
<1>3. CASE LockItem(c)
  <2>1. /\ call[c].pc = "loaded" /\ call'[c].request = call[c].request
        /\ call'[c].verdict = VerdictOf(call'[c].decision)
    BY <1>0, <1>3 DEF LockItem, CallRecord
  <2> QED
    BY <1>0, <2>1, CallGoesOn
<1>4. CASE ReplayApprovedRequest(c) \/ ReplayUnsent(c)
  <2>1. /\ call[c].pc = "locked" /\ call'[c].request = call[c].request
        /\ call[c].decision = "approve" /\ call'[c].decision = call[c].decision
        /\ call'[c].verdict \in {"blocked", call[c].verdict}
    BY <1>0, <1>4 DEF ReplayApprovedRequest, ReplayUnsent, ReplaysUpstream, CallRecord
  <2>2. \/ call[c].verdict = VerdictOf(call[c].decision)
        \/ call[c].decision = "approve" /\ call[c].verdict = "blocked"
    BY <2>1 DEF StatusesRecent
  <2> QED
    BY <1>0, <2>1, <2>2, CallGoesOn
<1>5. CASE FlushDecision(c)
  <2>1. /\ call[c].pc \in {"locked", "replayed"} /\ call'[c].request = call[c].request
        /\ call'[c].decision = call[c].decision /\ call'[c].verdict = call[c].verdict
    BY <1>0, <1>5 DEF FlushDecision, ReadyToFlush, CallRecord
  <2>2. \/ call[c].verdict = VerdictOf(call[c].decision)
        \/ call[c].decision = "approve" /\ call[c].verdict = "blocked"
    BY <2>1 DEF StatusesRecent
  <2> QED
    BY <1>0, <2>1, <2>2, CallGoesOn
<1> QED
  BY <1>1, <1>2, <1>3, <1>4, <1>5 DEF CallStep, RefuseDecision, CommitDecision, AbortCall

\* Whatever steps, the calls' copies stay recent.
LEMMA CallsStayRecent ==
    ASSUME AgreeInv, TypeInv', RecentStays, [Next]_vars, NEW c \in Calls
    PROVE  CallRecent(c)'
<1> USE DEF AgreeInv, RowsInv, TypeInv, TypeOK, ReviewTypeOK
<1>1. ASSUME call'[c] = call[c]
      PROVE  CallRecent(c)'
  <2>1. call[c].pc \in {"locked", "replayed", "flushed"} =>
           \/ call[c].verdict = VerdictOf(call[c].decision)
           \/ call[c].decision = "approve" /\ call[c].verdict = "blocked"
    BY DEF StatusesRecent
  <2> QED
    BY <1>1, <2>1, CallGoesOn
<1>2. ASSUME NEW d \in Calls, NEW q \in Requests, NEW decision \in Decisions,
             LoadItem(d, q, decision)
      PROVE  CallRecent(c)'
  <2>1. CASE c = d
    <3>1. call'[c].pc = "loading"
      BY <1>2, <2>1 DEF LoadItem, CallRecord
    <3> QED
      BY <3>1 DEF CallRecent
  <2>2. CASE c # d
    BY <1>1, <1>2, <2>2 DEF LoadItem
  <2> QED
    BY <2>1, <2>2
<1>3. ASSUME NEW d \in Calls, CallStep(d) \/ AbortCall(d)
      PROVE  CallRecent(c)'
  BY <1>1, <1>3, CallStaysRecent, CallFrame
<1>4. CASE ReviewNext
  BY <1>1, <1>2, <1>3, <1>4
  DEF ReviewNext, DeadlinePasses, WatcherStep, SelectExpired, LoadExpiredRequests, PickExpired,
      TimeOutRequest, TimeOutItem, CommitTimeouts, AbortSweep, RollBackSweep, BreakDeadlock
<1> QED
  BY <1>1, <1>4 DEF Next, vars

\* A sweep that has loaded the requests goes on with what it loaded.
LEMMA SweepGoesOn ==
    ASSUME AgreeInv, RecentStays, NEW w \in Watchers, watcher'[w].seen = watcher[w].seen,
           watcher[w].pc \notin {"asleep", "loading"}, watcher'[w].pc \notin {"asleep", "loading"},
           watcher'[w].todo \cup watcher'[w].done \subseteq watcher[w].todo \cup watcher[w].done
    PROVE  SweepRecent(w)'
<1>1. ASSUME NEW r \in watcher'[w].todo \cup watcher'[w].done
      PROVE  Recent(r, watcher[w].seen[r])'
  <2>1. PICK seen : seen = watcher[w].seen[r]
    OBVIOUS
  <2>2. r \in Requests /\ seen \in RequestStatus
    BY <2>1 DEF AgreeInv, RowsInv, TypeInv, TypeOK, Targets, ReviewTypeOK, WatcherRecord
  <2>3. Recent(r, seen)
    BY <2>1 DEF AgreeInv, StatusesRecent
  <2>4. Recent(r, seen)'
    BY <2>2, <2>3 DEF RecentStays
  <2>5. seen = watcher'[w].seen[r]
    BY <2>1
  <2> QED
    BY <2>4, <2>5
<1> QED
  BY <1>1 DEF SweepRecent

\* The steps of a sweep.
LEMMA SweepStaysRecent ==
    ASSUME AgreeInv, TypeInv', RecentStays, NEW w \in Watchers, WatcherStep(w) \/ RollBackSweep(w)
    PROVE  SweepRecent(w)'
<1> USE DEF AgreeInv, RowsInv, TypeInv, TypeOK, ReviewTypeOK
<1>0. watcher[w] \in WatcherRecord
  OBVIOUS
<1>1. CASE SelectExpired(w)
  <2>1. watcher'[w].pc = "loading" /\ watcher'[w].done = watcher[w].done /\ watcher[w].done = {}
    BY <1>0, <1>1 DEF SelectExpired, WatcherRecord, StatusesRecent
  <2> QED
    BY <2>1 DEF SweepRecent
<1>2. CASE LoadExpiredRequests(w)
  <2>1. /\ watcher'[w].pc = "working" /\ watcher'[w].todo = watcher[w].todo
        /\ watcher'[w].done = {}
        /\ watcher'[w].seen = [r \in Requests |-> IF r \in watcher[w].todo THEN request[r] ELSE "absent"]
    BY <1>0, <1>2 DEF LoadExpiredRequests, WatcherRecord, StatusesRecent
  <2>2. ASSUME NEW r \in watcher[w].todo
        PROVE  Recent(r, watcher[w].seen[r])'
    <3>1. r \in Requests /\ item[r] # "absent"
      BY DEF Targets, OnRows
    <3>2. PICK seen : seen = request[r]
      OBVIOUS
    <3>3. seen \in RequestStatus /\ Recent(r, seen)
      BY <3>1, <3>2, LoadedIsRecent
    <3>4. Recent(r, seen)'
      BY <3>1, <3>3 DEF RecentStays
    <3>5. watcher'[w].seen[r] = seen
      BY <2>1, <3>1, <3>2
    <3> QED
      BY <3>4, <3>5
  <2> QED
    BY <2>1, <2>2 DEF SweepRecent
<1>3. ASSUME NEW r \in Requests, PickExpired(w, r)
      PROVE  SweepRecent(w)'
  <2>1. /\ watcher'[w].seen = watcher[w].seen
        /\ watcher[w].pc = "working" /\ watcher'[w].pc = "wants_request"
        /\ watcher'[w].todo = watcher[w].todo /\ watcher'[w].done = watcher[w].done
    BY <1>0, <1>3 DEF PickExpired, WatcherRecord
  <2> QED
    BY <2>1, SweepGoesOn
<1>4. CASE TimeOutRequest(w)
  <2>1. /\ watcher'[w].seen = watcher[w].seen
        /\ watcher[w].pc = "wants_request" /\ watcher'[w].pc = "wants_item"
        /\ watcher'[w].todo = watcher[w].todo /\ watcher'[w].done = watcher[w].done
    BY <1>0, <1>4 DEF TimeOutRequest, WatcherRecord
  <2> QED
    BY <2>1, SweepGoesOn
<1>5. CASE TimeOutItem(w)
  <2>1. /\ watcher'[w].seen = watcher[w].seen
        /\ watcher[w].pc = "wants_item" /\ watcher'[w].pc = "working"
        /\ watcher'[w].todo \cup watcher'[w].done \subseteq watcher[w].todo \cup watcher[w].done
    BY <1>0, <1>5 DEF TimeOutItem, WatcherRecord, Targets
  <2> QED
    BY <2>1, SweepGoesOn
<1>6. CASE watcher'[w] = Asleep
  BY <1>6 DEF SweepRecent, Asleep
<1> QED
  BY <1>0, <1>1, <1>2, <1>3, <1>4, <1>5, <1>6 DEF WatcherStep, CommitTimeouts, RollBackSweep, Survives

\* Whatever steps, the sweeps' copies stay recent.
LEMMA SweepsStayRecent ==
    ASSUME AgreeInv, TypeInv', RecentStays, [Next]_vars, NEW w \in Watchers
    PROVE  SweepRecent(w)'
<1> USE DEF AgreeInv, RowsInv, TypeInv, TypeOK, ReviewTypeOK
<1>1. ASSUME watcher'[w] = watcher[w]
      PROVE  SweepRecent(w)'
  <2>1. CASE watcher[w].pc \in {"asleep", "loading"}
    BY <1>1, <2>1 DEF SweepRecent, StatusesRecent
  <2>2. CASE watcher[w].pc \notin {"asleep", "loading"}
    BY <1>1, <2>2, SweepGoesOn
  <2> QED
    BY <2>1, <2>2
<1>2. ASSUME NEW v \in Watchers, WatcherStep(v) \/ RollBackSweep(v)
      PROVE  SweepRecent(w)'
  <2>1. v # w => watcher'[w] = watcher[w]
    BY <1>2 DEF WatcherStep, SelectExpired, LoadExpiredRequests, PickExpired, TimeOutRequest,
                TimeOutItem, CommitTimeouts, RollBackSweep
  <2> QED
    BY <1>1, <1>2, <2>1, SweepStaysRecent
<1>3. CASE ReviewNext
  BY <1>1, <1>2, <1>3
  DEF ReviewNext, LoadItem, CallStep, LoadRequest, LockItem, RefuseDecision,
      ReplayApprovedRequest, ReplayUnsent, FlushDecision, CommitDecision, AbortCall,
      DeadlinePasses, AbortSweep, BreakDeadlock
<1> QED
  BY <1>1, <1>3 DEF Next, vars

\* Nothing is decided at first, and nothing loaded.
LEMMA AgreeFirst == Init => ItemRequestAgree /\ StatusesRecent
<1> SUFFICES ASSUME Init
             PROVE  ItemRequestAgree /\ StatusesRecent
  OBVIOUS
<1>1. \A r \in Requests : Decided(r) = {}
  BY DEF Init, StoreInit, Decided
<1>2. Cardinality({}) = 0
  BY FS_EmptySet
<1> QED
  BY <1>1, <1>2 DEF Init, StoreInit, ReviewInit, IdleCall, Asleep, ItemRequestAgree, StatusesRecent

LEMMA AgreeStep ==
    ASSUME AgreeInv, [Next]_vars
    PROVE  ItemRequestAgree' /\ StatusesRecent'
<1>1. TypeInv'
  BY StepKeepsTypes DEF AgreeInv, RowsInv
<1>2. \A r \in Requests : Moved(r)
  BY <1>1, NextMoves
<1>3. ItemRequestAgree' /\ RecentStays
      /\ \A r \in Requests : item'[r] \in {"absent", "pending"} <=> Cardinality(Decided(r))' = 0
  BY <1>1, <1>2, MovedAgree DEF RecentStays
<1>4. \A c \in Calls : CallRecent(c)'
  BY <1>1, <1>3, CallsStayRecent
<1>5. \A w \in Watchers : SweepRecent(w)'
  BY <1>1, <1>3, SweepsStayRecent
<1> QED
  BY <1>3, <1>4, <1>5 DEF StatusesRecent, CallRecent, SweepRecent

\* The item and its request are loaded by two statements, without a lock, and written where
\* they differ from what was loaded: while at most two decisions and time-outs have been
\* committed for an item, its request's row says the same, for any number of reviewers and
\* watchers and however they overlap.
THEOREM ItemsAndRequestsAgree == Spec => []ItemRequestAgree
<1>1. AgreeInv => ItemRequestAgree
  BY DEF AgreeInv
<1>2. Init => AgreeInv
  BY InitTypes, RowsInit, AgreeFirst DEF AgreeInv, RowsInv
<1>3. AgreeInv /\ [Next]_vars => AgreeInv'
  BY StepKeepsTypes, RowsStep, AgreeStep DEF AgreeInv, RowsInv
<1> QED
  BY <1>1, <1>2, <1>3, PTL DEF Spec

----------------------------------------------------------------------------
(* Together.                                                               *)

\* The strengthening that the theorems above rest on is inductive as a whole: the row
\* locks, the rows that there are, the copies that the sessions hold, the journals and the
\* statuses that were loaded.
THEOREM PipelineInvariant == Spec => []IInv
<1> DEFINE Inv == IInv /\ ResolvedIncidentsAreTimed /\ ItemRequestAgree
<1>1. Init => Inv
  <2>1. Init => ResolvedIncidentsAreTimed /\ CopiesTimed /\ TimelinesJournalled
    BY DEF Init, StoreInit, ReviewInit, DeskInit, NoIncident, IdleCall, IdleDesk,
           ResolvedIncidentsAreTimed, CopiesTimed, TimelinesJournalled
  <2> QED
    BY <2>1, InitTypes, LockInit, RowsInit, AgreeFirst DEF IInv, TypeInv
<1>2. ASSUME Inv, [Next]_vars
      PROVE  Inv'
  <2>1. TypeInv /\ LockDiscipline /\ RowsInv /\ TimedInv /\ JournalInv /\ AgreeInv
    BY <1>2 DEF IInv, TypeInv, RowsInv, TimedInv, JournalInv, AgreeInv
  <2>2. TypeInv'
    BY <1>2, <2>1, StepKeepsTypes
  <2>3. LockDiscipline' /\ Routed' /\ OnRows'
    BY <1>2, <2>1, LockStep, RowsStep
  <2>4. ResolvedIncidentsAreTimed' /\ CopiesTimed'
    BY <1>2, <2>1, StepTimed, CopiesStep DEF RowsTimed, ResolvedIncidentsAreTimed
  <2>5. TimelinesJournalled'
    BY <1>2, <2>1, RowsStepJournalled, CopiesJournalled DEF RowsJournalled, TimelinesJournalled
  <2>6. ItemRequestAgree' /\ StatusesRecent'
    BY <1>2, <2>1, AgreeStep
  <2> QED
    BY <2>2, <2>3, <2>4, <2>5, <2>6 DEF IInv, TypeInv
<1>3. Inv => IInv
  OBVIOUS
<1> QED
  BY <1>1, <1>2, <1>3, PTL DEF Spec

----------------------------------------------------------------------------
(* The ballot.                                                             *)

\* What a transaction that is under way holds: a call past its lock saw its item waiting
\* and is an approval if it replayed, and a sweep has the lock of what it flushed.  The
\* upstream did not get what the proxy has not handled.
Holdings ==
    /\ \A c \in Calls :
          /\ call[c].pc \in {"locked", "replayed", "flushed"} => call[c].item = "pending"
          /\ call[c].pc = "replayed" => ReplaysUpstream(c)
    /\ \A w \in Watchers :
          /\ watcher[w].pc = "asleep" => watcher[w].todo = {} /\ watcher[w].done = {}
          /\ \A r \in watcher[w].done : itemLock[r] = w
    /\ \A r \in Requests : proxy[r] = "new" => forwarded[r] = 0

BallotInv == RowsInv /\ LockDiscipline /\ Holdings

CallHolds(c) ==
    /\ call[c].pc \in {"locked", "replayed", "flushed"} => call[c].item = "pending"
    /\ call[c].pc = "replayed" => ReplaysUpstream(c)

SweepHolds(w) ==
    /\ watcher[w].pc = "asleep" => watcher[w].todo = {} /\ watcher[w].done = {}
    /\ \A r \in watcher[w].done : itemLock[r] = w

LEMMA HoldingsFirst == Init => Holdings
  BY DEF Init, StoreInit, ProxyInit, ReviewInit, IdleCall, Asleep, Holdings

\* A call keeps what it has seen until it ends.
LEMMA CallsHold ==
    ASSUME BallotInv, NEW c \in Calls, CallStep(c) \/ AbortCall(c)
    PROVE  CallHolds(c)'
<1> USE DEF BallotInv, RowsInv, TypeInv, TypeOK, ReviewTypeOK, Holdings, CallHolds, ReplaysUpstream
<1>1. call[c] \in CallRecord
  OBVIOUS
<1>2. ASSUME NEW pc \in {"committed", "refused", "aborted", "undone"}, Finished(c, pc)
      PROVE  CallHolds(c)'
  BY <1>2 DEF Finished, IdleCall
<1>3. CASE LoadRequest(c)
  BY <1>1, <1>3 DEF LoadRequest, CallRecord
<1>4. CASE LockItem(c)
  BY <1>1, <1>4 DEF LockItem, CallRecord
<1>5. CASE ReplayApprovedRequest(c)
  BY <1>1, <1>5 DEF ReplayApprovedRequest, CallRecord
<1>6. CASE ReplayUnsent(c)
  BY <1>1, <1>6 DEF ReplayUnsent, CallRecord
<1>7. CASE FlushDecision(c)
  BY <1>1, <1>7 DEF FlushDecision, ReadyToFlush, CallRecord
<1> QED
  BY <1>2, <1>3, <1>4, <1>5, <1>6, <1>7
  DEF CallStep, RefuseDecision, CommitDecision, AbortCall

\* Whoever takes or drops an item's lock, a sweep keeps those of what it flushed.
LEMMA SweepLocks ==
    ASSUME BallotInv, NEW w \in Watchers, watcher'[w] = watcher[w], NEW t \in Txns, t # w,
           \/ itemLock' = Release(itemLock, t)
           \/ \E r \in Requests : itemLock[r] = NoTxn /\ itemLock' = [itemLock EXCEPT ![r] = t]
           \/ UNCHANGED itemLock
    PROVE  SweepHolds(w)'
<1> USE DEF BallotInv, RowsInv, TypeInv, TypeOK, StoreTypeOK, Targets, Holdings
<1>1. w # NoTxn /\ watcher[w].done \subseteq Requests
  BY TxnAssumption DEF Txns
<1>2. \A r \in watcher[w].done : itemLock[r] = w
  OBVIOUS
<1>3. \A r \in watcher[w].done : itemLock'[r] = w
  BY <1>1, <1>2 DEF Release
<1> QED
  BY <1>3 DEF SweepHolds

\* What a sweep has flushed it has locked.
LEMMA SweepHoldsOn ==
    ASSUME BallotInv, NEW w \in Watchers, WatcherStep(w) \/ RollBackSweep(w)
    PROVE  SweepHolds(w)'
<1> USE DEF BallotInv, RowsInv, TypeInv, TypeOK, StoreTypeOK, ReviewTypeOK, Targets, Holdings
<1>1. watcher[w] \in WatcherRecord /\ watcher[w].todo \cup watcher[w].done \subseteq Requests
  OBVIOUS
<1>2. \A r \in watcher[w].done : itemLock[r] = w
  OBVIOUS
<1>3. CASE RollBackSweep(w) \/ CommitTimeouts(w)
  BY <1>3 DEF RollBackSweep, CommitTimeouts, Survives, Asleep, SweepHolds
<1>4. CASE TimeOutItem(w)
  <2>1. watcher[w].cur \in watcher[w].todo
    BY <1>4 DEF TimeOutItem
  <2>2. watcher'[w].done = watcher[w].done \cup {watcher[w].cur} /\ watcher'[w].pc = "working"
        /\ itemLock' = [itemLock EXCEPT ![watcher[w].cur] = w]
    BY <1>1, <1>4 DEF TimeOutItem, WatcherRecord
  <2> QED
    BY <1>1, <1>2, <2>1, <2>2 DEF SweepHolds
<1>5. CASE SelectExpired(w)
  <2>1. watcher'[w].done = watcher[w].done /\ watcher'[w].pc = "loading" /\ UNCHANGED itemLock
    BY <1>1, <1>5 DEF SelectExpired, WatcherRecord, locks
  <2> QED
    BY <1>2, <2>1 DEF SweepHolds
<1>6. CASE LoadExpiredRequests(w)
  <2>1. watcher'[w].done = watcher[w].done /\ watcher'[w].pc = "working" /\ UNCHANGED itemLock
    BY <1>1, <1>6 DEF LoadExpiredRequests, WatcherRecord, locks
  <2> QED
    BY <1>2, <2>1 DEF SweepHolds
<1>7. ASSUME NEW r \in Requests, PickExpired(w, r)
      PROVE  SweepHolds(w)'
  <2>1. watcher'[w].done = watcher[w].done /\ watcher'[w].pc = "wants_request" /\ UNCHANGED itemLock
    BY <1>1, <1>7 DEF PickExpired, WatcherRecord, locks
  <2> QED
    BY <1>2, <2>1 DEF SweepHolds
<1>8. CASE TimeOutRequest(w)
  <2>1. watcher'[w].done = watcher[w].done /\ watcher'[w].pc = "wants_item" /\ UNCHANGED itemLock
    BY <1>1, <1>8 DEF TimeOutRequest, WatcherRecord
  <2> QED
    BY <1>2, <2>1 DEF SweepHolds
<1> QED
  BY <1>3, <1>4, <1>5, <1>6, <1>7, <1>8 DEF WatcherStep

\* The upstream does not get a request that its handler has not begun with.
LEMMA NewIsUnsent ==
    ASSUME BallotInv, [Next]_vars, NEW r \in Requests, proxy'[r] = "new"
    PROVE  forwarded'[r] = 0
<1> USE DEF BallotInv, RowsInv, TypeInv, TypeOK, StoreTypeOK, ProxyTypeOK
<1>1. CASE UNCHANGED <<proxy, forwarded>>
  BY <1>1 DEF Holdings
<1>2. CASE ProxyNext
  <2>1. PICK q \in Requests :
          \/ AutoBlocked(q) \/ EnqueueForReview(q) \/ ForwardToUpstream(q)
          \/ ResponseAllowed(q) \/ ResponseBlocked(q) \/ ProxyFails(q)
    BY <1>2 DEF ProxyNext
  <2>2. proxy'[q] # "new" /\ \A p \in Requests \ {q} : UNCHANGED <<proxy[p], forwarded[p]>>
    BY <2>1 DEF AutoBlocked, EnqueueForReview, ForwardToUpstream, ResponseAllowed,
                ResponseBlocked, ProxyFails, Record, rows
  <2> QED
    BY <2>2 DEF Holdings
<1>3. CASE ReviewNext /\ UNCHANGED proxy
  <2>1. ASSUME NEW c \in Calls, ReplayApprovedRequest(c)
        PROVE  forwarded'[r] = 0
    <3>1. call[c].pc # "idle"
      BY <2>1 DEF ReplayApprovedRequest
    <3>2. proxy[call[c].req] = "done" /\ call[c].req # r
      BY <1>3, <3>1 DEF OnRows, Routed, Targets
    <3> QED
      BY <1>3, <2>1, <3>2 DEF ReplayApprovedRequest, Holdings
  <2>2. (\E c \in Calls : ReplayApprovedRequest(c)) \/ UNCHANGED forwarded
    BY <1>3 DEF ReviewNext, LoadItem, CallStep, LoadRequest, LockItem, RefuseDecision,
                ReplayUnsent, FlushDecision, CommitDecision, AbortCall, DeadlinePasses,
                WatcherStep, SelectExpired, LoadExpiredRequests, PickExpired, TimeOutRequest,
                TimeOutItem, CommitTimeouts, AbortSweep, RollBackSweep, BreakDeadlock, rows
  <2> QED
    BY <1>1, <1>3, <2>1, <2>2
<1>4. CASE DeskNext /\ UNCHANGED proxy
  BY <1>1, <1>4 DEF DeskNext, LoadIncident, RefuseEdit, SaveIncident, rows
<1> QED
  BY <1>1, <1>2, <1>3, <1>4 DEF Next, vars, rows

\* What the steps of the review service do to the locks of the items.
LEMMA CallLocks ==
    ASSUME TypeInv, NEW c \in Calls, CallStep(c) \/ AbortCall(c)
    PROVE  \/ itemLock' = Release(itemLock, c)
           \/ \E r \in Requests : itemLock[r] = NoTxn /\ itemLock' = [itemLock EXCEPT ![r] = c]
           \/ UNCHANGED itemLock
<1>1. CASE LockItem(c)
  <2>1. call[c].req \in Requests
    BY <1>1 DEF LockItem, TypeInv, Targets
  <2> QED
    BY <1>1, <2>1 DEF LockItem, ItemUnlocked
<1> QED
  BY <1>1 DEF CallStep, LoadRequest, RefuseDecision, ReplayApprovedRequest, ReplayUnsent,
              FlushDecision, CommitDecision, AbortCall, locks

LEMMA WatcherLocks ==
    ASSUME TypeInv, NEW w \in Watchers, WatcherStep(w) \/ RollBackSweep(w)
    PROVE  /\ \/ itemLock' = Release(itemLock, w)
              \/ \E r \in Requests :
                    itemLock[r] = NoTxn /\ itemLock' = [itemLock EXCEPT ![r] = w]
              \/ UNCHANGED itemLock
           /\ UNCHANGED call
           /\ \A v \in Watchers \ {w} : watcher'[v] = watcher[v]
<1> USE DEF TypeInv, TypeOK, ReviewTypeOK
<1>1. CASE TimeOutItem(w)
  <2>1. watcher[w].cur \in Requests
    BY <1>1 DEF TimeOutItem, Targets
  <2> QED
    BY <1>1, <2>1 DEF TimeOutItem
<1>2. CASE SelectExpired(w)
  BY <1>2 DEF SelectExpired, locks
<1>3. CASE LoadExpiredRequests(w)
  BY <1>3 DEF LoadExpiredRequests, locks
<1>4. ASSUME NEW r \in Requests, PickExpired(w, r)
      PROVE  UNCHANGED <<itemLock, call>> /\ \A v \in Watchers \ {w} : watcher'[v] = watcher[v]
  BY <1>4 DEF PickExpired, locks
<1>5. CASE TimeOutRequest(w)
  BY <1>5 DEF TimeOutRequest
<1>6. CASE CommitTimeouts(w)
  BY <1>6 DEF CommitTimeouts
<1>7. CASE RollBackSweep(w)
  BY <1>7 DEF RollBackSweep
<1> QED
  BY <1>1, <1>2, <1>3, <1>4, <1>5, <1>6, <1>7 DEF WatcherStep

\* One transaction moves at a time.
LEMMA Movers ==
    ASSUME Next
    PROVE  \/ UNCHANGED <<call, watcher, locks>>
           \/ \E c \in Calls, r \in Requests, d \in Decisions :
                 LoadItem(c, r, d) /\ UNCHANGED proxy
           \/ \E c \in Calls : (CallStep(c) \/ AbortCall(c)) /\ UNCHANGED <<watcher, proxy>>
           \/ \E w \in Watchers : (WatcherStep(w) \/ RollBackSweep(w)) /\ UNCHANGED proxy
<1>1. CASE ProxyNext /\ UNCHANGED <<call, watcher, failures, desk>>
  BY <1>1 DEF ProxyNext, AutoBlocked, EnqueueForReview, ForwardToUpstream, ResponseAllowed,
              ResponseBlocked, ProxyFails, Record
<1>2. CASE DeskNext /\ UNCHANGED <<proxy, call, watcher, failures>>
  BY <1>2 DEF DeskNext, LoadIncident, RefuseEdit, SaveIncident
<1>3. CASE ReviewNext /\ UNCHANGED <<proxy, desk>>
  <2>1. \A c \in Calls : CallStep(c) \/ AbortCall(c) => UNCHANGED watcher
    BY DEF CallStep, LoadRequest, LockItem, RefuseDecision, ReplayApprovedRequest, ReplayUnsent,
           FlushDecision, CommitDecision, AbortCall
  <2> QED
    BY <1>3, <2>1 DEF ReviewNext, DeadlinePasses, AbortSweep, BreakDeadlock
<1> QED
  BY <1>1, <1>2, <1>3 DEF Next

LEMMA HoldingsStep ==
    ASSUME BallotInv, [Next]_vars
    PROVE  Holdings'
<1> USE DEF BallotInv, RowsInv, TypeInv, TypeOK, ReviewTypeOK
<1>1. Calls \cap Watchers = {}
  BY TxnAssumption
<1>2. (\A c \in Calls : CallHolds(c)') /\ (\A w \in Watchers : SweepHolds(w)')
  <2>1. CASE UNCHANGED <<call, watcher, locks>>
    BY <2>1 DEF Holdings, CallHolds, SweepHolds, ReplaysUpstream, locks
  <2>2. ASSUME NEW c \in Calls, NEW r \in Requests, NEW d \in Decisions, LoadItem(c, r, d)
        PROVE  (\A e \in Calls : CallHolds(e)') /\ (\A w \in Watchers : SweepHolds(w)')
    <3>1. call'[c].pc = "loading" /\ \A e \in Calls \ {c} : call'[e] = call[e]
      BY <2>2 DEF LoadItem, CallRecord
    <3>2. UNCHANGED <<watcher, itemLock>>
      BY <2>2 DEF LoadItem, locks
    <3> QED
      BY <3>1, <3>2 DEF Holdings, CallHolds, SweepHolds, ReplaysUpstream
  <2>3. ASSUME NEW c \in Calls, CallStep(c) \/ AbortCall(c), UNCHANGED watcher
        PROVE  (\A e \in Calls : CallHolds(e)') /\ (\A w \in Watchers : SweepHolds(w)')
    <3>1. \A e \in Calls \ {c} : call'[e] = call[e]
      BY <2>3, CallFrame
    <3>2. \A e \in Calls \ {c} : CallHolds(e)'
      BY <3>1 DEF Holdings, CallHolds, ReplaysUpstream
    <3>3. CallHolds(c)'
      BY <2>3, CallsHold
    <3>4. \/ itemLock' = Release(itemLock, c)
          \/ \E r \in Requests : itemLock[r] = NoTxn /\ itemLock' = [itemLock EXCEPT ![r] = c]
          \/ UNCHANGED itemLock
      BY <2>3, CallLocks
    <3>5. \A w \in Watchers : SweepHolds(w)'
      BY <1>1, <2>3, <3>4, SweepLocks DEF Txns
    <3> QED
      BY <3>2, <3>3, <3>5
  <2>4. ASSUME NEW w \in Watchers, WatcherStep(w) \/ RollBackSweep(w)
        PROVE  (\A c \in Calls : CallHolds(c)') /\ (\A v \in Watchers : SweepHolds(v)')
    <3>1. /\ \/ itemLock' = Release(itemLock, w)
             \/ \E r \in Requests :
                   itemLock[r] = NoTxn /\ itemLock' = [itemLock EXCEPT ![r] = w]
             \/ UNCHANGED itemLock
          /\ UNCHANGED call
          /\ \A v \in Watchers \ {w} : watcher'[v] = watcher[v]
      BY <2>4, WatcherLocks
    <3>2. \A c \in Calls : CallHolds(c)'
      BY <3>1 DEF Holdings, CallHolds, ReplaysUpstream
    <3>3. SweepHolds(w)'
      BY <2>4, SweepHoldsOn
    <3>4. \A v \in Watchers \ {w} : SweepHolds(v)'
      BY <3>1, SweepLocks DEF Txns
    <3> QED
      BY <3>2, <3>3, <3>4
  <2>5. CASE UNCHANGED vars
    BY <2>1, <2>5 DEF vars
  <2> QED
    BY <2>1, <2>2, <2>3, <2>4, <2>5, Movers
<1>3. \A r \in Requests : proxy'[r] = "new" => forwarded'[r] = 0
  BY NewIsUnsent
<1> QED
  BY <1>2, <1>3 DEF Holdings, CallHolds, SweepHolds

\* The mapping as a tuple: what a step of the ballot changes.
Mapped == <<Route, item, overdue, forwarded, BallotPapers, Sweeps>>

\* What the ballot of a call is.
LEMMA BallotIs ==
    ASSUME ReviewTypeOK, NEW c \in Calls
    PROVE  /\ BallotPapers[c] = BallotOf(c)
           /\ Voting(c) /\ Replayed(c) =>
                 BallotOf(c) = Queue!Paper("used", call[c].req, call[c].decision)
           /\ Voting(c) /\ ~Replayed(c) =>
                 BallotOf(c) = Queue!Paper("open", call[c].req, call[c].decision)
           /\ call[c].pc = "idle" => BallotOf(c) = Queue!Blank
           /\ call[c].pc # "idle" /\ ~Voting(c) => BallotOf(c) = Queue!Over
<1>1. BallotPapers[c] = BallotOf(c)
  BY DEF BallotPapers
<1>2. call[c].pc = "idle" => ~Voting(c)
  BY DEF Voting
<1> QED
  BY <1>1, <1>2 DEF BallotOf, Queue!Paper, Queue!Blank, Queue!Over

\* A step of one call moves its ballot only.
LEMMA PaperMoves ==
    ASSUME NEW c \in Calls, NEW paper, BallotOf(c)' = paper,
           \A e \in Calls \ {c} : call'[e] = call[e]
    PROVE  BallotPapers' = [BallotPapers EXCEPT ![c] = paper]
<1>1. \A e \in Calls \ {c} : BallotOf(e)' = BallotOf(e)
  BY DEF BallotOf, Voting, Replayed, ReplaysUpstream
<1> QED
  BY <1>1 DEF BallotPapers

LEMMA PaperStays ==
    ASSUME NEW c \in Calls, BallotOf(c)' = BallotOf(c),
           \A e \in Calls \ {c} : call'[e] = call[e]
    PROVE  UNCHANGED BallotPapers
<1>1. \A e \in Calls \ {c} : BallotOf(e)' = BallotOf(e)
  BY DEF BallotOf, Voting, Replayed, ReplaysUpstream
<1> QED
  BY <1>1 DEF BallotPapers

LEMMA PapersStay ==
    ASSUME UNCHANGED call
    PROVE  UNCHANGED BallotPapers
  BY DEF BallotPapers, BallotOf, Voting, Replayed, ReplaysUpstream

\* Who holds the lock of an item is not disturbed.
LEMMA HolderIsAlone ==
    ASSUME BallotInv, NEW r \in Requests, NEW t, itemLock[r] = t
    PROVE  Queue!Undisturbed(r, t)
<1> USE DEF BallotInv, RowsInv, TypeInv, TypeOK
<1> SUFFICES ASSUME NEW c \in Calls, BallotPapers[c].stage = "used", BallotPapers[c].on = r
             PROVE  c = t
  BY DEF Queue!Undisturbed
<1>1. Voting(c) /\ Replayed(c)
  BY BallotIs DEF BallotPapers, BallotOf
<1>2. call[c].req = r
  BY <1>1 DEF BallotPapers, BallotOf
<1>3. Deciding(c, r)
  BY <1>1, <1>2 DEF Replayed, Deciding
<1> QED
  BY <1>3 DEF LockDiscipline

\* The policy's route depends on the score alone, which is fixed.
LEMMA RouteStays ==
    ASSUME UNCHANGED score
    PROVE  UNCHANGED Route
  BY DEF Route, Critical, Suspicious

\* A handler forwards what the policy lets through, or queues what it holds back.
LEMMA ProxyRefines ==
    ASSUME BallotInv, ProxyNext, UNCHANGED <<call, watcher, failures, desk>>
    PROVE  [Queue!Next]_Mapped
<1> USE DEF BallotInv, RowsInv, TypeInv, TypeOK, StoreTypeOK, ProxyTypeOK
<1>1. PICK q \in Requests :
        \/ AutoBlocked(q) \/ EnqueueForReview(q) \/ ForwardToUpstream(q)
        \/ ResponseAllowed(q) \/ ResponseBlocked(q) \/ ProxyFails(q)
  BY DEF ProxyNext
<1>2. UNCHANGED <<score, overdue>>
  BY <1>1 DEF AutoBlocked, EnqueueForReview, ForwardToUpstream, ResponseAllowed,
              ResponseBlocked, ProxyFails, Record, rows
<1>3. UNCHANGED <<Route, BallotPapers, Sweeps>>
  BY <1>2, RouteStays, PapersStay DEF Sweeps
<1>4. CASE EnqueueForReview(q)
  <2>1. Route[q] = "review" /\ item[q] = "absent"
    BY <1>4 DEF EnqueueForReview, Suspicious, Route, Routed
  <2>2. item' = [item EXCEPT ![q] = "pending"] /\ UNCHANGED forwarded
    BY <1>4 DEF EnqueueForReview
  <2>3. Queue!Enqueue(q)
    BY <1>2, <1>3, <2>1, <2>2 DEF Queue!Enqueue
  <2> QED
    BY <2>3 DEF Queue!Next
<1>5. CASE ForwardToUpstream(q)
  <2>1. Route[q] = "pass" /\ forwarded[q] = 0
    BY <1>5 DEF ForwardToUpstream, Harmless, Suspicious, Route, Holdings
  <2>2. forwarded' = [forwarded EXCEPT ![q] = 1] /\ UNCHANGED item
    BY <1>5, <2>1 DEF ForwardToUpstream
  <2>3. Queue!Forward(q)
    BY <1>2, <1>3, <2>1, <2>2 DEF Queue!Forward
  <2> QED
    BY <2>3 DEF Queue!Next
<1>6. CASE AutoBlocked(q) \/ ResponseAllowed(q) \/ ResponseBlocked(q) \/ ProxyFails(q)
  BY <1>2, <1>3, <1>6
  DEF AutoBlocked, ResponseAllowed, ResponseBlocked, ProxyFails, rows, Mapped
<1> QED
  BY <1>1, <1>4, <1>5, <1>6

\* A call that finds its item waiting has a ballot, another one has none.
LEMMA LoadOpens ==
    ASSUME BallotInv, NEW c \in Calls, NEW r \in Requests, NEW d \in Decisions,
           LoadItem(c, r, d), UNCHANGED proxy
    PROVE  Queue!Next
<1> USE DEF BallotInv, RowsInv, TypeInv, TypeOK, ReviewTypeOK
<1>1. UNCHANGED <<Route, item, overdue, forwarded, Sweeps>>
  BY RouteStays DEF LoadItem, rows, Sweeps
<1>2. /\ call[c].pc = "idle"
      /\ call'[c] = [call[c] EXCEPT !.pc = "loading", !.req = r, !.decision = d,
                                    !.item = item[r]]
      /\ \A e \in Calls \ {c} : call'[e] = call[e]
  BY DEF LoadItem
<1>3. BallotPapers[c] = Queue!Blank
  BY <1>2, BallotIs
<1>4. CASE item[r] = "pending"
  <2>1. BallotOf(c)' = Queue!Paper("open", r, d)
    BY <1>2, <1>4 DEF BallotOf, Voting, Replayed, ReplaysUpstream, CallRecord, Queue!Paper
  <2>2. Queue!Open(c, r, d)
    BY <1>1, <1>2, <1>3, <1>4, <2>1, PaperMoves DEF Queue!Open
  <2> QED
    BY <2>2 DEF Queue!Next, Queue!Votes, Decisions
<1>5. CASE item[r] # "pending"
  <2>1. BallotOf(c)' = Queue!Over
    BY <1>2, <1>5 DEF BallotOf, Voting, CallRecord, Queue!Over, Queue!Paper
  <2>2. Queue!TurnAway(c)
    BY <1>1, <1>2, <1>3, <2>1, PaperMoves DEF Queue!TurnAway
  <2> QED
    BY <2>2 DEF Queue!Next
<1> QED
  BY <1>4, <1>5

\* Up to its lock, and from its replay to its commit, a call keeps its ballot.
LEMMA CallKeepsBallot ==
    ASSUME BallotInv, NEW c \in Calls,
           \/ LoadRequest(c) \/ LockItem(c) \/ RefuseDecision(c) \/ FlushDecision(c),
           UNCHANGED proxy
    PROVE  UNCHANGED Mapped
<1> USE DEF BallotInv, RowsInv, TypeInv, TypeOK, ReviewTypeOK
<1>1. call[c] \in CallRecord
  OBVIOUS
<1>2. UNCHANGED <<Route, item, overdue, forwarded, Sweeps>>
  BY RouteStays DEF LoadRequest, LockItem, RefuseDecision, FlushDecision, rows, Sweeps
<1>3. \A e \in Calls \ {c} : call'[e] = call[e]
  BY CallFrame DEF CallStep
<1>4. CASE LoadRequest(c) \/ LockItem(c)
  <2>1. /\ call'[c].item = call[c].item
        /\ call'[c].req = call[c].req
        /\ call'[c].decision = call[c].decision
        /\ call[c].pc \in {"loading", "loaded"} /\ call'[c].pc \in {"loaded", "locked"}
    BY <1>1, <1>4 DEF LoadRequest, LockItem, CallRecord
  <2>2. BallotOf(c)' = BallotOf(c)
    BY <2>1 DEF BallotOf, Voting, Replayed
  <2> QED
    BY <1>2, <1>3, <2>2, PaperStays DEF Mapped
<1>5. CASE RefuseDecision(c)
  <2>1. call[c].pc = "loaded" /\ call[c].item # "pending" /\ call'[c].pc = "refused"
    BY <1>5 DEF RefuseDecision, Finished, IdleCall
  <2>2. BallotOf(c)' = BallotOf(c)
    BY <2>1 DEF BallotOf, Voting
  <2> QED
    BY <1>2, <1>3, <2>2, PaperStays DEF Mapped
<1>6. CASE FlushDecision(c)
  <2>1. /\ call'[c].item = call[c].item /\ call[c].item = "pending"
        /\ call'[c].req = call[c].req
        /\ call'[c].decision = call[c].decision
        /\ \/ call[c].pc = "replayed" /\ call[c].decision = "approve"
           \/ call[c].pc = "locked" /\ call[c].decision # "approve"
        /\ call'[c].pc = "flushed"
    BY <1>1, <1>6 DEF FlushDecision, ReadyToFlush, ReplaysUpstream, Holdings, CallRecord
  <2>2. BallotOf(c)' = BallotOf(c)
    BY <2>1 DEF BallotOf, Voting, Replayed, ReplaysUpstream
  <2> QED
    BY <1>2, <1>3, <2>2, PaperStays DEF Mapped
<1> QED
  BY <1>4, <1>5, <1>6

\* A replay uses the ballot, whether or not it reached the upstream.
LEMMA ReplaySends ==
    ASSUME BallotInv, NEW c \in Calls, ReplayApprovedRequest(c) \/ ReplayUnsent(c),
           UNCHANGED proxy
    PROVE  Queue!Next
<1> DEFINE r == call[c].req
<1> USE DEF BallotInv, RowsInv, TypeInv, TypeOK, ReviewTypeOK
<1>1. call[c] \in CallRecord
  OBVIOUS
<1>2. UNCHANGED <<Route, item, overdue, Sweeps>>
  BY RouteStays DEF ReplayApprovedRequest, ReplayUnsent, rows, Sweeps
<1>3. forwarded' = [forwarded EXCEPT ![r] = @ + 1] \/ UNCHANGED forwarded
  BY DEF ReplayApprovedRequest, ReplayUnsent, rows
<1>4. /\ call[c].pc = "locked" /\ call[c].decision = "approve" /\ call[c].item = "pending"
      /\ call'[c].pc = "replayed" /\ call'[c].decision = "approve"
      /\ call'[c].item = "pending" /\ call'[c].req = r
  BY <1>1 DEF ReplayApprovedRequest, ReplayUnsent, ReplaysUpstream, Holdings, CallRecord
<1>5. \A e \in Calls \ {c} : call'[e] = call[e]
  BY CallFrame DEF CallStep
<1>6. r \in Requests /\ itemLock[r] = c
  BY <1>4 DEF Targets, LockDiscipline, Deciding
<1>7. BallotPapers[c] = Queue!Paper("open", r, "approve")
  BY <1>4, BallotIs DEF Voting, Replayed
<1>8. BallotOf(c)' = Queue!Paper("used", r, "approve")
  BY <1>4 DEF BallotOf, Voting, Replayed, Queue!Paper
<1>9. Queue!Undisturbed(r, c)
  BY <1>6, HolderIsAlone
<1>10. BallotPapers' = [BallotPapers EXCEPT ![c] = Queue!Paper("used", r, "approve")]
  BY <1>5, <1>8, PaperMoves
<1>11. /\ BallotPapers[c].stage = "open"
       /\ BallotPapers[c].vote = "approve"
       /\ BallotPapers[c].on = r
  BY <1>7 DEF Queue!Paper
<1>12. Queue!Send(c)
  BY <1>2, <1>3, <1>9, <1>10, <1>11 DEF Queue!Send
<1> QED
  BY <1>12 DEF Queue!Next

\* A commit casts the ballot.
LEMMA CommitCasts ==
    ASSUME BallotInv, NEW c \in Calls, CommitDecision(c), UNCHANGED proxy
    PROVE  Queue!Next
<1> DEFINE r == call[c].req
           d == call[c].decision
<1> USE DEF BallotInv, RowsInv, TypeInv, TypeOK, ReviewTypeOK
<1>1. UNCHANGED <<Route, overdue, forwarded, Sweeps>>
  BY RouteStays DEF CommitDecision, Sweeps
<1>2. /\ call[c].pc = "flushed" /\ call[c].item = "pending" /\ call'[c].pc = "committed"
      /\ item' = [item EXCEPT ![r] = ItemStatusOf(d)]
  BY DEF CommitDecision, Finished, IdleCall, Holdings
<1>3. \A e \in Calls \ {c} : call'[e] = call[e]
  BY CallFrame DEF CallStep
<1>4. r \in Requests /\ itemLock[r] = c
  BY <1>2 DEF Targets, LockDiscipline, Deciding
<1>5. BallotPapers[c] = Queue!Paper(IF d = "approve" THEN "used" ELSE "open", r, d)
  BY <1>2, BallotIs DEF Voting, Replayed, ReplaysUpstream
<1>6. BallotOf(c)' = Queue!Over
  BY <1>2 DEF BallotOf, Voting, Queue!Over, Queue!Paper
<1>7. Queue!Undisturbed(r, c)
  BY <1>4, HolderIsAlone
<1>8. BallotPapers' = [BallotPapers EXCEPT ![c] = Queue!Over]
  BY <1>3, <1>6, PaperMoves
<1>9. /\ BallotPapers[c].stage = IF d = "approve" THEN "used" ELSE "open"
      /\ BallotPapers[c].vote = d
      /\ BallotPapers[c].on = r
  BY <1>5 DEF Queue!Paper
<1>10. item' = [item EXCEPT ![r] = Queue!Counted(d)]
  BY <1>2 DEF ItemStatusOf, Queue!Counted
<1>11. Queue!Cast(c)
  BY <1>1, <1>7, <1>8, <1>9, <1>10 DEF Queue!Cast
<1> QED
  BY <1>11 DEF Queue!Next

\* A call that is rolled back gives its ballot up, if it has one.
LEMMA AbortGivesUp ==
    ASSUME BallotInv, NEW c \in Calls, AbortCall(c), UNCHANGED proxy
    PROVE  [Queue!Next]_Mapped
<1> USE DEF BallotInv, RowsInv, TypeInv, TypeOK, ReviewTypeOK
<1>1. UNCHANGED <<Route, item, overdue, forwarded, Sweeps>>
  BY RouteStays DEF AbortCall, rows, Sweeps
<1>2. call[c].pc \in {"loading", "loaded", "locked", "replayed", "flushed"}
      /\ call'[c].pc \in {"aborted", "undone"}
  BY DEF AbortCall, Finished, IdleCall
<1>3. \A e \in Calls \ {c} : call'[e] = call[e]
  BY CallFrame
<1>4. BallotOf(c)' = Queue!Over
  BY <1>2 DEF BallotOf, Voting, Queue!Over, Queue!Paper
<1>5. CASE Voting(c)
  <2>1. BallotPapers[c].stage \in {"open", "used"}
    BY <1>5, BallotIs DEF Queue!Paper
  <2>2. Queue!GiveUp(c)
    BY <1>1, <1>3, <1>4, <2>1, PaperMoves DEF Queue!GiveUp
  <2> QED
    BY <2>2 DEF Queue!Next
<1>6. CASE ~Voting(c)
  <2>1. BallotOf(c) = Queue!Over
    BY <1>2, <1>6, BallotIs
  <2> QED
    BY <1>1, <1>3, <1>4, <2>1, PaperStays DEF Mapped
<1> QED
  BY <1>5, <1>6

\* A sweep opens ballots on what it found overdue, and casts or drops them together.
LEMMA SweepRefines ==
    ASSUME BallotInv, NEW w \in Watchers, WatcherStep(w) \/ RollBackSweep(w), UNCHANGED proxy
    PROVE  [Queue!Next]_Mapped
<1> USE DEF BallotInv, RowsInv, TypeInv, TypeOK, StoreTypeOK, ReviewTypeOK
<1>1. UNCHANGED call /\ \A v \in Watchers \ {w} : watcher'[v] = watcher[v]
  BY WatcherLocks
<1>2. UNCHANGED BallotPapers
  BY <1>1, PapersStay
<1>3. watcher[w] \in WatcherRecord
  OBVIOUS
<1>4. ASSUME NEW swept, watcher'[w].todo \cup watcher'[w].done = swept
      PROVE  Sweeps' = [Sweeps EXCEPT ![w] = swept]
  BY <1>1, <1>4 DEF Sweeps
<1>5. CASE SelectExpired(w)
  <2>1. UNCHANGED <<Route, item, overdue, forwarded>>
    BY <1>5, RouteStays DEF SelectExpired, rows
  <2>2. Sweeps[w] = {} /\ watcher'[w].todo \cup watcher'[w].done = Expired
    BY <1>3, <1>5 DEF SelectExpired, Sweeps, Holdings, WatcherRecord
  <2>3. Queue!Notice(w)
    BY <1>2, <1>4, <2>1, <2>2 DEF Queue!Notice, Expired
  <2> QED
    BY <2>3 DEF Queue!Next
<1>6. CASE CommitTimeouts(w)
  <2>1. UNCHANGED <<Route, overdue, forwarded>>
    BY <1>6, RouteStays DEF CommitTimeouts
  <2>2. Sweeps[w] = watcher[w].done /\ watcher'[w].todo \cup watcher'[w].done = {}
    BY <1>3, <1>6 DEF CommitTimeouts, Sweeps, Asleep
  <2>3. \A r \in Sweeps[w] : r \in Requests /\ itemLock[r] = w
    BY <2>2 DEF Holdings, Targets
  <2>4. \A r \in Sweeps[w] : Queue!Undisturbed(r, w)
    BY <2>3, HolderIsAlone
  <2>5. item' = [r \in Requests |-> IF r \in Sweeps[w] THEN "timed_out" ELSE item[r]]
    BY <1>6, <2>2 DEF CommitTimeouts
  <2>6. Queue!TimeOut(w)
    BY <1>2, <1>4, <2>1, <2>2, <2>4, <2>5 DEF Queue!TimeOut
  <2> QED
    BY <2>6 DEF Queue!Next
<1>7. CASE RollBackSweep(w)
  <2>1. UNCHANGED <<Route, item, overdue, forwarded>>
    BY <1>7, RouteStays DEF RollBackSweep, rows
  <2>2. watcher'[w].todo \cup watcher'[w].done = {}
    BY <1>7 DEF RollBackSweep, Survives, Asleep
  <2>3. Queue!Forget(w)
    BY <1>2, <1>4, <2>1, <2>2 DEF Queue!Forget
  <2> QED
    BY <2>3 DEF Queue!Next
<1>8. CASE \/ LoadExpiredRequests(w) \/ TimeOutRequest(w) \/ TimeOutItem(w)
           \/ \E r \in Requests : PickExpired(w, r)
  <2>1. UNCHANGED <<Route, item, overdue, forwarded>>
    BY <1>8, RouteStays DEF LoadExpiredRequests, TimeOutRequest, TimeOutItem, PickExpired, rows
  <2>2. watcher'[w].todo \cup watcher'[w].done = watcher[w].todo \cup watcher[w].done
    <3>1. CASE TimeOutItem(w)
      <4>1. watcher[w].cur \in watcher[w].todo
        BY <3>1 DEF TimeOutItem, Targets
      <4> QED
        BY <1>3, <3>1, <4>1 DEF TimeOutItem, WatcherRecord
    <3>2. CASE LoadExpiredRequests(w)
      BY <1>3, <3>2 DEF LoadExpiredRequests, WatcherRecord
    <3>3. CASE TimeOutRequest(w)
      BY <1>3, <3>3 DEF TimeOutRequest, WatcherRecord
    <3>4. ASSUME NEW r \in Requests, PickExpired(w, r)
          PROVE  watcher'[w].todo = watcher[w].todo /\ watcher'[w].done = watcher[w].done
      BY <1>3, <3>4 DEF PickExpired, WatcherRecord
    <3> QED
      BY <1>8, <3>1, <3>2, <3>3, <3>4
  <2>3. UNCHANGED Sweeps
    BY <1>1, <2>2 DEF Sweeps
  <2> QED
    BY <1>2, <2>1, <2>3 DEF Mapped
<1> QED
  BY <1>5, <1>6, <1>7, <1>8 DEF WatcherStep

LEMMA StepRefinesBallot ==
    ASSUME BallotInv, [Next]_vars
    PROVE  [Queue!Next]_Mapped
<1>1. CASE ProxyNext /\ UNCHANGED <<call, watcher, failures, desk>>
  BY <1>1, ProxyRefines
<1>2. CASE UNCHANGED <<score, item, overdue, forwarded, call, watcher>>
  BY <1>2, RouteStays, PapersStay DEF Mapped, Sweeps
<1>3. CASE DeskNext /\ UNCHANGED <<proxy, call, watcher, failures>>
  BY <1>2, <1>3 DEF DeskNext, LoadIncident, RefuseEdit, SaveIncident, rows
<1>4. CASE ReviewNext /\ UNCHANGED <<proxy, desk>>
  <2>1. ASSUME NEW r \in Requests, DeadlinePasses(r)
        PROVE  [Queue!Next]_Mapped
    <3>1. UNCHANGED <<Route, BallotPapers, Sweeps>>
      BY <2>1, RouteStays, PapersStay DEF DeadlinePasses, Sweeps
    <3>2. Queue!FallDue(r)
      BY <2>1, <3>1 DEF DeadlinePasses, Queue!FallDue
    <3> QED
      BY <3>2 DEF Queue!Next
  <2>2. ASSUME NEW c \in Calls, CallStep(c)
        PROVE  [Queue!Next]_Mapped
    BY <1>4, <2>2, CallKeepsBallot, ReplaySends, CommitCasts DEF CallStep
  <2> QED
    BY <1>4, <2>1, <2>2, LoadOpens, AbortGivesUp, SweepRefines
    DEF ReviewNext, AbortSweep, BreakDeadlock
<1>5. CASE UNCHANGED vars
  BY <1>2, <1>5 DEF vars, rows
<1> QED
  BY <1>1, <1>3, <1>4, <1>5 DEF Next

LEMMA InitRefinesBallot == Init => Queue!Init
<1> SUFFICES ASSUME Init PROVE Queue!Init
  OBVIOUS
<1>1. /\ item = [r \in Requests |-> "absent"] /\ overdue = {}
      /\ forwarded = [r \in Requests |-> 0]
      /\ call = [c \in Calls |-> IdleCall] /\ watcher = [w \in Watchers |-> Asleep]
  BY DEF Init, StoreInit, ReviewInit
<1>2. Route \in [Requests -> {"pass", "review", "block"}]
  BY DEF Route
<1>3. BallotPapers = [c \in Calls |-> Queue!Blank]
  BY <1>1 DEF BallotPapers, BallotOf, Voting, IdleCall, Queue!Blank, Queue!Paper
<1>4. Sweeps = [w \in Watchers |-> {}]
  BY <1>1 DEF Sweeps, Asleep
<1> QED
  BY <1>1, <1>2, <1>3, <1>4 DEF Queue!Init

\* The pipeline keeps the promise of ReviewBallot.  The status a decision tests may be old,
\* but it is one the item had, and the lock that was taken after it lasts to the commit.
THEOREM PipelineKeepsTheBallot == Spec => KeepsTheBallot
<1>1. Init => BallotInv
  BY InitTypes, RowsInit, LockInit, HoldingsFirst DEF BallotInv, RowsInv
<1>2. BallotInv /\ [Next]_vars => BallotInv'
  BY StepKeepsTypes, RowsStep, LockStep, HoldingsStep DEF BallotInv, RowsInv
<1>3. BallotInv /\ [Next]_vars => [Queue!Next]_Mapped
  BY StepRefinesBallot
<1> QED
  BY <1>1, <1>2, <1>3, InitRefinesBallot, PTL
  DEF Spec, KeepsTheBallot, Queue!Spec, Queue!ballotVars, Mapped
==============================================================================
