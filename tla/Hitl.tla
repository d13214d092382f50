-------------------------------- MODULE Hitl --------------------------------
(***************************************************************************)
(* The human-in-the-loop pipeline of the self-hosted backend: the proxy,   *)
(* the review queue with its SLA watchers and the incident routes over one *)
(* store, and what they promise together.                                  *)
(***************************************************************************)
EXTENDS ProxyHandler, ReviewService, IncidentDesk

vars == <<rows, locks, proxy, call, watcher, failures, desk>>

Init == StoreInit /\ ProxyInit /\ ReviewInit /\ DeskInit

Next ==
    \/ ProxyNext /\ UNCHANGED <<call, watcher, failures, desk>>
    \/ ReviewNext /\ UNCHANGED <<proxy, desk>>
    \/ DeskNext /\ UNCHANGED <<proxy, call, watcher, failures>>

Spec == Init /\ [][Next]_vars

(* Fairness.  A backend call runs to its end once it has started (the      *)
(* upstream client has a 60 s timeout), time passes, each watcher's loop   *)
(* runs every minute and PostgreSQL breaks deadlocks.  A row lock is       *)
(* granted in the order of its queue, so that nobody who waits for one is  *)
(* overtaken for ever: taking each lock is strongly fair.  Nobody has to   *)
(* send a request, decide an item or edit an incident.                     *)
Alone(A) == A /\ UNCHANGED <<proxy, desk>>

FairSpec ==
    /\ Spec
    /\ \A c \in Calls : WF_vars(Alone(CallStep(c))) /\ SF_vars(Alone(FlushDecision(c)))
    /\ \A w \in Watchers : WF_vars(Alone(WatcherStep(w)))
    /\ \A w \in Watchers, r \in Requests :
          /\ SF_vars(watcher[w].cur = r /\ Alone(TimeOutRequest(w)))
          /\ SF_vars(watcher[w].cur = r /\ Alone(TimeOutItem(w)))
    /\ \A r \in Requests : WF_vars(Alone(DeadlinePasses(r)))
    /\ WF_vars(Alone(BreakDeadlock))

----------------------------------------------------------------------------
\* Every variable holds what its declaration says.
TypeOK == StoreTypeOK /\ ProxyTypeOK /\ ReviewTypeOK /\ DeskTypeOK

\* The decide calls that got past the row lock and have not ended.
Deciding(c, r) ==
    /\ call[c].req = r
    /\ call[c].pc \in {"locked", "replayed", "flushed"}

\* An approval that got past the item's lock and its replay, whether or not it could
\* commit afterwards.
Approves(c, r) ==
    /\ call[c].req = r
    /\ call[c].decision = "approve"
    /\ call[c].pc \in {"replayed", "flushed", "committed", "undone"}

\* The upstream LLM sees a request only if the policy let it through on its score, or
\* an approval of it got to its replay: no other decision, time-out or failure sends it.
\* The approval need not be the last word: it may be undone, or be undoing another
\* reviewer's rejection (RejectIsPermanent).
ForwardedOnlyIfCleared ==
    \A r \in Requests :
        forwarded[r] > 0 => /\ score[r] < AutoBlock
                            /\ score[r] <= AutoAllow \/ \E c \in Calls : Approves(c, r)

\* A request the policy blocks on its score is never queued, never forwarded
\* and never shown as anything but blocked.
CriticalStaysBlocked ==
    \A r \in Requests :
        score[r] >= AutoBlock => /\ request[r] \in {"absent", "blocked"}
                                 /\ item[r] = "absent"
                                 /\ forwarded[r] = 0

\* FOR UPDATE: no two decide calls for one item are between their lock and
\* their commit at once, so two replays of one request never overlap.
DecisionsExclusive ==
    \A r \in Requests : \A c, d \in Calls :
        Deciding(c, r) /\ Deciding(d, r) => c = d

Entered(log, entry) == \E i \in 1..Len(log) : log[i] = entry

InLog(r, event, actor) == Entered(audit[r], <<event, actor>>)

\* A decided item's status has its event in the audit log, with the reviewer the
\* item's row names; a time-out's event has none.
Explained(r) ==
    CASE item[r] = "approved" -> InLog(r, "review.approved", reviewer[r])
      [] item[r] = "rejected" -> InLog(r, "review.rejected", reviewer[r])
      [] item[r] = "escalated" -> InLog(r, "review.escalated", reviewer[r])
      [] item[r] = "timed_out" -> InLog(r, "review.timed_out", NoTxn)
      [] OTHER -> TRUE

\* The audit log explains every decided item, through races, time-outs that
\* overwrite decisions and failures: rows and entry commit together.
AuditExplainsStatus == \A r \in Requests : Explained(r)

\* The entries of the log that a decision or a time-out wrote.
Decided(r) == {i \in 1..Len(audit[r]) : audit[r][i][1] \notin
                  {"request.queued", "request.blocked", "request.allowed", "response.blocked"}}

\* The request's row says what the item's row says, although each is loaded by a
\* statement of its own and written only where it differs from what was loaded.
\* (An approved request is blocked only by the output filter of its replay; a timed out
\* one is blocked whatever the policy's fallback says, see FallbackIsApplied.)
\* It takes three decisions that all got past the check to break it: a second
\* writer leaves the request's row alone only where the first one agreed.
ItemRequestAgree ==
    \A r \in Requests : Cardinality(Decided(r)) <= 2 =>
        CASE item[r] = "pending" -> request[r] = "queued_for_review"
          [] item[r] = "approved" -> request[r] \in {"allowed", "blocked"}
          [] item[r] \in {"rejected", "timed_out"} -> request[r] = "blocked"
          [] item[r] = "escalated" -> request[r] = "escalated"
          [] OTHER -> request[r] \in {"absent", "allowed", "blocked"}

\* Incident reports read resolved_at: it is set on every mitigated or closed
\* incident, whichever of the four writers of its columns got it there.
ResolvedIncidentsAreTimed ==
    \A r \in Requests :
        incident[r].status \in {"mitigated", "closed"} => incident[r].resolved

\* No writer, however stale its copy, loses the entry of the detection, and none
\* enters itself twice.
TimelineKeepsDetection ==
    \A r \in Requests : incident[r].status # "absent" =>
        /\ Len(incident[r].timeline) > 0
        /\ incident[r].timeline[1] = <<"detected", NoTxn>>
        /\ \A i, j \in 1..Len(incident[r].timeline) :
              incident[r].timeline[i] = incident[r].timeline[j] => i = j

\* An item never waits past its deadline for good: someone decides it or a
\* watcher times it out, through deadlocks and failed sweeps.
PendingItemsAreDecided ==
    \A r \in Requests : (item[r] = "pending") ~> (item[r] # "pending")

----------------------------------------------------------------------------
(* What makes them inductive.                                              *)

\* A transaction that is under way has a request to work on.
Targets ==
    /\ \A c \in Calls : call[c].pc # "idle" => call[c].req \in Requests
    /\ \A w \in Watchers : /\ watcher[w].pc \in {"wants_request", "wants_item"}
                                => watcher[w].cur \in watcher[w].todo
                           /\ watcher[w].todo \cup watcher[w].done \subseteq Requests
    /\ \A u \in Responders : desk[u].pc = "editing" => desk[u].req \in Requests

\* A decide call past its SELECT ... FOR UPDATE holds the item's row.
LockDiscipline == \A r \in Requests, c \in Calls : Deciding(c, r) => itemLock[r] = c

\* Nothing of a request shows before its handler commits; an item is there only
\* if the policy queued its request, and comes with an incident.
Routed ==
    \A r \in Requests :
        /\ proxy[r] # "done" => /\ request[r] = "absent"
                                /\ item[r] = "absent"
                                /\ incident[r] = NoIncident
        /\ proxy[r] = "forwarding" => score[r] < AutoBlock /\ score[r] <= AutoAllow
        /\ item[r] # "absent" => /\ score[r] < AutoBlock
                                 /\ incident[r].status # "absent"

\* Decide calls, sweeps and edits are about rows that are there.
OnRows ==
    /\ \A c \in Calls : call[c].pc # "idle" => item[call[c].req] # "absent"
    /\ \A w \in Watchers : \A r \in watcher[w].todo \cup watcher[w].done :
          item[r] # "absent"
    /\ \A u \in Responders :
          desk[u].pc = "editing" => /\ incident[desk[u].req].status # "absent"
                                    /\ desk[u].new.status # "absent"

\* A session's copy of an incident has a resolved_at only if the row has one, and
\* gives it one when it resolves or closes it.
CopiesTimed ==
    /\ \A c \in Calls : call[c].pc = "flushed" /\ call[c].incident.resolved
                            => incident[call[c].req].resolved
    /\ \A u \in Responders : desk[u].pc = "editing" =>
          /\ desk[u].seen.resolved => incident[desk[u].req].resolved /\ desk[u].new.resolved
          /\ desk[u].new.status \in {"mitigated", "closed"} \ {desk[u].seen.status}
                => desk[u].new.resolved

\* A timeline starts with the detection; a decide call or an edit that has not
\* committed has no entry in it.
Journalled(timeline) ==
    /\ Len(timeline) > 0
    /\ timeline[1] = <<"detected", NoTxn>>
    /\ \A i \in 1..Len(timeline) :
          \/ timeline[i][1] = "detected" /\ i = 1
          \/ \E c \in Calls : timeline[i] = <<"review", c>> /\ call[c].pc = "committed"
          \/ \E u \in Responders : /\ timeline[i][1] \notin {"detected", "review"}
                                   /\ timeline[i][2] = u
                                   /\ desk[u].pc = "saved"
    /\ \A i, j \in 1..Len(timeline) : timeline[i] = timeline[j] => i = j

TimelinesJournalled ==
    /\ \A r \in Requests : incident[r].status # "absent" => Journalled(incident[r].timeline)
    /\ \A c \in Calls : call[c].pc = "flushed" => Journalled(call[c].incident.timeline)
    /\ \A u \in Responders : desk[u].pc = "editing" =>
          /\ Journalled(desk[u].seen.timeline)
          /\ \E entry \in Entries \ {"detected", "review"} :
                desk[u].new.timeline = Append(desk[u].seen.timeline, <<entry, u>>)

\* Of a request that is no longer queued the loaded status is a decision's, and is the
\* row's as long as that decision is the only one.
Recent(r, seen) ==
    \/ seen = "queued_for_review"
    \/ /\ Cardinality(Decided(r)) >= 1
       /\ Cardinality(Decided(r)) = 1 => request[r] = seen

\* An item is decided once its log has a decision, and the statuses that calls and sweeps
\* loaded, and will compare with theirs when they flush, are recent.
StatusesRecent ==
    /\ \A r \in Requests : item[r] \in {"absent", "pending"} <=> Cardinality(Decided(r)) = 0
    /\ \A c \in Calls :
          /\ call[c].pc \in {"loaded", "locked", "replayed", "flushed"} =>
                Recent(call[c].req, call[c].request)
          /\ call[c].pc \in {"locked", "replayed", "flushed"} =>
                \/ call[c].verdict = VerdictOf(call[c].decision)
                \/ call[c].decision = "approve" /\ call[c].verdict = "blocked"
    /\ \A w \in Watchers :
          IF watcher[w].pc \in {"asleep", "loading"} THEN watcher[w].done = {}
          ELSE \A r \in watcher[w].todo \cup watcher[w].done : Recent(r, watcher[w].seen[r])

IInv == /\ TypeOK
        /\ Targets
        /\ LockDiscipline
        /\ Routed
        /\ OnRows
        /\ CopiesTimed
        /\ TimelinesJournalled
        /\ StatusesRecent

----------------------------------------------------------------------------
(* The pipeline implements the ballot.                                     *)

Route == [r \in Requests |-> CASE Critical(r) -> "block"
                               [] Suspicious(r) -> "review"
                               [] OTHER -> "pass"]

\* A call has a ballot from the time it loads an item that waits.
Voting(c) ==
    /\ call[c].pc \in {"loading", "loaded", "locked", "replayed", "flushed"}
    /\ call[c].item = "pending"

\* The upstream may have got the call's request.
Replayed(c) ==
    \/ call[c].pc = "replayed"
    \/ call[c].pc = "flushed" /\ ReplaysUpstream(c)

BallotOf(c) ==
    CASE Voting(c) -> [stage |-> IF Replayed(c) THEN "used" ELSE "open",
                       on |-> call[c].req, vote |-> call[c].decision]
      [] call[c].pc = "idle" -> [stage |-> "blank", on |-> NoRequest, vote |-> "none"]
      [] OTHER -> [stage |-> "over", on |-> NoRequest, vote |-> "none"]

BallotPapers == [c \in Calls |-> BallotOf(c)]

Sweeps == [w \in Watchers |-> watcher[w].todo \cup watcher[w].done]

Queue == INSTANCE ReviewBallot WITH
    Reviewers <- Calls, Clocks <- Watchers, route <- Route, outcome <- item,
    due <- overdue, sent <- forwarded, ballot <- BallotPapers, sweep <- Sweeps

\* An item is decided only by who found it waiting: a decision may undo another that was
\* made since, but an item that is decided (escalated, say) takes no new decision.  From
\* a replay to its decision nothing else decides, and nothing is replayed twice by a call.
KeepsTheBallot == Queue!Spec

----------------------------------------------------------------------------
(* What the repository says and the code does not keep.                    *)

\* docs/human-in-the-loop.md: "Reject - permanently block the request".
RejectIsPermanent ==
    [][\A r \in Requests : item[r] = "rejected" => request'[r] = "blocked"]_vars

\* models/policy.py: sla_fallback is "block | allow | escalate", and handle_sla_timeouts
\* says it will "apply the fallback action" to the items past their deadline.
FallbackIsApplied ==
    \A r \in Requests : item[r] = "timed_out" =>
        request[r] = CASE Fallback = "block" -> "blocked"
                       [] Fallback = "allow" -> "allowed"
                       [] OTHER -> "escalated"

\* models/incident.py: "Lifecycle: open -> investigating -> mitigated -> closed".
ClosedIsFinal ==
    [][\A r \in Requests : incident[r].status = "closed" => incident'[r].status = "closed"]_vars
============================================================================
