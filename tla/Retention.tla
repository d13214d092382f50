----------------------------- MODULE Retention -----------------------------
(***************************************************************************)
(* _retention_cleanup of backend/app/main.py against a reviewer who        *)
(* decides (apply_decision) and against changes of plan.  Both work in one *)
(* transaction: the reviewer locks the item, then its request; the cleanup *)
(* deletes the request, then by cascade its item.  Each tenant has one     *)
(* request, with its item and, once it is decided, one audit event.        *)
(***************************************************************************)
EXTENDS Integers, FiniteSets

CONSTANTS
    Subscribers,
    LastDay     \* bound: the days

VARIABLES
    now,        \* the day
    plan,       \* tenants.plan
    request,    \* request[t]: "none", its status, or "deleted"
    created,    \* created[t]: the day of the request
    event,      \* event[t]: the day of the audit event, or -1
    rowLock,    \* rowLock[row]: who holds the lock of an item's or a request's row
    cleanup,    \* where the cleanup is, the plans it loaded, what it still has to visit
    decide,     \* where the reviewer's call is, for which tenant, and the status it loaded
    answered,   \* history: the tenants whose decision was answered
    premature   \* history: the tenants that a cleanup took rows from before their time

retention ==
    <<now, plan, request, created, event, rowLock, cleanup, decide, answered, premature>>

ASSUME RetentionAssumption == LastDay \in Nat /\ Subscribers # {}

\* PLANS, in units of about 90 days: 0 stores nothing in the cloud, None is for ever.
Forever == -1
retention_days == [free |-> 0, pro |-> 1, business |-> 4, enterprise |-> Forever]
RetentionPlans == DOMAIN retention_days

Statuses == {"none", "queued", "allowed", "deleted"}
Rows == Subscribers \X {"item", "request"}

RetentionTypeOK ==
    /\ now \in 0..LastDay /\ plan \in [Subscribers -> RetentionPlans]
    /\ request \in [Subscribers -> Statuses] /\ created \in [Subscribers -> 0..LastDay]
    /\ event \in [Subscribers -> -1..LastDay]
    /\ rowLock \in [Rows -> {"free", "cleanup", "decide"}]
    /\ cleanup.step \in {"asleep", "next", "item"}
    /\ cleanup.plans \in [Subscribers -> RetentionPlans]
    /\ cleanup.left \subseteq Subscribers /\ cleanup.doomed \subseteq Subscribers
    /\ cleanup.events \subseteq Subscribers /\ cleanup.tenant \in Subscribers
    /\ decide.step \in {"idle", "asked", "locked", "replayed", "updated"}
    /\ decide.tenant \in Subscribers /\ decide.found \in Statuses
    /\ answered \subseteq Subscribers /\ premature \subseteq Subscribers

RetentionInit ==
    /\ now = 0 /\ plan \in [Subscribers -> RetentionPlans]
    /\ request = [t \in Subscribers |-> "none"] /\ created = [t \in Subscribers |-> 0]
    /\ event = [t \in Subscribers |-> -1]
    /\ rowLock = [r \in Rows |-> "free"]
    /\ \E t \in Subscribers :
        /\ cleanup = [step |-> "asleep", plans |-> plan, left |-> {}, doomed |-> {},
                      events |-> {}, tenant |-> t]
        /\ decide = [step |-> "idle", tenant |-> t, found |-> "none"]
    /\ answered = {} /\ premature = {}
----------------------------------------------------------------------------
Released(who) == [r \in Rows |-> IF rowLock[r] = who THEN "free" ELSE rowLock[r]]

NextDay ==
    /\ now < LastDay /\ now' = now + 1
    /\ UNCHANGED <<plan, request, created, event, rowLock, cleanup, decide, answered, premature>>

SwitchPlan(t, p) ==
    /\ plan' = [plan EXCEPT ![t] = p]
    /\ UNCHANGED <<now, request, created, event, rowLock, cleanup, decide, answered, premature>>

Queue(t) ==
    /\ request[t] = "none"
    /\ request' = [request EXCEPT ![t] = "queued"]
    /\ created' = [created EXCEPT ![t] = now]
    /\ UNCHANGED <<now, plan, event, rowLock, cleanup, decide, answered, premature>>
----------------------------------------------------------------------------
\* The tenants are loaded once, with the plans they have then.
WakeUp ==
    /\ cleanup.step = "asleep"
    /\ cleanup' = [cleanup EXCEPT !.step = "next", !.plans = plan, !.left = Subscribers]
    /\ UNCHANGED <<now, plan, request, created, event, rowLock, decide, answered, premature>>

\* Mutant: a plan that stores nothing has a cutoff of now.
OnlyForever(p) == retention_days[p] = Forever

Skipped(p) == retention_days[p] \in {0, Forever}

Expired(p, day) == now - day > retention_days[p]

\* A tenant without a cutoff, or none of whose rows is old enough.
Visit(t) ==
    /\ cleanup.step = "next" /\ t \in cleanup.left
    /\ LET p == cleanup.plans[t]
           old == request[t] \in {"queued", "allowed"} /\ Expired(p, created[t])
           oldEvent == event[t] # -1 /\ Expired(p, event[t])
       IN IF Skipped(p) \/ ~old
          THEN /\ cleanup' = [cleanup EXCEPT !.left = @ \ {t}, !.events =
                                IF ~Skipped(p) /\ oldEvent THEN @ \cup {t} ELSE @]
               /\ UNCHANGED rowLock
          ELSE /\ rowLock[<<t, "request">>] = "free"
               /\ rowLock' = [rowLock EXCEPT ![<<t, "request">>] = "cleanup"]
               /\ cleanup' = [cleanup EXCEPT !.step = "item", !.tenant = t]
    /\ UNCHANGED <<now, plan, request, created, event, decide, answered, premature>>

\* The cascade, then the audit events of the tenant.
Cascade ==
    LET t == cleanup.tenant
        oldEvent == event[t] # -1 /\ Expired(cleanup.plans[t], event[t])
    IN /\ cleanup.step = "item"
       /\ rowLock[<<t, "item">>] = "free"
       /\ rowLock' = [rowLock EXCEPT ![<<t, "item">>] = "cleanup"]
       /\ cleanup' = [cleanup EXCEPT !.step = "next", !.left = @ \ {t}, !.doomed = @ \cup {t},
                                     !.events = IF oldEvent THEN @ \cup {t} ELSE @]
       /\ UNCHANGED <<now, plan, request, created, event, decide, answered, premature>>

\* What the plan keeps a row for, said apart from how the cleanup computes it.
TooSoon(p, day) == retention_days[p] <= 0 \/ now <= day + retention_days[p]

\* One commit for all tenants.
CommitCleanup ==
    /\ cleanup.step = "next" /\ cleanup.left = {}
    /\ request' = [t \in Subscribers |->
                        IF t \in cleanup.doomed THEN "deleted" ELSE request[t]]
    /\ event' = [t \in Subscribers |-> IF t \in cleanup.events THEN -1 ELSE event[t]]
    /\ premature' = premature
            \cup {t \in cleanup.doomed : TooSoon(cleanup.plans[t], created[t])}
            \cup {t \in cleanup.events : TooSoon(cleanup.plans[t], event[t])}
    /\ rowLock' = Released("cleanup")
    /\ cleanup' = [cleanup EXCEPT !.step = "asleep", !.doomed = {}, !.events = {}]
    /\ UNCHANGED <<now, plan, created, decide, answered>>

\* An exception, or the database's choice in a deadlock: all of it is rolled back.
AbortCleanup ==
    /\ cleanup.step # "asleep"
    /\ rowLock' = Released("cleanup")
    /\ cleanup' = [cleanup EXCEPT !.step = "asleep", !.left = {}, !.doomed = {}, !.events = {}]
    /\ UNCHANGED <<now, plan, request, created, event, decide, answered, premature>>
----------------------------------------------------------------------------
\* The route loads the item, and refuses one that is not there.
Ask(t) ==
    /\ decide.step = "idle"
    /\ request[t] \in {"queued", "allowed"}
    /\ decide' = [step |-> "asked", tenant |-> t, found |-> request[t]]
    /\ UNCHANGED <<now, plan, request, created, event, rowLock, cleanup, answered, premature>>

\* SELECT ... FOR UPDATE finds no row when the item is gone by now; of one that is there
\* the session keeps the status it has loaded (ReviewService).
LockItem ==
    LET t == decide.tenant IN
    /\ decide.step = "asked"
    /\ rowLock[<<t, "item">>] = "free"
    /\ IF decide.found = "queued" /\ request[t] # "deleted"
       THEN /\ rowLock' = [rowLock EXCEPT ![<<t, "item">>] = "decide"]
            /\ decide' = [decide EXCEPT !.step = "locked"]
       ELSE decide' = [decide EXCEPT !.step = "idle"] /\ UNCHANGED rowLock
    /\ UNCHANGED <<now, plan, request, created, event, cleanup, answered, premature>>

\* The upstream is called while the item is locked.
Replay ==
    /\ decide.step = "locked"
    /\ decide' = [decide EXCEPT !.step = "replayed"]
    /\ UNCHANGED <<now, plan, request, created, event, rowLock, cleanup, answered, premature>>

UpdateRequest ==
    LET row == <<decide.tenant, "request">> IN
    /\ decide.step = "replayed"
    /\ rowLock[row] = "free"
    /\ rowLock' = [rowLock EXCEPT ![row] = "decide"]
    /\ decide' = [decide EXCEPT !.step = "updated"]
    /\ UNCHANGED <<now, plan, request, created, event, cleanup, answered, premature>>

CommitDecision ==
    LET t == decide.tenant IN
    /\ decide.step = "updated"
    /\ request' = [request EXCEPT ![t] = "allowed"]
    /\ event' = [event EXCEPT ![t] = now]
    /\ answered' = answered \cup {t}
    /\ rowLock' = Released("decide")
    /\ decide' = [decide EXCEPT !.step = "idle"]
    /\ UNCHANGED <<now, plan, created, cleanup, premature>>

AbortDecision ==
    /\ decide.step \in {"locked", "replayed", "updated"}
    /\ rowLock' = Released("decide")
    /\ decide' = [decide EXCEPT !.step = "idle"]
    /\ UNCHANGED <<now, plan, request, created, event, cleanup, answered, premature>>

RetentionNext ==
    \/ NextDay
    \/ \E t \in Subscribers, p \in RetentionPlans : SwitchPlan(t, p)
    \/ \E t \in Subscribers : Queue(t) \/ Visit(t) \/ Ask(t)
    \/ WakeUp \/ Cascade \/ CommitCleanup \/ AbortCleanup
    \/ LockItem \/ Replay \/ UpdateRequest \/ CommitDecision \/ AbortDecision

RetentionSpec == RetentionInit /\ [][RetentionNext]_retention
----------------------------------------------------------------------------
\* A cleanup that races with decisions and changes of plan deletes only what is older
\* than the plan kept it when the cleanup began, and nothing of a plan that keeps nothing
\* or everything; a decision that was answered is in the rows until they expire, and its
\* audit event is there for as long as its request is.
RetentionIsKept ==
    /\ premature = {}
    /\ \A t \in answered : /\ request[t] \in {"allowed", "deleted"}
                          /\ request[t] = "allowed" => event[t] # -1
=============================================================================
