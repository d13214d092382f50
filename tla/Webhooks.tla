------------------------------ MODULE Webhooks ------------------------------
(***************************************************************************)
(* stripe_webhook (app/billing/webhooks.py): Stripe's events about the     *)
(* subscriptions of one tenant, delivered at least once and in any order   *)
(* to handlers that run at the same time, each in a transaction: it        *)
(* records the event, loads the tenant, and commits what it changed in it. *)
(* Dates that no decision reads (period end, trial end) are left out, and  *)
(* with them the events that set nothing else.                             *)
(***************************************************************************)
EXTENDS Integers, Sequences, FiniteSets

CONSTANTS
    Handlers,    \* deliveries in progress at the same time
    Customers,   \* the Stripe customers that checkouts make for the tenant
    NoCustomer,  \* stripe_customer_id IS NULL
    PaidPlans,   \* the plans with a price in PRICE_IDS
    MaxEvents    \* bound: Stripe sends so many events

VARIABLES
    subscription,  \* subscription[c]: what Stripe says of customer c
    buyer,         \* the customer of the latest checkout
    sent,          \* Stripe's events, in the order they happened
    tenant,        \* the tenant's row: its billing columns
    recorded,      \* the events with a WebhookEvent row
    hook,          \* hook[h]: the delivery that h handles
    applied,       \* history: applied[i] counts the commits of event i
    orderly        \* history: so far no delivery overlapped or overtook another,
                   \* and Stripe answered each question

stripe == <<subscription, buyer, sent>>
webhooks == <<subscription, buyer, sent, tenant, recorded, hook, applied, orderly>>

Plans == PaidPlans \cup {"free"}

ASSUME WebhooksAssumption ==
    /\ NoCustomer \notin Customers
    /\ "pro" \in PaidPlans /\ "free" \notin PaidPlans
    /\ MaxEvents \in Nat

Subscription == [plan : Plans,
                 status : {"none", "trialing", "active", "past_due", "canceled"},
                 failures : Nat]

Event == [kind : {"checkout", "updated", "deleted", "paid", "failed"},
          customer : Customers, plan : Plans,
          status : {"trialing", "active", "past_due", "canceled"}, attempt : Nat]

Row == [customer : Customers \cup {NoCustomer}, plan : Plans,
        status : {"none", "trialing", "active", "past_due", "canceled"}]

\* loaded: the row as the handler read it; new: as its objects hold it.
Hook == [open : BOOLEAN, event : Nat, loaded : Row, new : Row]

NewRow == [customer |-> NoCustomer, plan |-> "free", status |-> "none"]

Closed == [open |-> FALSE, event |-> 0, loaded |-> NewRow, new |-> NewRow]

WebhooksTypeOK ==
    /\ subscription \in [Customers -> Subscription]
    /\ buyer \in Customers \cup {NoCustomer}
    /\ sent \in Seq(Event)
    /\ tenant \in Row
    /\ recorded \subseteq DOMAIN sent
    /\ hook \in [Handlers -> Hook]
    /\ \A h \in Handlers : hook[h].open => hook[h].event \in DOMAIN sent
    /\ applied \in [1..MaxEvents -> Nat]
    /\ orderly \in BOOLEAN

WebhooksInit ==
    /\ subscription = [c \in Customers |-> [plan |-> "free", status |-> "none", failures |-> 0]]
    /\ buyer = NoCustomer
    /\ sent = << >>
    /\ tenant = NewRow
    /\ recorded = {}
    /\ hook = [h \in Handlers |-> Closed]
    /\ applied = [i \in 1..MaxEvents |-> 0]
    /\ orderly = TRUE

----------------------------------------------------------------------------
(* Stripe.                                                                 *)

\* Customer c's subscription becomes s, and Stripe sends an event of each kind.
Tells(c, s, kinds) ==
    /\ Len(sent) + Len(kinds) <= MaxEvents
    /\ subscription' = [subscription EXCEPT ![c] = s]
    /\ sent' = sent \o [k \in DOMAIN kinds |->
                          [kind |-> kinds[k], customer |-> c, plan |-> s.plan,
                           status |-> s.status, attempt |-> s.failures]]
    /\ UNCHANGED <<tenant, recorded, hook, applied, orderly>>

\* A checkout gives the customer's e-mail and no customer: each makes a new one, and its
\* subscription starts with a trial (trial_period_days).
Subscribe(c, plan) ==
    /\ subscription[c].status = "none"
    /\ Tells(c, [plan |-> plan, status |-> "trialing", failures |-> 0], <<"checkout">>)
    /\ buyer' = c

\* The trial is over; the first invoice is still to be paid.
TrialEnds(c) ==
    /\ subscription[c].status = "trialing"
    /\ Tells(c, [subscription[c] EXCEPT !.status = "active"], <<"updated">>)
    /\ UNCHANGED buyer

ChangePlan(c, plan) ==
    /\ subscription[c].status \in {"trialing", "active"}
    /\ Tells(c, [subscription[c] EXCEPT !.plan = plan], <<"updated">>)
    /\ UNCHANGED buyer

\* The first failure makes the subscription past due, which is an update.
PaymentFails(c) ==
    /\ subscription[c].status \in {"active", "past_due"}
    /\ Tells(c, [subscription[c] EXCEPT !.status = "past_due", !.failures = @ + 1],
             IF subscription[c].status = "active" THEN <<"failed", "updated">>
             ELSE <<"failed">>)
    /\ UNCHANGED buyer

PaymentSucceeds(c) ==
    /\ subscription[c].status = "past_due"
    /\ Tells(c, [subscription[c] EXCEPT !.status = "active", !.failures = 0],
             <<"paid", "updated">>)
    /\ UNCHANGED buyer

Cancel(c) ==
    /\ subscription[c].status \in {"trialing", "active", "past_due"}
    /\ Tells(c, [subscription[c] EXCEPT !.status = "canceled"], <<"deleted">>)
    /\ UNCHANGED buyer

----------------------------------------------------------------------------
(* The handlers.                                                           *)

\* Mutant: the suffix of the name in PRICE_IDS is kept.
SuffixedPlan(c, answers) == IF answers THEN "pro_monthly" ELSE "pro"

\* A price of PRICE_IDS, or "pro" when the subscription cannot be retrieved: the
\* plan that Stripe has now, not the one it had at the event.
CheckoutPlan(c, answers) == IF answers THEN subscription[c].plan ELSE "pro"

\* Mutant: a checkout does not keep the customer.
ForgetsCustomer(e, row, answers) ==
    IF e.kind = "checkout"
    THEN [row EXCEPT !.plan = CheckoutPlan(e.customer, answers), !.status = "active"]
    ELSE row

\* Mutant: one attempt too late.
FourthAttempt(e) == e.attempt > 3

GivesUp(e) == e.attempt >= 3

\* The row as the handler of event e leaves it.  A checkout names the tenant; any
\* other event is about a tenant only while it has that customer.
Handled(e, row, answers) ==
    IF e.kind = "checkout"
    THEN [customer |-> e.customer, status |-> "active",
          plan |-> CheckoutPlan(e.customer, answers)]
    ELSE IF row.customer # e.customer THEN row
    ELSE CASE e.kind = "updated" -> [row EXCEPT !.plan = e.plan, !.status = e.status]
           [] e.kind = "deleted" \/ (e.kind = "failed" /\ GivesUp(e)) ->
                 [row EXCEPT !.plan = "free", !.status = "canceled"]
           [] e.kind = "failed" /\ ~GivesUp(e) -> [row EXCEPT !.status = "past_due"]
           [] e.kind = "paid" ->
                 [row EXCEPT !.status = IF @ = "past_due" THEN "active" ELSE @]

\* Mutant: no unique row stands for the event.
NoGate(i) == TRUE

\* The insert of event_id fails on a committed row, and waits for an uncommitted one.
PassesGate(i) ==
    /\ i \notin recorded
    /\ \A h \in Handlers : hook[h].open => hook[h].event # i

Idle(h) == ~hook[h].open

Receive(h, i) ==
    /\ Idle(h)
    /\ i \in DOMAIN sent
    /\ PassesGate(i)
    /\ \E answers \in BOOLEAN :
          /\ answers \/ sent[i].kind = "checkout"
          /\ hook' = [hook EXCEPT ![h] = [open |-> TRUE, event |-> i, loaded |-> tenant,
                                          new |-> Handled(sent[i], tenant, answers)]]
          /\ orderly' = (/\ orderly /\ answers
                         /\ recorded = 1..(i - 1)
                         /\ \A g \in Handlers : Idle(g))
    /\ UNCHANGED <<subscription, buyer, sent, tenant, recorded, applied>>

\* An UPDATE names the columns that changed since the row was loaded.
Written(new, loaded, row) ==
    [f \in DOMAIN row |-> IF new[f] # loaded[f] THEN new[f] ELSE row[f]]

Commit(h) ==
    /\ hook[h].open
    /\ tenant' = Written(hook[h].new, hook[h].loaded, tenant)
    /\ recorded' = recorded \cup {hook[h].event}
    /\ applied' = [applied EXCEPT ![hook[h].event] = @ + 1]
    /\ hook' = [hook EXCEPT ![h] = Closed]
    /\ UNCHANGED <<subscription, buyer, sent, orderly>>

\* An exception or the end of the process rolls back, the event's row included.
RollBack(h) ==
    /\ hook[h].open
    /\ hook' = [hook EXCEPT ![h] = Closed]
    /\ UNCHANGED <<subscription, buyer, sent, tenant, recorded, applied, orderly>>

WebhooksNext ==
    \/ \E c \in Customers, plan \in PaidPlans : Subscribe(c, plan)
    \/ \E c \in Customers : TrialEnds(c)
    \/ \E c \in Customers, plan \in PaidPlans : ChangePlan(c, plan)
    \/ \E c \in Customers : PaymentFails(c)
    \/ \E c \in Customers : PaymentSucceeds(c)
    \/ \E c \in Customers : Cancel(c)
    \/ \E h \in Handlers, i \in 1..MaxEvents : Receive(h, i)
    \/ \E h \in Handlers : Commit(h)
    \/ \E h \in Handlers : RollBack(h)

WebhooksSpec == WebhooksInit /\ [][WebhooksNext]_webhooks

----------------------------------------------------------------------------
\* Whatever Stripe sends twice, at once or later, is applied once: the row that
\* records an event commits with what the event did, and rolls back with it.
AppliedOnce ==
    \A i \in 1..MaxEvents : applied[i] = IF i \in recorded THEN 1 ELSE 0

\* The checkout says "active" of a subscription that is on trial, and the row keeps that
\* until Stripe's first update of the subscription.
Shown(c) ==
    IF \E i \in DOMAIN sent : sent[i].kind = "updated" /\ sent[i].customer = c
    THEN subscription[c].status ELSE "active"

\* What the row is when the tenant has heard of all that Stripe did.  The third failure
\* takes the plan away before Stripe cancels.
Mirror ==
    IF buyer = NoCustomer THEN NewRow
    ELSE LET s == subscription[buyer] IN
         IF s.status = "canceled" \/ s.failures >= 3
         THEN [customer |-> buyer, plan |-> "free", status |-> "canceled"]
         ELSE [customer |-> buyer, plan |-> s.plan, status |-> Shown(buyer)]

\* Events handled one after the other in Stripe's order leave the tenant with the plan
\* that Stripe has for its latest customer, and with its status, but for the trial that
\* shows as "active" until something is changed in it.
MirrorsStripe == orderly /\ recorded = DOMAIN sent => tenant = Mirror

\* In whatever order events come and overlap, a tenant with a paid plan, or about to
\* be written one, has a customer: the portal and every later event can find it.
PaidIsReachable ==
    /\ tenant.plan # "free" => tenant.customer # NoCustomer
    /\ \A h \in Handlers : hook[h].open /\ hook[h].new.plan # "free"
                              => hook[h].new.customer # NoCustomer
=============================================================================
