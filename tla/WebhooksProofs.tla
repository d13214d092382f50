--------------------------- MODULE WebhooksProofs ---------------------------
(***************************************************************************)
(* Theorems about Webhooks, for any handlers, customers, plans and number  *)
(* of events: its types, each event is applied once, a tenant with a paid  *)
(* plan has a customer, and a tenant that heard of all in order mirrors    *)
(* Stripe.                                                                 *)
(***************************************************************************)
EXTENDS Webhooks, SequenceTheorems, TLAPS

Kinds == {"checkout", "updated", "deleted", "paid", "failed"}
KindLists == {<<"checkout">>, <<"updated">>, <<"deleted">>, <<"failed">>,
              <<"failed", "updated">>, <<"paid", "updated">>}
Told == [plan : Plans, status : {"trialing", "active", "past_due", "canceled"}, failures : Nat]

----------------------------------------------------------------------------
(* Types.                                                                  *)

LEMMA RowTypes == NewRow \in Row /\ Closed \in Hook
  BY DEF NewRow, Row, Closed, Hook, Plans

LEMMA TypesFirst ==
    ASSUME WebhooksInit
    PROVE  WebhooksTypeOK
  BY RowTypes DEF WebhooksInit, WebhooksTypeOK, Subscription, Plans, Closed

LEMMA EventsTypes ==
    ASSUME NEW c \in Customers, NEW s \in Told, NEW kinds \in KindLists
    PROVE  [k \in DOMAIN kinds |-> [kind |-> kinds[k], customer |-> c, plan |-> s.plan,
                                    status |-> s.status, attempt |-> s.failures]]
              \in Seq(Event)
<1>1. ASSUME NEW k \in DOMAIN kinds
      PROVE  kinds[k] \in Kinds
  BY <1>1 DEF KindLists, Kinds
<1>2. Len(kinds) \in Nat /\ DOMAIN kinds = 1..Len(kinds)
  BY DEF KindLists
<1>3. ASSUME NEW k \in DOMAIN kinds
      PROVE  [kind |-> kinds[k], customer |-> c, plan |-> s.plan, status |-> s.status,
              attempt |-> s.failures] \in Event
  BY <1>1, <1>3 DEF Event, Told, Kinds
<1> QED
  BY <1>2, <1>3

LEMMA TellsTypes ==
    ASSUME WebhooksTypeOK, NEW c \in Customers, NEW s \in Told, NEW kinds \in KindLists,
           Tells(c, s, kinds), buyer' \in Customers \cup {NoCustomer}
    PROVE  WebhooksTypeOK'
<1> DEFINE told == [k \in DOMAIN kinds |-> [kind |-> kinds[k], customer |-> c, plan |-> s.plan,
                                            status |-> s.status, attempt |-> s.failures]]
<1>1. told \in Seq(Event)
  BY EventsTypes
<1> HIDE DEF told
<1>2. sent' = sent \o told /\ sent \in Seq(Event)
  BY DEF Tells, WebhooksTypeOK, told
<1>3. sent' \in Seq(Event) /\ DOMAIN sent \subseteq DOMAIN sent'
  BY <1>1, <1>2
<1>4. s \in Subscription
  BY DEF Told, Subscription
<1>5. subscription' \in [Customers -> Subscription]
  BY <1>4 DEF Tells, WebhooksTypeOK
<1> QED
  BY <1>3, <1>5 DEF Tells, WebhooksTypeOK

LEMMA StripeTypes ==
    ASSUME WebhooksTypeOK, NEW c \in Customers,
           \/ \E plan \in PaidPlans : Subscribe(c, plan) \/ ChangePlan(c, plan)
           \/ TrialEnds(c) \/ PaymentFails(c) \/ PaymentSucceeds(c) \/ Cancel(c)
    PROVE  WebhooksTypeOK'
<1>1. subscription[c] \in Subscription /\ buyer \in Customers \cup {NoCustomer}
  BY DEF WebhooksTypeOK
<1>2. ASSUME NEW plan \in PaidPlans, Subscribe(c, plan)
      PROVE  WebhooksTypeOK'
  <2>1. [plan |-> plan, status |-> "trialing", failures |-> 0] \in Told
    BY DEF Told, Plans
  <2> QED
    BY <1>2, <2>1, TellsTypes DEF Subscribe, KindLists
<1>3. ASSUME NEW plan \in PaidPlans, ChangePlan(c, plan)
      PROVE  WebhooksTypeOK'
  <2>1. [subscription[c] EXCEPT !.plan = plan] \in Told
    BY <1>1, <1>3 DEF ChangePlan, Told, Subscription, Plans
  <2> QED
    BY <1>1, <1>3, <2>1, TellsTypes DEF ChangePlan, KindLists
<1>4. CASE PaymentFails(c)
  <2>1. [subscription[c] EXCEPT !.status = "past_due", !.failures = @ + 1] \in Told
    <3>1. subscription[c].failures + 1 \in Nat
      BY <1>1 DEF Subscription
    <3>2. \A failures \in Nat :
             [subscription[c] EXCEPT !.status = "past_due", !.failures = failures] \in Told
      BY <1>1 DEF Subscription, Told
    <3> QED
      BY <3>1, <3>2
  <2>2. <<"failed", "updated">> \in KindLists /\ <<"failed">> \in KindLists
    BY DEF KindLists
  <2>3. PICK kinds \in KindLists :
           Tells(c, [subscription[c] EXCEPT !.status = "past_due", !.failures = @ + 1], kinds)
    <3>1. CASE subscription[c].status = "active"
      BY <1>4, <2>2, <3>1 DEF PaymentFails
    <3>2. CASE subscription[c].status # "active"
      BY <1>4, <2>2, <3>2 DEF PaymentFails
    <3> QED
      BY <3>1, <3>2
  <2> QED
    BY <1>1, <1>4, <2>1, <2>3, TellsTypes DEF PaymentFails
<1>5. CASE PaymentSucceeds(c)
  <2>1. [subscription[c] EXCEPT !.status = "active", !.failures = 0] \in Told
    BY <1>1 DEF Told, Subscription
  <2> QED
    BY <1>1, <1>5, <2>1, TellsTypes DEF PaymentSucceeds, KindLists
<1>6. CASE Cancel(c)
  <2>1. [subscription[c] EXCEPT !.status = "canceled"] \in Told
    BY <1>1 DEF Told, Subscription
  <2> QED
    BY <1>1, <1>6, <2>1, TellsTypes DEF Cancel, KindLists
<1>7. CASE TrialEnds(c)
  <2>1. [subscription[c] EXCEPT !.status = "active"] \in Told
    BY <1>1 DEF Told, Subscription
  <2> QED
    BY <1>1, <1>7, <2>1, TellsTypes DEF TrialEnds, KindLists
<1> QED
  BY <1>2, <1>3, <1>4, <1>5, <1>6, <1>7

\* The row as an event leaves it.
LEMMA HandledTypes ==
    ASSUME WebhooksTypeOK, NEW e \in Event, NEW row \in Row, NEW answers \in BOOLEAN
    PROVE  Handled(e, row, answers) \in Row
<1>1. CheckoutPlan(e.customer, answers) \in Plans
  BY WebhooksAssumption DEF CheckoutPlan, WebhooksTypeOK, Subscription, Event, Plans
<1>2. CASE e.kind = "checkout"
  BY <1>1, <1>2 DEF Handled, Row, Event
<1>3. CASE e.kind # "checkout" /\ row.customer # e.customer
  BY <1>3 DEF Handled
<1>4. CASE e.kind # "checkout" /\ row.customer = e.customer
  <2>1. [row EXCEPT !.plan = e.plan, !.status = e.status] \in Row
    BY DEF Row, Event
  <2>2. [row EXCEPT !.plan = "free", !.status = "canceled"] \in Row
    BY DEF Row, Plans
  <2>3. [row EXCEPT !.status = "past_due"] \in Row
        /\ [row EXCEPT !.status = IF @ = "past_due" THEN "active" ELSE @] \in Row
    BY DEF Row
  <2>4. e.kind \in {"updated", "deleted", "paid", "failed"}
    BY <1>4 DEF Event
  <2> QED
    BY <1>4, <2>1, <2>2, <2>3, <2>4 DEF Handled
<1> QED
  BY <1>2, <1>3, <1>4

LEMMA WrittenTypes ==
    ASSUME NEW new \in Row, NEW loaded \in Row, NEW row \in Row
    PROVE  /\ Written(new, loaded, row) \in Row
           /\ Written(new, loaded, row).customer =
                 IF new.customer # loaded.customer THEN new.customer ELSE row.customer
           /\ Written(new, loaded, row).plan =
                 IF new.plan # loaded.plan THEN new.plan ELSE row.plan
  BY DEF Written, Row

LEMMA HandlerTypes ==
    ASSUME WebhooksTypeOK, NEW h \in Handlers,
           (\E i \in 1..MaxEvents : Receive(h, i)) \/ Commit(h) \/ RollBack(h)
    PROVE  WebhooksTypeOK'
<1> USE DEF WebhooksTypeOK
<1>1. ASSUME NEW i \in 1..MaxEvents, Receive(h, i)
      PROVE  WebhooksTypeOK'
  <2>1. PICK answers \in BOOLEAN :
           /\ hook' = [hook EXCEPT ![h] = [open |-> TRUE, event |-> i, loaded |-> tenant,
                                          new |-> Handled(sent[i], tenant, answers)]]
           /\ orderly' = (/\ orderly /\ answers
                          /\ recorded = 1..(i - 1)
                          /\ \A g \in Handlers : Idle(g))
    BY <1>1 DEF Receive
  <2>2. i \in DOMAIN sent /\ sent[i] \in Event
        /\ UNCHANGED <<subscription, buyer, sent, tenant, recorded, applied>>
    BY <1>1 DEF Receive
  <2>3. [open |-> TRUE, event |-> i, loaded |-> tenant,
         new |-> Handled(sent[i], tenant, answers)] \in Hook
    BY <2>2, HandledTypes DEF Hook
  <2>4. orderly' \in BOOLEAN
    BY <2>1
  <2>5. hook' \in [Handlers -> Hook]
        /\ \A g \in Handlers : hook'[g].open => hook'[g].event \in DOMAIN sent
    BY <2>1, <2>2, <2>3
  <2> QED
    BY <2>2, <2>4, <2>5
<1>2. CASE Commit(h)
  <2>1. hook[h] \in Hook /\ hook[h].open /\ hook[h].event \in DOMAIN sent
    BY <1>2 DEF Commit
  <2>2. tenant' \in Row
    BY <1>2, <2>1, WrittenTypes DEF Commit, Hook
  <2>3. hook' \in [Handlers -> Hook]
        /\ \A g \in Handlers : hook'[g].open => hook'[g].event \in DOMAIN sent
    BY <1>2, RowTypes DEF Commit, Closed
  <2>4. applied' \in [1..MaxEvents -> Nat]
    <3>1. applied' = [applied EXCEPT ![hook[h].event] = applied[hook[h].event] + 1]
      BY <1>2 DEF Commit
    <3>2. CASE hook[h].event \in 1..MaxEvents
      BY <3>1, <3>2
    <3>3. CASE hook[h].event \notin 1..MaxEvents
      BY <3>1, <3>3
    <3> QED
      BY <3>2, <3>3
  <2> QED
    BY <1>2, <2>1, <2>2, <2>3, <2>4 DEF Commit
<1>3. CASE RollBack(h)
  BY <1>3, RowTypes DEF RollBack, Closed
<1> QED
  BY <1>1, <1>2, <1>3

LEMMA WebhooksTypes ==
    ASSUME WebhooksTypeOK, [WebhooksNext]_webhooks
    PROVE  WebhooksTypeOK'
<1>1. CASE UNCHANGED webhooks
  BY <1>1 DEF webhooks, WebhooksTypeOK
<1> QED
  BY <1>1, StripeTypes, HandlerTypes DEF WebhooksNext

\* Rows, events and deliveries are of their types.
THEOREM WebhooksTypeCorrect == WebhooksSpec => []WebhooksTypeOK
  BY TypesFirst, WebhooksTypes, PTL DEF WebhooksSpec

----------------------------------------------------------------------------
(* Each event once.                                                        *)

\* The unique row of an event: a delivery in progress is of an event that is not
\* recorded, and of one that no other delivery handles.
OneAtATime ==
    /\ \A h \in Handlers : hook[h].open => hook[h].event \notin recorded
    /\ \A g, h \in Handlers :
          hook[g].open /\ hook[h].open /\ hook[g].event = hook[h].event => g = h

OnceInv == WebhooksTypeOK /\ OneAtATime /\ AppliedOnce

LEMMA OnceStep ==
    ASSUME OnceInv, [WebhooksNext]_webhooks
    PROVE  OneAtATime' /\ AppliedOnce'
<1> USE DEF OnceInv
<1>1. ASSUME UNCHANGED <<hook, recorded, applied>>
      PROVE  OneAtATime' /\ AppliedOnce'
  BY <1>1 DEF OneAtATime, AppliedOnce
<1>2. ASSUME NEW c \in Customers,
             \/ \E plan \in PaidPlans : Subscribe(c, plan) \/ ChangePlan(c, plan)
             \/ TrialEnds(c) \/ PaymentFails(c) \/ PaymentSucceeds(c) \/ Cancel(c)
      PROVE  OneAtATime' /\ AppliedOnce'
  BY <1>1, <1>2 DEF Subscribe, ChangePlan, TrialEnds, PaymentFails, PaymentSucceeds, Cancel, Tells
\* The gate lets in only an event that is neither recorded nor handled.
<1>3. ASSUME NEW h \in Handlers, NEW i \in 1..MaxEvents, Receive(h, i)
      PROVE  OneAtATime' /\ AppliedOnce'
  <2>1. /\ i \notin recorded
        /\ \A g \in Handlers : hook[g].open => hook[g].event # i
        /\ UNCHANGED <<recorded, applied>>
    BY <1>3 DEF Receive, PassesGate
  <2>2. \A g \in Handlers \ {h} : hook'[g] = hook[g]
    BY <1>3 DEF Receive, WebhooksTypeOK
  <2>3. hook'[h].event = i
    BY <1>3 DEF Receive, WebhooksTypeOK
  <2> QED
    BY <2>1, <2>2, <2>3 DEF OneAtATime, AppliedOnce
\* A commit records the event of this delivery, which no other handles.
<1>4. ASSUME NEW h \in Handlers, Commit(h)
      PROVE  OneAtATime' /\ AppliedOnce'
  <2>1. /\ hook[h].open /\ recorded' = recorded \cup {hook[h].event}
        /\ applied' = [applied EXCEPT ![hook[h].event] = @ + 1]
    BY <1>4 DEF Commit
  <2>2. ~hook'[h].open /\ \A g \in Handlers \ {h} : hook'[g] = hook[g]
    BY <1>4 DEF Commit, WebhooksTypeOK, Closed
  <2>3. hook[h].event \notin recorded
    BY <2>1 DEF OneAtATime
  <2>4. AppliedOnce'
    BY <2>1, <2>3 DEF AppliedOnce, WebhooksTypeOK
  <2> QED
    BY <2>1, <2>2, <2>4 DEF OneAtATime
<1>5. ASSUME NEW h \in Handlers, RollBack(h)
      PROVE  OneAtATime' /\ AppliedOnce'
  <2>1. ~hook'[h].open /\ \A g \in Handlers \ {h} : hook'[g] = hook[g]
    BY <1>5 DEF RollBack, WebhooksTypeOK, Closed
  <2> QED
    BY <1>5, <2>1 DEF RollBack, OneAtATime, AppliedOnce
<1> QED
  BY <1>1, <1>2, <1>3, <1>4, <1>5 DEF WebhooksNext, webhooks

\* webhooks.py: whatever Stripe delivers twice, at once or later, is applied once, for
\* any number of handlers and events.
THEOREM EventsAreAppliedOnce == WebhooksSpec => []AppliedOnce
<1>1. WebhooksInit => OneAtATime /\ AppliedOnce
  BY DEF WebhooksInit, Closed, OneAtATime, AppliedOnce
<1>2. OnceInv => AppliedOnce
  BY DEF OnceInv
<1> QED
  BY <1>1, <1>2, TypesFirst, WebhooksTypes, OnceStep, PTL DEF WebhooksSpec, OnceInv

----------------------------------------------------------------------------
(* A paid plan has a customer.                                             *)

\* A row that was read with a customer stays one with a customer, and what a delivery
\* made of it is one: with this PaidIsReachable survives the merge of stale rows.
CustomersStay ==
    \A h \in Handlers : hook[h].open /\ hook[h].loaded.customer # NoCustomer =>
        tenant.customer # NoCustomer /\ hook[h].new.customer # NoCustomer

ReachInv == WebhooksTypeOK /\ CustomersStay /\ PaidIsReachable

\* What an event makes of a row that is reachable if it is paid for.
LEMMA HandledReaches ==
    ASSUME WebhooksTypeOK, NEW e \in Event, NEW row \in Row, NEW answers \in BOOLEAN,
           row.plan # "free" => row.customer # NoCustomer
    PROVE  LET new == Handled(e, row, answers) IN
           /\ row.customer # NoCustomer => new.customer # NoCustomer
           /\ new.plan # "free" => new.customer # NoCustomer
<1>1. e.customer # NoCustomer
  BY WebhooksAssumption DEF Event
<1>2. CASE e.kind = "checkout"
  BY <1>1, <1>2 DEF Handled
<1>3. CASE e.kind # "checkout" /\ row.customer # e.customer
  BY <1>3 DEF Handled
<1>4. CASE e.kind # "checkout" /\ row.customer = e.customer
  <2>1. e.kind \in {"updated", "deleted", "paid", "failed"}
    BY <1>4 DEF Event
  <2>2. Handled(e, row, answers).customer = row.customer
    BY <1>4, <2>1 DEF Handled, Row
  <2> QED
    BY <1>1, <1>4, <2>2
<1> QED
  BY <1>2, <1>3, <1>4

LEMMA ReachStep ==
    ASSUME ReachInv, [WebhooksNext]_webhooks
    PROVE  CustomersStay' /\ PaidIsReachable'
<1> USE DEF ReachInv, CustomersStay, PaidIsReachable
<1>1. ASSUME UNCHANGED <<hook, tenant>>
      PROVE  CustomersStay' /\ PaidIsReachable'
  BY <1>1
<1>2. ASSUME NEW c \in Customers,
             \/ \E plan \in PaidPlans : Subscribe(c, plan) \/ ChangePlan(c, plan)
             \/ TrialEnds(c) \/ PaymentFails(c) \/ PaymentSucceeds(c) \/ Cancel(c)
      PROVE  CustomersStay' /\ PaidIsReachable'
  BY <1>1, <1>2 DEF Subscribe, ChangePlan, TrialEnds, PaymentFails, PaymentSucceeds, Cancel, Tells
<1>3. ASSUME NEW h \in Handlers, NEW i \in 1..MaxEvents, Receive(h, i)
      PROVE  CustomersStay' /\ PaidIsReachable'
  <2>1. PICK answers \in BOOLEAN :
           hook' = [hook EXCEPT ![h] = [open |-> TRUE, event |-> i, loaded |-> tenant,
                                        new |-> Handled(sent[i], tenant, answers)]]
    BY <1>3 DEF Receive
  <2>2. tenant' = tenant /\ sent[i] \in Event /\ tenant \in Row
    BY <1>3 DEF Receive, WebhooksTypeOK
  <2>3. /\ tenant.customer # NoCustomer
              => Handled(sent[i], tenant, answers).customer # NoCustomer
        /\ Handled(sent[i], tenant, answers).plan # "free"
              => Handled(sent[i], tenant, answers).customer # NoCustomer
    BY <2>2, HandledReaches
  <2>4. /\ hook'[h].loaded = tenant
        /\ hook'[h].new = Handled(sent[i], tenant, answers)
        /\ \A g \in Handlers \ {h} : hook'[g] = hook[g]
    BY <2>1 DEF WebhooksTypeOK
  <2> QED
    BY <2>2, <2>3, <2>4
<1>4. ASSUME NEW h \in Handlers, Commit(h)
      PROVE  CustomersStay' /\ PaidIsReachable'
  <2>1. hook[h].open /\ hook[h].new \in Row /\ hook[h].loaded \in Row /\ tenant \in Row
        /\ tenant' = Written(hook[h].new, hook[h].loaded, tenant)
    BY <1>4 DEF Commit, WebhooksTypeOK, Hook
  <2>2. ~hook'[h].open /\ \A g \in Handlers \ {h} : hook'[g] = hook[g]
    BY <1>4 DEF Commit, WebhooksTypeOK, Closed
  <2>3. /\ tenant'.customer = IF hook[h].new.customer # hook[h].loaded.customer
                             THEN hook[h].new.customer ELSE tenant.customer
        /\ tenant'.plan = IF hook[h].new.plan # hook[h].loaded.plan
                         THEN hook[h].new.plan ELSE tenant.plan
    BY <2>1, WrittenTypes
  <2>4. tenant.customer # NoCustomer => tenant'.customer # NoCustomer
    BY <2>1, <2>3
  <2>5. tenant'.plan # "free" => tenant'.customer # NoCustomer
    BY <2>1, <2>3
  <2> QED
    BY <2>2, <2>4, <2>5
<1>5. ASSUME NEW h \in Handlers, RollBack(h)
      PROVE  CustomersStay' /\ PaidIsReachable'
  <2>1. ~hook'[h].open /\ \A g \in Handlers \ {h} : hook'[g] = hook[g]
    BY <1>5 DEF RollBack, WebhooksTypeOK, Closed
  <2> QED
    BY <1>5, <2>1 DEF RollBack
<1> QED
  BY <1>1, <1>2, <1>3, <1>4, <1>5 DEF WebhooksNext, webhooks

\* webhooks.py: in whatever order events come and overlap, a tenant with a paid plan has
\* a customer, for any number of handlers, customers and events.
THEOREM PaidTenantsAreReachable == WebhooksSpec => []PaidIsReachable
<1>1. WebhooksInit => CustomersStay /\ PaidIsReachable
  BY DEF WebhooksInit, NewRow, Closed, CustomersStay, PaidIsReachable
<1>2. ReachInv => PaidIsReachable
  BY DEF ReachInv
<1> QED
  BY <1>1, <1>2, TypesFirst, WebhooksTypes, ReachStep, PTL DEF WebhooksSpec, ReachInv
----------------------------------------------------------------------------
(* The tenant mirrors Stripe.                                              *)

\* Stripe says nothing of c between event i and event n, or updates it after event n.
QuietAfter(c, i, n) == \A j \in (i + 1)..n : sent[j].customer # c

UpdateAfter(c, n) ==
    \E j \in (n + 1)..Len(sent) : sent[j].customer = c /\ sent[j].kind = "updated"

\* What Stripe's events say: the latest of a customer its subscription, the others what it
\* was.  A payment, and a first failure, is followed by an update at once; a later failure
\* finds the subscription past due; a plan changes, and a trial ends, with an update.
SubscriptionsCount ==
    \A c \in Customers :
        /\ subscription[c].status \in {"trialing", "active"} => subscription[c].failures = 0
        /\ subscription[c].status = "past_due" => subscription[c].failures # 0
        /\ subscription[c].status # "none" => \E i \in 1..Len(sent) : sent[i].customer = c
        /\ subscription[c].status \in {"active", "past_due"} => UpdateAfter(c, 0)

Latest(i) ==
    LET e == sent[i] IN
    QuietAfter(e.customer, i, Len(sent)) =>
        /\ e.plan = subscription[e.customer].plan
        /\ e.status = subscription[e.customer].status
        /\ e.attempt = subscription[e.customer].failures

FirstOf(i) ==
    LET e == sent[i] IN
    e.kind = "checkout" =>
        /\ e.status = "trialing" /\ e.attempt = 0
        /\ \A h \in 1..(i - 1) : sent[h].customer # e.customer
        /\ UpdateAfter(e.customer, i) \/ e.plan = subscription[e.customer].plan

KindFits(i) ==
    LET e == sent[i] IN
    /\ e.kind = "updated" => e.attempt < 3 /\ e.status # "canceled"
    /\ e.kind = "deleted" => e.status = "canceled"
    /\ e.kind = "failed" => e.status = "past_due"
    /\ e.kind = "paid" => e.status = "active"

PairFits(i) ==
    LET e == sent[i] IN
    e.kind = "paid" \/ (e.kind = "failed" /\ e.attempt = 1) =>
        i < Len(sent) /\ sent[i + 1].customer = e.customer /\ sent[i + 1].kind = "updated"

FailureFits(i) ==
    LET e == sent[i] IN
    e.kind = "failed" /\ e.attempt # 1 =>
        \A h \in 1..(i - 1) :
            sent[h].customer = e.customer /\ QuietAfter(e.customer, h, i - 1) =>
                /\ sent[h].plan = e.plan /\ sent[h].status = "past_due"
                /\ e.attempt = sent[h].attempt + 1

EventsFit ==
    \A i \in 1..Len(sent) :
        /\ subscription[sent[i].customer].status # "none"
        /\ Latest(i) /\ FirstOf(i) /\ KindFits(i) /\ PairFits(i) /\ FailureFits(i)

BuyerFits ==
    /\ buyer = NoCustomer => sent = << >>
    /\ buyer # NoCustomer =>
          \E k \in 1..Len(sent) :
              /\ sent[k].kind = "checkout" /\ sent[k].customer = buyer
              /\ \A j \in (k + 1)..Len(sent) : sent[j].kind # "checkout"

StripeInv == WebhooksTypeOK /\ SubscriptionsCount /\ EventsFit /\ BuyerFits

\* The row that event e describes; a checkout, of a trial, describes it as active.
RowOf(e) ==
    IF e.status = "canceled" \/ e.attempt >= 3
    THEN [customer |-> e.customer, plan |-> "free", status |-> "canceled"]
    ELSE [customer |-> e.customer, plan |-> e.plan,
          status |-> IF e.kind = "checkout" THEN "active" ELSE e.status]

\* A row that the first n events were applied to in their order: from the buyer's checkout on
\* it is the buyer's, and what the buyer's latest event describes unless an update is to come.
RowFits(r, n) ==
    \A k \in 1..n : sent[k].kind = "checkout" /\ sent[k].customer = buyer =>
        /\ r.customer = buyer
        /\ \/ UpdateAfter(buyer, n)
           \/ \E i \in k..n : /\ sent[i].customer = buyer /\ QuietAfter(buyer, i, n)
                              /\ r = RowOf(sent[i])

\* While the deliveries come in order, the first n events are recorded and were applied, and
\* one handler at most applies the next.
Applied(n) ==
    /\ recorded = 1..n /\ RowFits(tenant, n)
    /\ n = 0 => tenant = NewRow
    /\ \A h \in Handlers : hook[h].open =>
          /\ hook[h].event = n + 1 /\ hook[h].loaded = tenant /\ RowFits(hook[h].new, n + 1)
          /\ \A g \in Handlers : hook[g].open => g = h

InOrder == orderly => \E n \in 0..Len(sent) : Applied(n)

MirrorInv == StripeInv /\ InOrder

\* Stripe's steps: the customer's subscription before and after, and the events' kinds.
Story(c, s, kinds) ==
    LET old == subscription[c] IN
    \/ old.status = "none" /\ s.status = "trialing" /\ s.failures = 0 /\ kinds = <<"checkout">>
          /\ buyer' = c
    \/ old.status \in {"trialing", "active"} /\ s.status \in {"trialing", "active"}
          /\ s.failures = 0 /\ kinds = <<"updated">> /\ buyer' = buyer
    \/ old.status = "active" /\ s.plan = old.plan /\ s.status = "past_due" /\ s.failures = 1
          /\ kinds = <<"failed", "updated">> /\ buyer' = buyer
    \/ old.status = "past_due" /\ s.plan = old.plan /\ s.status = "past_due"
          /\ s.failures = old.failures + 1 /\ kinds = <<"failed">> /\ buyer' = buyer
    \/ old.status = "past_due" /\ s.plan = old.plan /\ s.status = "active" /\ s.failures = 0
          /\ kinds = <<"paid", "updated">> /\ buyer' = buyer
    \/ old.status \in {"trialing", "active", "past_due"} /\ s.plan = old.plan
          /\ s.status = "canceled"
          /\ kinds = <<"deleted">> /\ buyer' = buyer

StripeStep(c) ==
    \/ \E plan \in PaidPlans : Subscribe(c, plan) \/ ChangePlan(c, plan)
    \/ TrialEnds(c) \/ PaymentFails(c) \/ PaymentSucceeds(c) \/ Cancel(c)

LEMMA StepsAreStories ==
    ASSUME StripeInv, NEW c \in Customers, StripeStep(c)
    PROVE  \E s \in Told, kinds \in KindLists : Tells(c, s, kinds) /\ Story(c, s, kinds)
<1>1. /\ subscription[c] \in Subscription
      /\ subscription[c].status \in {"trialing", "active"} => subscription[c].failures = 0
  BY DEF StripeInv, WebhooksTypeOK, SubscriptionsCount
<1>2. ASSUME NEW plan \in PaidPlans, Subscribe(c, plan)
      PROVE  \E s \in Told, kinds \in KindLists : Tells(c, s, kinds) /\ Story(c, s, kinds)
  <2>1. [plan |-> plan, status |-> "trialing", failures |-> 0] \in Told
    BY DEF Told, Plans
  <2> QED
    BY <1>2, <2>1 DEF Subscribe, KindLists, Story
<1>3. ASSUME NEW plan \in PaidPlans, ChangePlan(c, plan)
      PROVE  \E s \in Told, kinds \in KindLists : Tells(c, s, kinds) /\ Story(c, s, kinds)
  <2>1. PICK s : s = [subscription[c] EXCEPT !.plan = plan]
    OBVIOUS
  <2>2. s \in Told /\ s.status = subscription[c].status /\ s.failures = 0
    BY <1>1, <1>3, <2>1 DEF ChangePlan, Told, Subscription, Plans
  <2> QED
    BY <1>3, <2>1, <2>2 DEF ChangePlan, KindLists, Story
<1>4. CASE PaymentFails(c)
  <2>0. PICK f \in Nat : f = subscription[c].failures + 1
    BY <1>1 DEF Subscription
  <2>1. PICK s : s = [subscription[c] EXCEPT !.status = "past_due", !.failures = f]
    OBVIOUS
  <2>2. s \in Told /\ s.status = "past_due" /\ s.plan = subscription[c].plan /\ s.failures = f
    BY <1>1, <2>1 DEF Told, Subscription
  <2>3. /\ subscription[c].status \in {"active", "past_due"} /\ buyer' = buyer
        /\ Tells(c, s, IF subscription[c].status = "active" THEN <<"failed", "updated">>
                       ELSE <<"failed">>)
    BY <1>4, <2>0, <2>1 DEF PaymentFails
  <2>4. CASE subscription[c].status = "active"
    <3>1. f = 1 /\ Tells(c, s, <<"failed", "updated">>)
      BY <1>1, <2>0, <2>3, <2>4
    <3>2. Story(c, s, <<"failed", "updated">>)
      BY <2>2, <2>3, <2>4, <3>1 DEF Story
    <3> QED
      BY <2>2, <3>1, <3>2 DEF KindLists
  <2>5. CASE subscription[c].status = "past_due"
    <3>1. Tells(c, s, <<"failed">>)
      BY <2>3, <2>5
    <3>2. Story(c, s, <<"failed">>)
      BY <2>0, <2>2, <2>3, <2>5 DEF Story
    <3> QED
      BY <2>2, <3>1, <3>2 DEF KindLists
  <2> QED
    BY <2>3, <2>4, <2>5
<1>5. CASE PaymentSucceeds(c)
  <2>1. PICK s : s = [subscription[c] EXCEPT !.status = "active", !.failures = 0]
    OBVIOUS
  <2>2. s \in Told /\ s.status = "active" /\ s.plan = subscription[c].plan /\ s.failures = 0
    BY <1>1, <2>1 DEF Told, Subscription
  <2> QED
    BY <1>5, <2>1, <2>2 DEF PaymentSucceeds, KindLists, Story
<1>6. CASE Cancel(c)
  <2>1. PICK s : s = [subscription[c] EXCEPT !.status = "canceled"]
    OBVIOUS
  <2>2. s \in Told /\ s.status = "canceled" /\ s.plan = subscription[c].plan
    BY <1>1, <2>1 DEF Told, Subscription
  <2> QED
    BY <1>6, <2>1, <2>2 DEF Cancel, KindLists, Story
<1>7. CASE TrialEnds(c)
  <2>1. PICK s : s = [subscription[c] EXCEPT !.status = "active"]
    OBVIOUS
  <2>2. s \in Told /\ s.status = "active" /\ s.failures = 0
    BY <1>1, <1>7, <2>1 DEF TrialEnds, Told, Subscription
  <2> QED
    BY <1>7, <2>1, <2>2 DEF TrialEnds, KindLists, Story
<1> QED
  BY <1>2, <1>3, <1>4, <1>5, <1>6, <1>7 DEF StripeStep

\* The new events come after the others, and say what the subscription is.
Says(e, kind, c, s) ==
    /\ e.kind = kind /\ e.customer = c
    /\ e.plan = s.plan /\ e.status = s.status /\ e.attempt = s.failures

Adds(c, s, kinds) ==
    /\ Len(sent) \in Nat /\ Len(kinds) \in {1, 2} /\ Len(sent') = Len(sent) + Len(kinds)
    /\ \A i \in 1..Len(sent) : sent'[i] = sent[i]
    /\ Says(sent'[Len(sent) + 1], kinds[1], c, s)
    /\ Len(kinds) = 2 => Says(sent'[Len(sent) + 2], kinds[2], c, s)
    /\ subscription'[c] = s
    /\ \A d \in Customers : d # c => subscription'[d] = subscription[d]

LEMMA TellsAdds ==
    ASSUME WebhooksTypeOK, NEW c \in Customers, NEW s \in Told, NEW kinds \in KindLists,
           Tells(c, s, kinds)
    PROVE  Adds(c, s, kinds)
<1> DEFINE told == [k \in DOMAIN kinds |-> [kind |-> kinds[k], customer |-> c, plan |-> s.plan,
                                            status |-> s.status, attempt |-> s.failures]]
<1>1. Len(kinds) \in {1, 2} /\ DOMAIN kinds = 1..Len(kinds)
  BY DEF KindLists
<1>2. told \in Seq(Event) /\ Len(told) = Len(kinds)
  <2>1. told \in Seq(Event)
    BY EventsTypes
  <2>2. DOMAIN told = 1..Len(told) /\ DOMAIN told = 1..Len(kinds) /\ Len(told) \in Nat
    BY <1>1, <2>1
  <2> HIDE DEF told
  <2>3. ASSUME NEW a \in Nat, NEW b \in Nat, 1..a = 1..b
        PROVE  a = b
    <3>1. a = 0 \/ a \in 1..b
      BY <2>3
    <3>2. b = 0 \/ b \in 1..a
      BY <2>3
    <3> QED
      BY <2>3, <3>1, <3>2
  <2>4. Len(kinds) \in Nat
    BY <1>1
  <2>5. 1..Len(told) = 1..Len(kinds)
    BY <2>2, Zenon
  <2>6. Len(told) = Len(kinds)
    BY <2>2, <2>3, <2>4, <2>5, Zenon
  <2> QED
    BY <2>1, <2>6
<1>3. \A i \in 1..Len(kinds) : /\ told[i].customer = c /\ told[i].kind = kinds[i]
                              /\ told[i].plan = s.plan /\ told[i].status = s.status
                              /\ told[i].attempt = s.failures
  BY <1>1
<1>4. sent' = sent \o told /\ sent \in Seq(Event) /\ subscription' = [subscription EXCEPT ![c] = s]
  BY DEF Tells, WebhooksTypeOK
<1> HIDE DEF told
<1>5. /\ Len(sent') = Len(sent) + Len(kinds)
      /\ \A i \in 1..Len(sent) : sent'[i] = sent[i]
      /\ \A i \in (Len(sent) + 1)..(Len(sent) + Len(kinds)) : sent'[i] = told[i - Len(sent)]
  <2>1. /\ Len(sent') = Len(sent) + Len(told)
        /\ \A i \in 1..(Len(sent) + Len(told)) :
              sent'[i] = IF i <= Len(sent) THEN sent[i] ELSE told[i - Len(sent)]
    BY <1>2, <1>4, ConcatProperties
  <2>2. Len(sent) \in Nat /\ Len(kinds) \in Nat
    BY <1>1, <1>4
  <2> QED
    BY <1>2, <2>1, <2>2
<1>6. Says(sent'[Len(sent) + 1], kinds[1], c, s)
  <2>1. sent'[Len(sent) + 1] = told[1]
    BY <1>1, <1>4, <1>5
  <2> QED
    BY <1>1, <1>3, <2>1 DEF Says
<1>7. Len(kinds) = 2 => Says(sent'[Len(sent) + 2], kinds[2], c, s)
  <2>1. Len(kinds) = 2 => sent'[Len(sent) + 2] = told[2]
    BY <1>4, <1>5
  <2> QED
    BY <1>3, <2>1 DEF Says
<1> QED
  BY <1>1, <1>4, <1>5, <1>6, <1>7 DEF Adds, WebhooksTypeOK

LEMMA EventTypes ==
    ASSUME WebhooksTypeOK
    PROVE  /\ Len(sent) \in Nat /\ DOMAIN sent = 1..Len(sent)
           /\ \A i \in 1..Len(sent) : sent[i] \in Event
           /\ subscription \in [Customers -> Subscription]
  BY DEF WebhooksTypeOK

LEMMA NewEvents ==
    ASSUME NEW c \in Customers, NEW s \in Told, NEW kinds \in KindLists, Adds(c, s, kinds),
           NEW i \in 1..Len(sent')
    PROVE  \/ i \in 1..Len(sent) /\ sent'[i] = sent[i]
           \/ i = Len(sent) + 1 /\ Says(sent'[i], kinds[1], c, s)
           \/ i = Len(sent) + 2 /\ Len(kinds) = 2 /\ Says(sent'[i], kinds[2], c, s)
<1>1. CASE Len(kinds) = 1
  BY <1>1 DEF Adds
<1>2. CASE Len(kinds) = 2
  BY <1>2 DEF Adds
<1> QED
  BY <1>1, <1>2 DEF Adds

LEMMA UpdatesRemain ==
    ASSUME WebhooksTypeOK, NEW c \in Customers, NEW s \in Told, NEW kinds \in KindLists,
           Adds(c, s, kinds), NEW d, NEW n \in Nat, UpdateAfter(d, n)
    PROVE  UpdateAfter(d, n)'
<1>1. PICK j \in (n + 1)..Len(sent) : sent[j].customer = d /\ sent[j].kind = "updated"
  BY DEF UpdateAfter
<1>2. j \in (n + 1)..Len(sent') /\ sent'[j] = sent[j]
  BY <1>1 DEF Adds
<1> QED
  BY <1>1, <1>2 DEF UpdateAfter

LEMMA SubscriptionsStep ==
    ASSUME StripeInv, NEW c \in Customers, NEW s \in Told, NEW kinds \in KindLists,
           Story(c, s, kinds), Adds(c, s, kinds)
    PROVE  SubscriptionsCount'
<1>1. subscription[c] \in Subscription /\ Len(sent) \in Nat
  BY EventTypes DEF StripeInv
<1>2. /\ s.status \in {"trialing", "active"} => s.failures = 0
      /\ s.status = "past_due" => s.failures # 0
  BY <1>1 DEF Story, Subscription
<1>3. Len(sent) + 1 \in 1..Len(sent') /\ sent'[Len(sent) + 1].customer = c
  BY <1>1 DEF Adds, Says
<1> SUFFICES ASSUME NEW d \in Customers
             PROVE  /\ subscription'[d].status \in {"trialing", "active"} =>
                          subscription'[d].failures = 0
                    /\ subscription'[d].status = "past_due" => subscription'[d].failures # 0
                    /\ subscription'[d].status # "none" =>
                          \E i \in 1..Len(sent') : sent'[i].customer = d
                    /\ subscription'[d].status \in {"active", "past_due"} =>
                          UpdateAfter(d, 0)'
  BY DEF SubscriptionsCount
<1>4. CASE d = c
  <2>1. ASSUME s.status \in {"active", "past_due"}
        PROVE  UpdateAfter(c, 0)'
    <3>1. CASE subscription[c].status = "past_due"
      BY <3>1, UpdatesRemain DEF StripeInv, SubscriptionsCount
    <3>2. CASE subscription[c].status # "past_due"
      <4>1. kinds = <<"updated">> \/ kinds = <<"failed", "updated">>
        BY <2>1, <3>2 DEF Story
      <4>2. PICK i \in (0 + 1)..Len(sent') : Says(sent'[i], "updated", c, s)
        <5>1. CASE kinds = <<"updated">>
          BY <1>1, <5>1 DEF Adds
        <5>2. CASE kinds = <<"failed", "updated">>
          BY <1>1, <5>2 DEF Adds
        <5> QED
          BY <4>1, <5>1, <5>2
      <4> QED
        BY <4>2 DEF UpdateAfter, Says
    <3> QED
      BY <3>1, <3>2
  <2> QED
    BY <1>2, <1>3, <1>4, <2>1 DEF Adds
<1>5. CASE d # c
  <2>1. \A i \in 1..Len(sent) : i \in 1..Len(sent') /\ sent'[i] = sent[i]
    BY <1>1 DEF Adds
  <2>2. UpdateAfter(d, 0) => UpdateAfter(d, 0)'
    BY UpdatesRemain DEF StripeInv
  <2> QED
    BY <1>5, <2>1, <2>2 DEF Adds, StripeInv, SubscriptionsCount
<1> QED
  BY <1>4, <1>5

LEMMA LatestStep ==
    ASSUME StripeInv, NEW c \in Customers, NEW s \in Told, NEW kinds \in KindLists,
           Story(c, s, kinds), Adds(c, s, kinds), NEW i \in 1..Len(sent')
    PROVE  Latest(i)'
<1>1. Len(sent) \in Nat /\ \A j \in 1..Len(sent) : sent[j] \in Event
  BY EventTypes DEF StripeInv
<1>2. CASE i \in 1..Len(sent)
  <2>1. PICK d \in Customers : d = sent[i].customer
    BY <1>1, <1>2 DEF Event
  <2>2. sent'[i] = sent[i]
    BY <1>2 DEF Adds
  <2>3. CASE d = c
    <3>1. ~QuietAfter(d, i, Len(sent))'
      <4>1. Len(sent) + 1 \in (i + 1)..Len(sent')
        BY <1>1, <1>2 DEF Adds
      <4> QED
        BY <2>3, <4>1 DEF Adds, Says, QuietAfter
    <3> QED
      BY <2>1, <2>2, <3>1 DEF Latest
  <2>4. CASE d # c
    <3>1. QuietAfter(d, i, Len(sent))' => QuietAfter(d, i, Len(sent))
      <4>1. \A j \in (i + 1)..Len(sent) : j \in (i + 1)..Len(sent') /\ sent'[j] = sent[j]
        BY <1>1, <1>2 DEF Adds
      <4> QED
        BY <4>1 DEF QuietAfter
    <3>2. Latest(i)
      BY <1>2 DEF StripeInv, EventsFit
    <3>3. subscription'[d] = subscription[d]
      BY <2>4 DEF Adds
    <3> QED
      BY <2>1, <2>2, <3>1, <3>2, <3>3 DEF Latest
  <2> QED
    BY <2>3, <2>4
<1>3. CASE i \notin 1..Len(sent)
  <2>1. /\ sent'[i].customer = c /\ sent'[i].plan = s.plan
        /\ sent'[i].status = s.status /\ sent'[i].attempt = s.failures
    BY <1>3, NewEvents DEF Says
  <2> QED
    BY <2>1 DEF Latest, Adds
<1> QED
  BY <1>2, <1>3

\* No event is about a customer without a subscription.
LEMMA FirstStories ==
    ASSUME StripeInv, NEW c \in Customers, NEW s \in Told, NEW kinds \in KindLists,
           Story(c, s, kinds), Adds(c, s, kinds), kinds[1] = "checkout"
    PROVE  /\ s.status = "trialing" /\ s.failures = 0 /\ Len(kinds) = 1 /\ buyer' = c
           /\ \A h \in 1..Len(sent) : sent[h].customer # c
<1>1. /\ s.status = "trialing" /\ s.failures = 0 /\ Len(kinds) = 1 /\ buyer' = c
      /\ subscription[c].status = "none"
  BY DEF Story
<1> QED
  BY <1>1 DEF StripeInv, EventsFit

LEMMA FirstStep ==
    ASSUME StripeInv, NEW c \in Customers, NEW s \in Told, NEW kinds \in KindLists,
           Story(c, s, kinds), Adds(c, s, kinds), NEW i \in 1..Len(sent')
    PROVE  FirstOf(i)'
<1>1. Len(sent) \in Nat /\ \A j \in 1..Len(sent) : sent[j] \in Event
  BY EventTypes DEF StripeInv
<1>2. CASE i \in 1..Len(sent)
  <2>1. PICK d \in Customers : d = sent[i].customer
    BY <1>1, <1>2 DEF Event
  <2>2. sent'[i] = sent[i] /\ FirstOf(i) /\ subscription[d].status # "none"
    BY <1>2, <2>1 DEF Adds, StripeInv, EventsFit
  <2>3. \A h \in 1..(i - 1) : sent'[h] = sent[h]
    BY <1>1, <1>2 DEF Adds
  <2>4. ASSUME sent[i].kind = "checkout"
        PROVE  UpdateAfter(d, i)' \/ sent[i].plan = subscription'[d].plan
    <3>1. CASE UpdateAfter(d, i)
      BY <1>2, <3>1, UpdatesRemain DEF StripeInv
    <3>2. CASE sent[i].plan = subscription[d].plan /\ d # c
      BY <3>2 DEF Adds
    <3>3. CASE sent[i].plan = subscription[d].plan /\ d = c
      <4>1. CASE s.plan = subscription[c].plan
        BY <3>3, <4>1 DEF Adds
      <4>2. CASE kinds = <<"updated">>
        <5>1. Len(sent) + 1 \in (i + 1)..Len(sent')
          BY <1>1, <1>2 DEF Adds
        <5> QED
          BY <3>3, <4>2, <5>1 DEF Adds, Says, UpdateAfter
      <4> QED
        BY <2>2, <3>3, <4>1, <4>2 DEF Story
    <3> QED
      BY <2>1, <2>2, <2>4, <3>1, <3>2, <3>3 DEF FirstOf
  <2> QED
    BY <2>1, <2>2, <2>3, <2>4 DEF FirstOf
<1>3. CASE i \notin 1..Len(sent) /\ sent'[i].kind = "checkout"
  <2>1. kinds[1] = "checkout" /\ i = Len(sent) + 1 /\ Says(sent'[i], "checkout", c, s)
    BY <1>3, NewEvents DEF Says, KindLists
  <2>2. /\ s.status = "trialing" /\ s.failures = 0
        /\ \A h \in 1..Len(sent) : sent[h].customer # c
    BY <2>1, FirstStories
  <2>3. \A h \in 1..(i - 1) : h \in 1..Len(sent) /\ sent'[h] = sent[h]
    BY <1>1, <2>1 DEF Adds
  <2> QED
    BY <2>1, <2>2, <2>3 DEF FirstOf, Says, Adds
<1>4. CASE i \notin 1..Len(sent) /\ sent'[i].kind # "checkout"
  BY <1>4 DEF FirstOf
<1> QED
  BY <1>2, <1>3, <1>4

LEMMA KindStep ==
    ASSUME StripeInv, NEW c \in Customers, NEW s \in Told, NEW kinds \in KindLists,
           Story(c, s, kinds), Adds(c, s, kinds), NEW i \in 1..Len(sent')
    PROVE  KindFits(i)'
<1>1. CASE i \in 1..Len(sent)
  BY <1>1 DEF Adds, StripeInv, EventsFit, KindFits
<1>2. CASE i \notin 1..Len(sent)
  <2>0. Says(sent'[i], kinds[1], c, s) \/ (Len(kinds) = 2 /\ Says(sent'[i], kinds[2], c, s))
    BY <1>2, NewEvents
  <2>1. PICK kind : /\ kind = kinds[1] \/ (Len(kinds) = 2 /\ kind = kinds[2])
                    /\ Says(sent'[i], kind, c, s)
    BY <2>0, Zenon
  <2>2. \/ kind = "checkout"
        \/ kind = "updated" /\ s.failures \in {0, 1} /\ s.status # "canceled"
        \/ kind = "failed" /\ s.status = "past_due"
        \/ kind = "paid" /\ s.status = "active"
        \/ kind = "deleted" /\ s.status = "canceled"
    BY <2>1 DEF Story
  <2> QED
    BY <2>1, <2>2 DEF Says, KindFits
<1> QED
  BY <1>1, <1>2

LEMMA PairStep ==
    ASSUME StripeInv, NEW c \in Customers, NEW s \in Told, NEW kinds \in KindLists,
           Story(c, s, kinds), Adds(c, s, kinds), NEW i \in 1..Len(sent')
    PROVE  PairFits(i)'
<1>1. CASE i \in 1..Len(sent)
  <2>1. PairFits(i) /\ sent'[i] = sent[i]
    BY <1>1 DEF Adds, StripeInv, EventsFit
  <2>2. i < Len(sent) => sent'[i + 1] = sent[i + 1] /\ i < Len(sent')
    BY <1>1 DEF Adds
  <2> QED
    BY <2>1, <2>2 DEF PairFits
<1>2. CASE /\ i \notin 1..Len(sent)
           /\ sent'[i].kind = "paid" \/ (sent'[i].kind = "failed" /\ sent'[i].attempt = 1)
  <2>1. subscription[c] \in Subscription /\ (subscription[c].status = "past_due" =>
                                                subscription[c].failures # 0)
    BY EventTypes DEF StripeInv, SubscriptionsCount
  <2>2. i = Len(sent) + 1 /\ Says(sent'[i], kinds[1], c, s)
    BY <1>2, NewEvents DEF Says, KindLists
  <2>3. kinds = <<"failed", "updated">> \/ kinds = <<"paid", "updated">>
    BY <1>2, <2>1, <2>2 DEF Says, Story, Subscription
  <2>4. i < Len(sent') /\ Says(sent'[i + 1], "updated", c, s)
    BY <2>2, <2>3 DEF Adds
  <2> QED
    BY <2>2, <2>4 DEF PairFits, Says
<1> QED
  BY <1>1, <1>2 DEF PairFits

LEMMA FailureStep ==
    ASSUME StripeInv, NEW c \in Customers, NEW s \in Told, NEW kinds \in KindLists,
           Story(c, s, kinds), Adds(c, s, kinds), NEW i \in 1..Len(sent')
    PROVE  FailureFits(i)'
<1>0. Len(sent) \in Nat
  BY EventTypes DEF StripeInv
<1>1. CASE i \in 1..Len(sent)
  <2>1. FailureFits(i) /\ \A h \in 1..i : sent'[h] = sent[h]
    BY <1>0, <1>1 DEF Adds, StripeInv, EventsFit
  <2>2. ASSUME NEW h \in 1..(i - 1), NEW d
        PROVE  QuietAfter(d, h, i - 1)' => QuietAfter(d, h, i - 1)
    BY <1>0, <1>1, <2>1 DEF QuietAfter
  <2>3. i \in 1..i /\ \A h \in 1..(i - 1) : h \in 1..i
    BY <1>0, <1>1
  <2> QED
    BY <2>1, <2>2, <2>3 DEF FailureFits
<1>2. CASE i \notin 1..Len(sent) /\ sent'[i].kind = "failed" /\ sent'[i].attempt # 1
  <2>1. i = Len(sent) + 1 /\ Says(sent'[i], kinds[1], c, s)
    BY <1>2, NewEvents DEF Says, KindLists
  <2>2. /\ subscription[c].status = "past_due" /\ s.plan = subscription[c].plan
        /\ s.failures = subscription[c].failures + 1
    BY <1>2, <2>1 DEF Says, Story
  <2>3. ASSUME NEW h \in 1..Len(sent), sent[h].customer = c, QuietAfter(c, h, Len(sent))
        PROVE  /\ sent[h].plan = s.plan /\ sent[h].status = "past_due"
               /\ s.failures = sent[h].attempt + 1
    BY <2>2, <2>3 DEF StripeInv, EventsFit, Latest
  <2>4. ASSUME NEW h \in 1..(i - 1)
        PROVE  /\ h \in 1..Len(sent) /\ sent'[h] = sent[h]
               /\ QuietAfter(c, h, i - 1)' => QuietAfter(c, h, Len(sent))
    <3>1. h \in 1..Len(sent) /\ i - 1 = Len(sent)
      BY <1>0, <2>1
    <3>2. \A j \in (h + 1)..Len(sent) : sent'[j] = sent[j]
      BY <1>0, <3>1 DEF Adds
    <3> QED
      BY <3>1, <3>2 DEF QuietAfter, Adds
  <2> QED
    BY <2>1, <2>3, <2>4 DEF FailureFits, Says
<1> QED
  BY <1>1, <1>2 DEF FailureFits

LEMMA BuyerStep ==
    ASSUME StripeInv, NEW c \in Customers, NEW s \in Told, NEW kinds \in KindLists,
           Story(c, s, kinds), Adds(c, s, kinds)
    PROVE  BuyerFits'
<1>0. Len(sent) \in Nat /\ c # NoCustomer
  BY EventTypes, WebhooksAssumption DEF StripeInv
<1>1. CASE kinds = <<"checkout">>
  <2>1. Len(sent') = Len(sent) + 1 /\ Says(sent'[Len(sent) + 1], "checkout", c, s)
    BY <1>1 DEF Adds
  <2>2. buyer' = c
    BY <1>1 DEF Story
  <2>3. Len(sent) + 1 \in 1..Len(sent') /\ \A j \in (Len(sent) + 2)..Len(sent') : FALSE
    BY <1>0, <2>1
  <2> QED
    BY <1>0, <2>1, <2>2, <2>3 DEF BuyerFits, Says
<1>2. CASE kinds # <<"checkout">>
  <2>1. buyer' = buyer /\ subscription[c].status # "none"
    BY <1>2 DEF Story
  <2>2. \A j \in 1..Len(sent') : j \in 1..Len(sent) \/ sent'[j].kind # "checkout"
    BY <1>2, NewEvents DEF Says, KindLists
  <2>3. PICK i \in 1..Len(sent) : sent[i].customer = c
    BY <2>1 DEF StripeInv, SubscriptionsCount
  <2>4. PICK k \in 1..Len(sent) :
            /\ sent[k].kind = "checkout" /\ sent[k].customer = buyer
            /\ \A j \in (k + 1)..Len(sent) : sent[j].kind # "checkout"
    BY <2>3 DEF StripeInv, BuyerFits
  <2>5. k \in 1..Len(sent') /\ sent'[k] = sent[k]
    BY <1>0 DEF Adds
  <2>6. ASSUME NEW j \in (k + 1)..Len(sent')
        PROVE  sent'[j].kind # "checkout"
    <3>1. j \in 1..Len(sent') /\ (j \in 1..Len(sent) => j \in (k + 1)..Len(sent) /\ sent'[j] = sent[j])
      BY <1>0, <2>5 DEF Adds
    <3> QED
      BY <2>2, <2>4, <3>1
  <2>7. buyer' # NoCustomer
    BY <2>1, <2>3 DEF StripeInv, BuyerFits
  <2> QED
    BY <2>1, <2>4, <2>5, <2>6, <2>7 DEF BuyerFits
<1> QED
  BY <1>1, <1>2

Silent == UNCHANGED <<subscription, buyer, sent>>

LEMMA NextSteps ==
    ASSUME [WebhooksNext]_webhooks
    PROVE  \/ \E c \in Customers : StripeStep(c)
           \/ UNCHANGED webhooks
           \/ \E h \in Handlers : (\E i \in 1..MaxEvents : Receive(h, i)) \/ Commit(h) \/ RollBack(h)
  BY DEF WebhooksNext, StripeStep

LEMMA StripeInvKept ==
    ASSUME StripeInv, WebhooksTypeOK', Silent
    PROVE  StripeInv'
  BY DEF Silent, StripeInv, SubscriptionsCount, EventsFit, BuyerFits, Latest, FirstOf, KindFits,
         PairFits, FailureFits, QuietAfter, UpdateAfter

LEMMA StripeInvTold ==
    ASSUME StripeInv, WebhooksTypeOK', NEW c \in Customers, NEW s \in Told,
           NEW kinds \in KindLists, Story(c, s, kinds), Adds(c, s, kinds)
    PROVE  StripeInv'
<1>1. ASSUME NEW i \in 1..Len(sent')
      PROVE  subscription'[sent'[i].customer].status # "none"
  <2>1. s.status # "none"
    BY DEF Told
  <2>2. CASE i \in 1..Len(sent)
    <3>1. sent[i].customer \in Customers /\ sent'[i] = sent[i]
      BY <2>2, EventTypes DEF StripeInv, Event, Adds
    <3> QED
      BY <2>1, <2>2, <3>1 DEF Adds, StripeInv, EventsFit
  <2>3. CASE sent'[i].customer = c
    BY <2>1, <2>3 DEF Adds
  <2> QED
    BY <2>2, <2>3, NewEvents DEF Says
<1>2. EventsFit'
  BY <1>1, LatestStep, FirstStep, KindStep, PairStep, FailureStep DEF EventsFit
<1> QED
  BY <1>2, SubscriptionsStep, BuyerStep DEF StripeInv

\* A row that fits goes on to fit while Stripe tells more.
LEMMA RowsKeepFitting ==
    ASSUME StripeInv, NEW c \in Customers, NEW s \in Told, NEW kinds \in KindLists,
           Story(c, s, kinds), Adds(c, s, kinds), NEW n \in 0..Len(sent), NEW r, RowFits(r, n)
    PROVE  RowFits(r, n)'
<1>1. Len(sent) \in Nat /\ n \in Nat
  BY EventTypes DEF StripeInv
<1>2. \A i \in 1..n : sent'[i] = sent[i]
  BY <1>1 DEF Adds
<1> SUFFICES ASSUME NEW k \in 1..n, sent'[k].kind = "checkout", sent'[k].customer = buyer'
             PROVE  /\ r.customer = buyer'
                    /\ \/ UpdateAfter(buyer, n)'
                       \/ \E i \in k..n : /\ sent'[i].customer = buyer' /\ QuietAfter(buyer, i, n)'
                                          /\ r = RowOf(sent'[i])
  BY DEF RowFits
<1>3. buyer' = buyer
  <2>1. k \in 1..Len(sent)
    BY <1>1
  <2> QED
    BY <1>2, <2>1 DEF Story, StripeInv, EventsFit
<1>4. /\ r.customer = buyer
      /\ \/ UpdateAfter(buyer, n)
         \/ \E i \in k..n : /\ sent[i].customer = buyer /\ QuietAfter(buyer, i, n)
                            /\ r = RowOf(sent[i])
  BY <1>2, <1>3 DEF RowFits
<1>5. CASE UpdateAfter(buyer, n)
  <2>1. PICK b : b = buyer
    OBVIOUS
  <2>2. UpdateAfter(b, n)
    BY <1>5, <2>1 DEF UpdateAfter
  <2>3. UpdateAfter(b, n)'
    BY <1>1, <2>2, UpdatesRemain DEF StripeInv
  <2> QED
    BY <1>3, <1>4, <2>1, <2>3 DEF UpdateAfter
<1>6. ASSUME NEW i \in k..n, sent[i].customer = buyer, QuietAfter(buyer, i, n), r = RowOf(sent[i])
      PROVE  sent'[i].customer = buyer' /\ QuietAfter(buyer, i, n)' /\ r = RowOf(sent'[i])
  <2>1. sent'[i] = sent[i] /\ \A j \in (i + 1)..n : sent'[j] = sent[j]
    BY <1>1, <1>2
  <2> QED
    BY <1>3, <1>6, <2>1 DEF QuietAfter
<1> QED
  BY <1>3, <1>4, <1>5, <1>6

\* The buyer's checkout is one event, and no other checkout comes after it.
LEMMA OneCheckout ==
    ASSUME StripeInv, NEW k \in 1..Len(sent), sent[k].kind = "checkout", sent[k].customer = buyer
    PROVE  \A j \in 1..Len(sent) : j > k => sent[j].kind # "checkout"
<1>1. Len(sent) \in Nat
  BY EventTypes DEF StripeInv
<1>2. buyer # NoCustomer
  BY EventTypes, WebhooksAssumption DEF StripeInv, Event
<1>3. PICK l \in 1..Len(sent) :
          /\ sent[l].kind = "checkout" /\ sent[l].customer = buyer
          /\ \A j \in (l + 1)..Len(sent) : sent[j].kind # "checkout"
  BY <1>2 DEF StripeInv, BuyerFits
<1>4. /\ \A h \in 1..(l - 1) : sent[h].customer # buyer
      /\ \A h \in 1..(k - 1) : sent[h].customer # buyer
  BY <1>3 DEF StripeInv, EventsFit, FirstOf
<1>5. k = l
  <2>1. k < l => k \in 1..(l - 1)
    BY <1>1
  <2>2. l < k => l \in 1..(k - 1)
    BY <1>1
  <2> QED
    BY <1>3, <1>4, <2>1, <2>2
<1> QED
  BY <1>1, <1>3, <1>5

\* What event n + 1 makes of a row that fits, fits.
LEMMA HandledOfOthers ==
    ASSUME StripeInv, NEW n \in Nat, n < Len(sent), NEW row \in Row, RowFits(row, n),
           sent[n + 1].customer # buyer
    PROVE  RowFits(Handled(sent[n + 1], row, TRUE), n + 1)
<1>1. Len(sent) \in Nat
  BY EventTypes DEF StripeInv
<1> SUFFICES ASSUME NEW k \in 1..(n + 1), sent[k].kind = "checkout", sent[k].customer = buyer
             PROVE  LET r == Handled(sent[n + 1], row, TRUE) IN
                    /\ r.customer = buyer
                    /\ \/ UpdateAfter(buyer, n + 1)
                       \/ \E i \in k..(n + 1) : /\ sent[i].customer = buyer
                                                /\ QuietAfter(buyer, i, n + 1)
                                                /\ r = RowOf(sent[i])
  BY DEF RowFits
<1>2. k \in 1..n
  BY <1>1
<1>3. /\ row.customer = buyer
      /\ \/ UpdateAfter(buyer, n)
         \/ \E i \in k..n : /\ sent[i].customer = buyer /\ QuietAfter(buyer, i, n)
                            /\ row = RowOf(sent[i])
  BY <1>2 DEF RowFits
<1>4. Handled(sent[n + 1], row, TRUE) = row
  <2>1. sent[n + 1].kind # "checkout"
    BY <1>1, <1>2, OneCheckout
  <2> QED
    BY <1>3, <2>1 DEF Handled
<1>5. UpdateAfter(buyer, n) => UpdateAfter(buyer, n + 1)
  <2>1. \A j \in (n + 1)..Len(sent) : j = n + 1 \/ j \in ((n + 1) + 1)..Len(sent)
    BY <1>1
  <2> QED
    BY <2>1 DEF UpdateAfter
<1>6. ASSUME NEW i \in k..n, QuietAfter(buyer, i, n)
      PROVE  i \in k..(n + 1) /\ QuietAfter(buyer, i, n + 1)
  <2>1. i \in k..(n + 1) /\ \A j \in (i + 1)..(n + 1) : j = n + 1 \/ j \in (i + 1)..n
    BY <1>1
  <2> QED
    BY <1>6, <2>1 DEF QuietAfter
<1> QED
  BY <1>3, <1>4, <1>5, <1>6

LEMMA HandledOfCheckout ==
    ASSUME StripeInv, NEW n \in Nat, n < Len(sent), NEW row \in Row,
           sent[n + 1].customer = buyer, sent[n + 1].kind = "checkout"
    PROVE  LET r == Handled(sent[n + 1], row, TRUE) IN
           r.customer = buyer /\ (UpdateAfter(buyer, n + 1) \/ r = RowOf(sent[n + 1]))
<1>1. n + 1 \in 1..Len(sent)
  BY EventTypes DEF StripeInv
<1>2. PICK e \in Event : e = sent[n + 1]
  BY <1>1, EventTypes DEF StripeInv
<1>3. /\ e.status = "trialing" /\ e.attempt = 0
      /\ UpdateAfter(buyer, n + 1) \/ e.plan = subscription[buyer].plan
  BY <1>1, <1>2 DEF StripeInv, EventsFit, FirstOf
<1>4. PICK r : r = Handled(sent[n + 1], row, TRUE)
  OBVIOUS
<1>5. r = [customer |-> buyer, status |-> "active", plan |-> subscription[buyer].plan]
  BY <1>4 DEF Handled, CheckoutPlan
<1>6. RowOf(sent[n + 1]) = [customer |-> buyer, plan |-> e.plan, status |-> "active"]
  BY <1>2, <1>3 DEF RowOf
<1>7. r.customer = buyer /\ (UpdateAfter(buyer, n + 1) \/ r = RowOf(sent[n + 1]))
  BY <1>3, <1>5, <1>6
<1> QED
  BY <1>4, <1>7

LEMMA RowForms ==
    ASSUME NEW row \in Row, NEW plan, NEW status,
           NEW r, r = [row EXCEPT !.plan = plan, !.status = status]
    PROVE  r = [customer |-> row.customer, plan |-> plan, status |-> status]
<1>1. ASSUME NEW a, NEW q, q \in [customer : {a}, plan : {plan}, status : {status}]
      PROVE  q = [customer |-> a, plan |-> plan, status |-> status]
  BY <1>1
<1>2. r \in [customer : {row.customer}, plan : {plan}, status : {status}]
  BY DEF Row
<1> QED
  BY <1>1, <1>2, Zenon

\* A first failure and a payment come with an update; a later failure finds the same plan.
LEMMA HandledOfLater ==
    ASSUME StripeInv, NEW n \in Nat, n < Len(sent), NEW row \in Row,
           sent[n + 1].customer = buyer, sent[n + 1].kind # "checkout", row.customer = buyer,
           NEW k \in 1..n,
           \/ UpdateAfter(buyer, n)
           \/ \E i \in k..n : /\ sent[i].customer = buyer /\ QuietAfter(buyer, i, n)
                              /\ row = RowOf(sent[i])
    PROVE  LET r == Handled(sent[n + 1], row, TRUE) IN
           r.customer = buyer /\ (UpdateAfter(buyer, n + 1) \/ r = RowOf(sent[n + 1]))
<1>0. Len(sent) \in Nat /\ n + 1 \in 1..Len(sent)
  BY EventTypes DEF StripeInv
<1>1. PICK e \in Event : e = sent[n + 1]
  BY <1>0, EventTypes DEF StripeInv
<1>2. e.attempt \in Nat /\ e.kind \in {"updated", "deleted", "paid", "failed"} /\ e.customer = buyer
  BY <1>1 DEF Event
<1>3. KindFits(n + 1) /\ PairFits(n + 1) /\ FailureFits(n + 1)
  BY <1>0 DEF StripeInv, EventsFit
<1>4. PICK r : r = Handled(sent[n + 1], row, TRUE)
  OBVIOUS
<1>5. r.customer = buyer
  BY <1>1, <1>2, <1>4 DEF Handled, Row
<1>6. CASE e.kind = "updated"
  <2>1. e.attempt < 3 /\ e.status # "canceled"
    BY <1>1, <1>3, <1>6 DEF KindFits
  <2>2. RowOf(e) = [customer |-> buyer, plan |-> e.plan, status |-> e.status]
    BY <1>2, <1>6, <2>1 DEF RowOf
  <2>3. r = [row EXCEPT !.plan = e.plan, !.status = e.status]
    BY <1>1, <1>2, <1>4, <1>6 DEF Handled
  <2>4. r = [customer |-> row.customer, plan |-> e.plan, status |-> e.status]
    BY <2>3, RowForms, Zenon
  <2>5. r = RowOf(sent[n + 1])
    BY <1>1, <2>2, <2>4
  <2> QED
    BY <1>4, <1>5, <2>5
<1>7. CASE e.kind = "deleted" \/ (e.kind = "failed" /\ e.attempt >= 3)
  <2>1. e.status = "canceled" \/ e.attempt >= 3
    BY <1>1, <1>3, <1>7 DEF KindFits
  <2>2. RowOf(e) = [customer |-> buyer, plan |-> "free", status |-> "canceled"]
    BY <1>2, <2>1 DEF RowOf
  <2>3. r = [row EXCEPT !.plan = "free", !.status = "canceled"]
    BY <1>1, <1>2, <1>4, <1>7 DEF Handled, GivesUp
  <2>4. r = [customer |-> row.customer, plan |-> "free", status |-> "canceled"]
    BY <2>3, RowForms, Zenon
  <2>5. r = RowOf(sent[n + 1])
    BY <1>1, <2>2, <2>4
  <2> QED
    BY <1>4, <1>5, <2>5
<1>8. CASE e.kind = "paid" \/ (e.kind = "failed" /\ e.attempt = 1)
  <2>1. /\ n + 1 < Len(sent) /\ sent[(n + 1) + 1].customer = buyer
        /\ sent[(n + 1) + 1].kind = "updated"
    BY <1>1, <1>2, <1>3, <1>8 DEF PairFits
  <2>2. (n + 1) + 1 \in ((n + 1) + 1)..Len(sent)
    BY <1>0, <2>1
  <2>3. UpdateAfter(buyer, n + 1)
    BY <2>1, <2>2 DEF UpdateAfter
  <2> QED
    BY <1>1, <1>4, <1>5, <2>3
<1>9. CASE e.kind = "failed" /\ e.attempt < 3 /\ e.attempt # 1
  <2>1. CASE UpdateAfter(buyer, n)
    <3>1. PICK j \in (n + 1)..Len(sent) : sent[j].customer = buyer /\ sent[j].kind = "updated"
      BY <2>1 DEF UpdateAfter
    <3>2. j \in ((n + 1) + 1)..Len(sent)
      BY <1>0, <1>1, <1>9, <3>1
    <3>3. UpdateAfter(buyer, n + 1)
      BY <3>1, <3>2 DEF UpdateAfter
    <3> QED
      BY <1>1, <1>4, <1>5, <3>3
  <2>2. ASSUME NEW i \in k..n, sent[i].customer = buyer, QuietAfter(buyer, i, n),
               row = RowOf(sent[i])
        PROVE  r = RowOf(e)
    <3>1. PICK d \in Event : d = sent[i]
      BY <1>0, EventTypes DEF StripeInv
    <3>2. i \in 1..((n + 1) - 1) /\ QuietAfter(buyer, i, (n + 1) - 1)
      BY <1>0, <2>2 DEF QuietAfter
    <3>3. d.plan = e.plan /\ d.status = "past_due" /\ e.attempt = d.attempt + 1
      BY <1>1, <1>2, <1>3, <1>9, <2>2, <3>1, <3>2 DEF FailureFits
    <3>4. row = [customer |-> buyer, plan |-> e.plan, status |-> "past_due"]
      <4>1. d.kind # "checkout"
        BY <1>0, <3>1, <3>2, <3>3 DEF StripeInv, EventsFit, FirstOf
      <4> QED
        BY <1>9, <2>2, <3>1, <3>3, <4>1 DEF RowOf, Event
    <3>5. e.status = "past_due"
      BY <1>1, <1>3, <1>9 DEF KindFits
    <3>6. RowOf(e) = [customer |-> buyer, plan |-> e.plan, status |-> "past_due"]
      BY <1>2, <1>9, <3>5 DEF RowOf
    <3>7. r = [row EXCEPT !.status = "past_due"]
      BY <1>1, <1>2, <1>4, <1>9 DEF Handled, GivesUp
    <3> QED
      BY <3>4, <3>6, <3>7
  <2> QED
    BY <1>1, <1>4, <1>5, <2>1, <2>2
<1>10. \/ e.kind = "updated" \/ e.kind = "paid" \/ e.kind = "deleted"
       \/ e.kind = "failed" /\ (e.attempt >= 3 \/ e.attempt = 1 \/ (e.attempt < 3 /\ e.attempt # 1))
  BY <1>2
<1> QED
  BY <1>6, <1>7, <1>8, <1>9, <1>10, Zenon

LEMMA HandledFits ==
    ASSUME StripeInv, NEW n \in Nat, n < Len(sent), NEW row \in Row, RowFits(row, n)
    PROVE  RowFits(Handled(sent[n + 1], row, TRUE), n + 1)
<1>1. CASE sent[n + 1].customer # buyer
  BY <1>1, HandledOfOthers
<1>2. CASE sent[n + 1].customer = buyer
  <2>0. Len(sent) \in Nat
    BY EventTypes DEF StripeInv
  <2>1. PICK r : r = Handled(sent[n + 1], row, TRUE)
    OBVIOUS
  <2> SUFFICES ASSUME NEW k \in 1..(n + 1), sent[k].kind = "checkout", sent[k].customer = buyer
               PROVE  /\ r.customer = buyer
                      /\ \/ UpdateAfter(buyer, n + 1)
                         \/ \E i \in k..(n + 1) : /\ sent[i].customer = buyer
                                                  /\ QuietAfter(buyer, i, n + 1)
                                                  /\ r = RowOf(sent[i])
    BY <2>1 DEF RowFits
  <2>2. r.customer = buyer /\ (UpdateAfter(buyer, n + 1) \/ r = RowOf(sent[n + 1]))
    <3>1. CASE sent[n + 1].kind = "checkout"
      BY <1>2, <2>1, <3>1, HandledOfCheckout
    <3>2. CASE sent[n + 1].kind # "checkout"
      <4>1. k \in 1..n
        BY <3>2
      <4>2. /\ row.customer = buyer
            /\ \/ UpdateAfter(buyer, n)
               \/ \E i \in k..n : /\ sent[i].customer = buyer /\ QuietAfter(buyer, i, n)
                                  /\ row = RowOf(sent[i])
        BY <4>1 DEF RowFits
      <4> QED
        BY <1>2, <2>1, <3>2, <4>1, <4>2, HandledOfLater
    <3> QED
      BY <3>1, <3>2
  <2>3. n + 1 \in k..(n + 1) /\ QuietAfter(buyer, n + 1, n + 1)
    BY DEF QuietAfter
  <2> QED
    BY <1>2, <2>2, <2>3
<1> QED
  BY <1>1, <1>2

LEMMA OrderAsStripeTells ==
    ASSUME MirrorInv, NEW c \in Customers, NEW s \in Told, NEW kinds \in KindLists,
           Story(c, s, kinds), Adds(c, s, kinds), UNCHANGED <<tenant, recorded, hook, orderly>>
    PROVE  InOrder'
<1>0. StripeInv /\ Len(sent) \in Nat /\ \A h \in Handlers : hook[h].open => hook[h].event \in 1..Len(sent)
  BY EventTypes DEF MirrorInv, StripeInv, WebhooksTypeOK
<1> SUFFICES ASSUME orderly
             PROVE  \E n \in 0..Len(sent') : Applied(n)'
  BY DEF InOrder
<1>1. PICK n \in 0..Len(sent) : Applied(n)
  BY DEF MirrorInv, InOrder
<1>2. ASSUME NEW m \in 0..Len(sent), NEW r, RowFits(r, m)
      PROVE  RowFits(r, m)'
  BY <1>0, <1>2, RowsKeepFitting
<1>3. PICK row : row = tenant
  OBVIOUS
<1>4. RowFits(row, n)'
  BY <1>1, <1>2, <1>3 DEF Applied
<1>5. ASSUME NEW h \in Handlers, hook[h].open, NEW new, new = hook[h].new
      PROVE  RowFits(new, n + 1)'
  <2>1. n + 1 \in 0..Len(sent) /\ RowFits(new, n + 1)
    BY <1>0, <1>1, <1>5 DEF Applied
  <2> QED
    BY <1>2, <2>1
<1>6. RowFits(tenant, n)'
  BY <1>3, <1>4 DEF RowFits
<1>7. \A h \in Handlers : hook[h].open => RowFits(hook[h].new, n + 1)'
  BY <1>5 DEF RowFits
<1>8. n \in 0..Len(sent')
  BY <1>0 DEF Adds
<1> QED
  BY <1>1, <1>6, <1>7, <1>8 DEF Applied

LEMMA SilentRows ==
    ASSUME Silent, NEW r, NEW n
    PROVE  RowFits(r, n)' <=> RowFits(r, n)
  BY DEF Silent, RowFits, UpdateAfter, QuietAfter

LEMMA OrderAsReceived ==
    ASSUME MirrorInv, NEW h \in Handlers, NEW i \in 1..MaxEvents, Receive(h, i)
    PROVE  InOrder'
<1> SUFFICES ASSUME orderly'
             PROVE  \E n \in 0..Len(sent) : Applied(n)'
  BY DEF InOrder, Receive
<1>1. /\ orderly /\ recorded = 1..(i - 1) /\ (\A g \in Handlers : ~hook[g].open)
      /\ hook' = [hook EXCEPT ![h] = [open |-> TRUE, event |-> i, loaded |-> tenant,
                                      new |-> Handled(sent[i], tenant, TRUE)]]
  BY DEF Receive, Idle
<1>2. /\ StripeInv /\ Len(sent) \in Nat /\ i \in 1..Len(sent) /\ Silent
      /\ UNCHANGED <<tenant, recorded>> /\ tenant \in Row
      /\ hook \in [Handlers -> Hook]
  BY EventTypes DEF MirrorInv, StripeInv, WebhooksTypeOK, Receive, Silent
<1>3. PICK n \in 0..Len(sent) : Applied(n)
  BY <1>1 DEF MirrorInv, InOrder
<1>4. n = i - 1
  <2>1. 1..n = 1..(i - 1)
    BY <1>1, <1>3 DEF Applied
  <2> QED
    BY <1>2, <2>1
<1>5. PICK row \in Row : row = tenant
  BY <1>2
<1>6. PICK new : new = Handled(sent[n + 1], row, TRUE)
  OBVIOUS
<1>7. RowFits(row, n) /\ (n = 0 => row = NewRow)
  BY <1>3, <1>5 DEF Applied
<1>8. RowFits(new, n + 1)
  <2>1. n \in Nat /\ n < Len(sent)
    BY <1>2, <1>4
  <2>2. RowFits(Handled(sent[n + 1], row, TRUE), n + 1)
    BY <1>2, <1>7, <2>1, HandledFits, Zenon
  <2> QED
    BY <1>6, <2>2
<1>9. RowFits(row, n)' /\ RowFits(new, n + 1)'
  BY <1>2, <1>7, <1>8, SilentRows
<1>10. /\ hook'[h].event = n + 1 /\ hook'[h].loaded = tenant' /\ hook'[h].new = new
       /\ \A g \in Handlers : hook'[g].open => g = h
  BY <1>1, <1>2, <1>4, <1>5, <1>6
<1>11. RowFits(tenant, n)' /\ (n = 0 => tenant' = NewRow)
  BY <1>2, <1>5, <1>7, <1>9 DEF RowFits
<1>12. RowFits(hook[h].new, n + 1)'
  BY <1>9, <1>10 DEF RowFits
<1> QED
  BY <1>1, <1>2, <1>4, <1>10, <1>11, <1>12 DEF Applied

LEMMA OrderAsCommitted ==
    ASSUME MirrorInv, NEW h \in Handlers, Commit(h)
    PROVE  InOrder'
<1>1. /\ Len(sent) \in Nat /\ hook[h].open /\ hook[h].event \in 1..Len(sent) /\ Silent
      /\ hook[h] \in Hook /\ tenant \in Row /\ orderly' = orderly
      /\ recorded' = recorded \cup {hook[h].event}
      /\ tenant' = Written(hook[h].new, hook[h].loaded, tenant)
      /\ ~hook'[h].open /\ \A g \in Handlers : g # h => hook'[g] = hook[g]
  BY EventTypes DEF MirrorInv, StripeInv, WebhooksTypeOK, Commit, Silent, Closed
<1> SUFFICES ASSUME orderly
             PROVE  \E n \in 0..Len(sent) : Applied(n)'
  BY <1>1 DEF InOrder, Silent
<1>2. PICK n \in 0..Len(sent) : Applied(n)
  BY DEF MirrorInv, InOrder
<1>3. PICK new \in Row : new = hook[h].new
  BY <1>1 DEF Hook
<1>4. /\ hook[h].event = n + 1 /\ hook[h].loaded = tenant /\ RowFits(new, n + 1)
      /\ recorded = 1..n /\ \A g \in Handlers : hook[g].open => g = h
  BY <1>1, <1>2, <1>3 DEF Applied
<1>5. tenant' = new
  BY <1>1, <1>3, <1>4 DEF Written, Row
<1>6. recorded' = 1..(n + 1) /\ n + 1 \in 0..Len(sent)
  BY <1>1, <1>4
<1>7. RowFits(tenant, n + 1)'
  <2>1. RowFits(new, n + 1)'
    BY <1>1, <1>4, SilentRows
  <2> QED
    BY <1>5, <2>1 DEF RowFits
<1>8. \A g \in Handlers : ~hook'[g].open
  BY <1>1, <1>4
<1> QED
  BY <1>6, <1>7, <1>8 DEF Applied

LEMMA OrderAsRolledBack ==
    ASSUME MirrorInv, NEW h \in Handlers, RollBack(h)
    PROVE  InOrder'
<1>1. /\ Silent /\ UNCHANGED <<tenant, recorded, orderly>>
      /\ ~hook'[h].open /\ \A g \in Handlers : g # h => hook'[g] = hook[g]
  BY DEF MirrorInv, StripeInv, WebhooksTypeOK, RollBack, Silent, Closed
<1> SUFFICES ASSUME orderly
             PROVE  \E n \in 0..Len(sent) : Applied(n)'
  BY <1>1 DEF InOrder, Silent
<1>2. PICK n \in 0..Len(sent) : Applied(n)
  BY DEF MirrorInv, InOrder
<1>3. RowFits(tenant, n)'
  BY <1>1, <1>2 DEF Applied, Silent, RowFits, UpdateAfter, QuietAfter
<1>4. ASSUME NEW g \in Handlers, hook'[g].open
      PROVE  RowFits(hook[g].new, n + 1)'
  BY <1>1, <1>2, <1>4 DEF Applied, Silent, RowFits, UpdateAfter, QuietAfter
<1> QED
  BY <1>1, <1>2, <1>3, <1>4 DEF Applied

LEMMA MirrorStep ==
    ASSUME MirrorInv, [WebhooksNext]_webhooks
    PROVE  MirrorInv'
<1>0. StripeInv /\ WebhooksTypeOK'
  BY WebhooksTypes DEF MirrorInv, StripeInv
<1>1. ASSUME NEW c \in Customers, StripeStep(c)
      PROVE  MirrorInv'
  <2>1. PICK s \in Told, kinds \in KindLists : Tells(c, s, kinds) /\ Story(c, s, kinds)
    BY <1>0, <1>1, StepsAreStories
  <2>2. Adds(c, s, kinds) /\ UNCHANGED <<tenant, recorded, hook, orderly>>
    BY <1>0, <2>1, TellsAdds DEF StripeInv, Tells
  <2> QED
    BY <1>0, <2>1, <2>2, StripeInvTold, OrderAsStripeTells DEF MirrorInv
<1>2. CASE UNCHANGED webhooks
  <2>1. StripeInv'
    BY <1>0, <1>2, StripeInvKept DEF webhooks, Silent
  <2>2. InOrder'
    BY <1>2 DEF MirrorInv, webhooks, InOrder, Applied, RowFits, UpdateAfter, QuietAfter
  <2> QED
    BY <2>1, <2>2 DEF MirrorInv
<1>3. ASSUME NEW h \in Handlers,
             (\E i \in 1..MaxEvents : Receive(h, i)) \/ Commit(h) \/ RollBack(h)
      PROVE  MirrorInv'
  <2>1. StripeInv'
    BY <1>0, <1>3, StripeInvKept DEF Receive, Commit, RollBack, Silent
  <2>2. InOrder'
    BY <1>3, OrderAsReceived, OrderAsCommitted, OrderAsRolledBack
  <2> QED
    BY <2>1, <2>2 DEF MirrorInv
<1> QED
  BY <1>1, <1>2, <1>3, NextSteps

LEMMA MirrorFirst ==
    ASSUME WebhooksInit
    PROVE  MirrorInv
<1>1. WebhooksTypeOK /\ sent = << >> /\ Len(sent) = 0
  BY TypesFirst DEF WebhooksInit
<1>2. SubscriptionsCount /\ EventsFit /\ BuyerFits
  BY <1>1 DEF WebhooksInit, SubscriptionsCount, EventsFit, BuyerFits
<1>3. Applied(0)
  BY DEF WebhooksInit, Applied, RowFits, Closed
<1> QED
  BY <1>1, <1>2, <1>3 DEF MirrorInv, StripeInv, InOrder

\* When all of Stripe's events were applied in order, no update is to come, and the buyer's
\* latest event says what the subscription is.
LEMMA MirrorsAtTheEnd ==
    ASSUME MirrorInv
    PROVE  MirrorsStripe
<1> SUFFICES ASSUME orderly, recorded = DOMAIN sent
             PROVE  tenant = Mirror
  BY DEF MirrorsStripe
<1>0. StripeInv /\ Len(sent) \in Nat /\ recorded = 1..Len(sent)
  BY EventTypes DEF MirrorInv, StripeInv
<1>1. PICK n \in 0..Len(sent) : Applied(n)
  BY DEF MirrorInv, InOrder
<1>2. n = Len(sent)
  <2>1. 1..n = 1..Len(sent)
    BY <1>0, <1>1 DEF Applied
  <2> QED
    BY <1>0, <2>1
<1>3. RowFits(tenant, Len(sent)) /\ (Len(sent) = 0 => tenant = NewRow)
  BY <1>1, <1>2 DEF Applied
<1>4. CASE buyer = NoCustomer
  <2>1. Len(sent) = 0
    BY <1>0, <1>4 DEF StripeInv, BuyerFits
  <2> QED
    BY <1>3, <1>4, <2>1 DEF Mirror
<1>5. CASE buyer # NoCustomer
  <2>1. PICK k \in 1..Len(sent) : sent[k].kind = "checkout" /\ sent[k].customer = buyer
    BY <1>0, <1>5 DEF StripeInv, BuyerFits
  <2>2. ~UpdateAfter(buyer, Len(sent))
    BY <1>0 DEF UpdateAfter
  <2>3. PICK i \in k..Len(sent) :
            /\ sent[i].customer = buyer /\ QuietAfter(buyer, i, Len(sent))
            /\ tenant = RowOf(sent[i])
    BY <1>3, <2>1, <2>2 DEF RowFits
  <2>4. /\ sent[i].plan = subscription[buyer].plan
        /\ sent[i].status = subscription[buyer].status
        /\ sent[i].attempt = subscription[buyer].failures
    <3>1. i \in 1..Len(sent)
      BY <1>0
    <3> QED
      BY <1>0, <2>3, <3>1 DEF StripeInv, EventsFit, Latest
  <2>5. PICK e \in Event : e = sent[i]
    BY <1>0, EventTypes DEF StripeInv
  <2>6. FirstOf(i) /\ KindFits(i) /\ i \in 1..Len(sent)
    BY <1>0 DEF StripeInv, EventsFit
  <2>7. CASE e.status = "canceled" \/ e.attempt >= 3
    BY <1>5, <2>3, <2>4, <2>5, <2>7 DEF Mirror, RowOf
  <2>8. CASE ~(e.status = "canceled" \/ e.attempt >= 3)
    <3>1. Shown(buyer) = IF e.kind = "checkout" THEN "active" ELSE e.status
      <4>1. CASE e.kind = "checkout"
        <5>1. \A j \in 1..Len(sent) : sent[j].customer = buyer => j = i
          <6>1. \A j \in 1..Len(sent) : j = i \/ j \in 1..(i - 1) \/ j \in (i + 1)..Len(sent)
            BY <1>0, <2>6
          <6> QED
            BY <2>3, <2>5, <2>6, <4>1, <6>1 DEF FirstOf, QuietAfter
        <5> QED
          BY <1>0, <2>5, <4>1, <5>1, EventTypes DEF StripeInv, Shown
      <4>2. CASE e.kind # "checkout"
        <5>1. CASE e.kind = "updated"
          BY <1>0, <2>3, <2>4, <2>5, <2>6, <5>1, EventTypes DEF StripeInv, Shown
        <5>2. CASE e.kind # "updated"
          <6>1. e.status \in {"active", "past_due"}
            BY <2>5, <2>6, <2>8, <4>2, <5>2 DEF KindFits, Event
          <6>2. UpdateAfter(buyer, 0)
            BY <1>0, <2>3, <2>4, <2>5, <6>1 DEF StripeInv, SubscriptionsCount, Event
          <6> QED
            BY <1>0, <2>4, <2>5, <4>2, <6>2, EventTypes DEF StripeInv, Shown, UpdateAfter
        <5> QED
          BY <5>1, <5>2
      <4> QED
        BY <4>1, <4>2
    <3> QED
      BY <1>5, <2>3, <2>4, <2>5, <2>8, <3>1 DEF Mirror, RowOf
  <2> QED
    BY <2>7, <2>8
<1> QED
  BY <1>4, <1>5

\* webhooks.py: a tenant whose deliveries came one after the other in Stripe's order has,
\* when all were handled, the plan of its latest customer at Stripe, and the status but for
\* a trial that the checkout stored as "active" and nothing changed since, for any number of handlers, customers, plans and events.
THEOREM TenantMirrorsStripe == WebhooksSpec => []MirrorsStripe
  BY MirrorFirst, MirrorStep, MirrorsAtTheEnd, PTL DEF WebhooksSpec
=============================================================================
