----------------------------- MODULE MCBilling -----------------------------
(***************************************************************************)
(* What hangs on a tenant's plan, for TLC: Stripe's events (Webhooks), the *)
(* proxied requests (Metering) and the cleanup (Retention).  A behaviour   *)
(* is one of one of them; all that passes from one to the others is the    *)
(* plan, which PlanChanges and SwitchPlan set.                             *)
(***************************************************************************)
EXTENDS Webhooks, Metering, Retention, TLC

CONSTANTS t1, t2, r1, r2, r3, None, MaxShared

VARIABLE side

Owners == r1 :> t1 @@ r2 :> t1 @@ r3 :> t2
Limits == [p \in QuotaPlans |-> IF p = "pro" THEN 1 ELSE None]

Init ==
    /\ side \in {"webhooks", "metering", "retention"}
    /\ WebhooksInit /\ MeteringInit /\ RetentionInit
    /\ side # "metering" => row[t1].plan = "pro"
    /\ side # "retention" => plan[t1] = "pro"

Next ==
    /\ UNCHANGED side
    /\ \/ side = "webhooks" /\ WebhooksNext /\ UNCHANGED <<metering, retention>>
       \/ side = "metering" /\ MeteringNext /\ UNCHANGED <<webhooks, retention>>
       \/ side = "retention" /\ RetentionNext /\ UNCHANGED <<webhooks, metering>>

Spec == Init /\ [][Next]_<<side, webhooks, metering, retention>>

TypeOK ==
    CASE side = "webhooks" -> WebhooksTypeOK
      [] side = "metering" -> MeteringTypeOK
      [] side = "retention" -> RetentionTypeOK

\* All six events are about one customer: a second one is for the shorter stories.
Short ==
    \A c, d \in Customers : Len(sent) > MaxShared /\ subscription[c].status # "none"
                               /\ subscription[d].status # "none" => c = d

Symmetry == Permutations(Handlers) \cup Permutations(Customers)
=============================================================================
