------------------------------ MODULE Metering ------------------------------
(***************************************************************************)
(* The tenant's side of a proxied request: check_request_quota             *)
(* (app/billing/enforcement.py) and the incident that a threat opens       *)
(* (create_incident, app/incidents/service.py), in the one transaction of  *)
(* the request.  PostgreSQL locks the row that an UPDATE names, and makes  *)
(* an insert wait for an uncommitted row with the same unique value.       *)
(***************************************************************************)
EXTENDS Integers, FiniteSets

CONSTANTS
    Tenants, Requests,
    Of,           \* Of[r]: the tenant of request r
    Tests,        \* the requests of the dashboard, /proxy/test
    Threats,      \* the requests that the filter answers with an incident
    QuotaPlans,        \* the plans a tenant may have
    Limit,        \* Limit[p]: monthly_requests of the plan, or Unlimited
    Unlimited,    \* None
    Strict,       \* billing_enforcement_mode = "strict"
    YearLength,   \* months of a year
    FirstMonth, MaxMonth   \* bound: the months that pass

VARIABLES
    month,        \* the months since January of the first year
    row,          \* row[t]: plan, monthly_request_count, request_count_reset_at
    req,          \* req[r]: where request r stands
    incidents,    \* the committed incidents, with the request that opened them
    charged,      \* history: charged[r] is the month in which r was counted
    alone         \* history: alone[t] while no two requests of t were handled at once

metering == <<month, row, req, incidents, charged, alone>>

Never == -1
Months == FirstMonth..MaxMonth
Marks == Months \cup {Never}

ASSUME MeteringAssumption ==
    /\ Of \in [Requests -> Tenants]
    /\ Tests \subseteq Requests /\ Threats \subseteq Requests
    /\ Limit \in [QuotaPlans -> Nat \cup {Unlimited}] /\ Unlimited \notin Nat
    /\ Strict \in BOOLEAN
    /\ YearLength \in Nat \ {0}
    /\ FirstMonth \in Nat /\ MaxMonth \in Nat /\ FirstMonth <= MaxMonth

MeterRow == [plan : QuotaPlans, count : Nat, reset : Marks]

\* read, mine: the row as it was loaded, and as the handler holds it; lock: the row was
\* written, and is locked until the end; year, number: of the incident; met: the
\* request that took the number before, or r.
Req == [pc : {"new", "checked", "refused", "written", "numbered", "opened", "done",
              "collided", "failed"},
        read : MeterRow, mine : MeterRow, month : Months, lock : BOOLEAN,
        year : Nat, number : Nat, met : Requests]

Incident == [tenant : Tenants, year : Nat, number : Nat, by : Requests]

MeteringTypeOK ==
    /\ month \in Months
    /\ row \in [Tenants -> MeterRow]
    /\ req \in [Requests -> Req]
    /\ incidents \subseteq Incident
    /\ charged \in [Requests -> Marks]
    /\ alone \in [Tenants -> BOOLEAN]

MeteringInit ==
    /\ month = FirstMonth
    /\ \E p \in QuotaPlans : row = [t \in Tenants |-> [plan |-> p, count |-> 0, reset |-> Never]]
    /\ req = [r \in Requests |->
                [pc |-> "new", read |-> row[Of[r]], mine |-> row[Of[r]], month |-> month,
                 lock |-> FALSE, year |-> 0, number |-> 0, met |-> r]]
    /\ incidents = {}
    /\ charged = [r \in Requests |-> Never]
    /\ alone = [t \in Tenants |-> TRUE]

Year(m) == m \div YearLength

InFlight(r) == req[r].pc \in {"checked", "written", "numbered", "opened"}

Colleagues(r) == {q \in Requests \ {r} : Of[q] = Of[r]}

Tick ==
    /\ month < MaxMonth
    /\ month' = month + 1
    /\ UNCHANGED <<row, req, incidents, charged, alone>>

\* A webhook's commit.
PlanChanges(t, p) ==
    /\ \A r \in Requests : Of[r] = t => ~req[r].lock
    /\ row' = [row EXCEPT ![t].plan = p]
    /\ UNCHANGED <<month, req, incidents, charged, alone>>

----------------------------------------------------------------------------
\* The months of the year are compared, and not the years.
Stale(mark) == mark = Never \/ mark % YearLength # month % YearLength

Renewed(w) == IF Stale(w.reset) THEN [w EXCEPT !.count = 0, !.reset = month] ELSE w

Counts(r, w) == r \notin Tests /\ Limit[w.plan] # Unlimited

\* Mutant: the limit itself is let through.
OverLimit(w) == w.count > Limit[w.plan]

AtLimit(w) == w.count >= Limit[w.plan]

\* In strict mode the handler answers 429; in warn mode it only logs.
Verdict(w) == IF Strict /\ AtLimit(w) THEN "refused" ELSE "checked"

\* resolve_tenant_from_api_key and check_request_quota, with one reading of the row.
Arrive(r) ==
    LET read == row[Of[r]]
        mine == Renewed(read) IN
    /\ req[r].pc = "new"
    /\ req' = [req EXCEPT ![r].month = month,
         ![r].pc = IF Counts(r, read) THEN Verdict(mine) ELSE "checked",
         ![r].read = read,
         ![r].mine = IF Counts(r, read) THEN [mine EXCEPT !.count = @ + 1] ELSE read]
    /\ alone' = [alone EXCEPT ![Of[r]] = @ /\ \A q \in Colleagues(r) : ~InFlight(q)]
    /\ UNCHANGED <<month, row, incidents, charged>>

\* Mutant: an UPDATE does not wait.
NoWait(r) == TRUE

RowIsFree(r) == \A q \in Colleagues(r) : ~req[q].lock

\* The handler's first flush: the counter is written as a value.
WriteRow(r) ==
    /\ req[r].pc = "checked"
    /\ Counts(r, req[r].read) => RowIsFree(r)
    /\ req' = [req EXCEPT ![r].pc = "written", ![r].lock = Counts(r, req[r].read)]
    /\ UNCHANGED <<month, row, incidents, charged, alone>>

Mine(t, y) == {i \in incidents : i.tenant = t /\ i.year = y}

\* Mutant: the incidents of all the tenants are counted.
CountAll(r) == Cardinality({i \in incidents : i.year = Year(month)}) + 1

\* The incidents of this tenant with this year's prefix, and one.
NextNumber(r) == Cardinality(Mine(Of[r], Year(month))) + 1

TakeNumber(r) ==
    /\ req[r].pc = "written" /\ r \in Threats
    /\ req' = [req EXCEPT ![r].pc = "numbered", ![r].year = Year(month),
                          ![r].number = NextNumber(r)]
    /\ UNCHANGED <<month, row, incidents, charged, alone>>

\* incident_number does not name the tenant, and is unique over all of them.
Clashes(r, i) == i.year = req[r].year /\ i.number = req[r].number

InsertIncident(r) ==
    /\ req[r].pc = "numbered"
    /\ \A i \in incidents : ~Clashes(r, i)
    /\ \A q \in Requests : req[q].pc = "opened" => ~Clashes(r, req[q])
    /\ req' = [req EXCEPT ![r].pc = "opened"]
    /\ UNCHANGED <<month, row, incidents, charged, alone>>

\* IntegrityError: the request fails, and what it wrote is rolled back.
Collide(r) ==
    /\ req[r].pc = "numbered"
    /\ \E i \in incidents :
          /\ Clashes(r, i)
          /\ req' = [req EXCEPT ![r].pc = "collided", ![r].met = i.by, ![r].lock = FALSE]
    /\ UNCHANGED <<month, row, incidents, charged, alone>>

\* Only the columns whose value is not the loaded one are written.
Changed(mine, read, now) ==
    [f \in DOMAIN now |-> IF mine[f] # read[f] THEN mine[f] ELSE now[f]]

CommitRequest(r) ==
    /\ req[r].pc = IF r \in Threats THEN "opened" ELSE "written"
    /\ IF Counts(r, req[r].read)
       THEN /\ row' = [row EXCEPT ![Of[r]] = Changed(req[r].mine, req[r].read, @)]
            /\ charged' = [charged EXCEPT ![r] = req[r].month]
       ELSE UNCHANGED <<row, charged>>
    /\ incidents' = incidents \cup
         {[tenant |-> Of[q], year |-> req[q].year, number |-> req[q].number, by |-> q]
            : q \in {r} \cap Threats}
    /\ req' = [req EXCEPT ![r].pc = "done", ![r].lock = FALSE]
    /\ UNCHANGED <<month, alone>>

\* Mutant: the counter is committed on its own.
FailCharged(r) ==
    /\ InFlight(r)
    /\ req' = [req EXCEPT ![r].pc = "failed", ![r].lock = FALSE]
    /\ row' = [row EXCEPT ![Of[r]] = Changed(req[r].mine, req[r].read, @)]
    /\ UNCHANGED <<month, incidents, charged, alone>>

\* An exception, of the upstream call for one: everything is rolled back.
Fail(r) ==
    /\ InFlight(r)
    /\ req' = [req EXCEPT ![r].pc = "failed", ![r].lock = FALSE]
    /\ UNCHANGED <<month, row, incidents, charged, alone>>

MeteringNext ==
    \/ Tick
    \/ \E t \in Tenants, p \in QuotaPlans : PlanChanges(t, p)
    \/ \E r \in Requests : Arrive(r)
    \/ \E r \in Requests : WriteRow(r)
    \/ \E r \in Requests : TakeNumber(r)
    \/ \E r \in Requests : InsertIncident(r)
    \/ \E r \in Requests : Collide(r)
    \/ \E r \in Requests : CommitRequest(r)
    \/ \E r \in Requests : Fail(r)

MeteringSpec == MeteringInit /\ [][MeteringNext]_metering

----------------------------------------------------------------------------
ChargedIn(t, m) == {r \in Requests : Of[r] = t /\ charged[r] = m}

\* Handled one at a time, a tenant's requests are counted exactly, a failed one is
\* not charged, one is refused only when the month's quota is used up, and in strict
\* mode none is served beyond it.
QuotaIsExact ==
    \A t \in Tenants : alone[t] =>
        /\ row[t].reset # Never => row[t].count = Cardinality(ChargedIn(t, row[t].reset))
        /\ \A r \in Requests : Of[r] = t /\ req[r].pc = "refused" =>
              Cardinality(ChargedIn(t, req[r].month)) >= Limit[req[r].read.plan]
        /\ Strict => \A m \in Months : ChargedIn(t, m) # {} =>
              \E p \in QuotaPlans : Limit[p] # Unlimited /\ Cardinality(ChargedIn(t, m)) <= Limit[p]

\* Overlapping requests can lose counts, but no tenant is charged for more requests
\* than were ever served to it.
NoPhantomCharge ==
    \A t \in Tenants : row[t].count <= Cardinality({r \in Requests : Of[r] = t /\ charged[r] # Never})

\* A tenant's incidents are numbered 1, 2, 3 of the year, whatever rolled back.
NumbersAreDense ==
    \A i \in incidents : \A n \in 1..i.number : \E j \in Mine(i.tenant, i.year) : j.number = n

\* The counter's row lock, held to the commit, keeps the counted requests of one
\* tenant from taking one number twice: when a counted request loses its number to
\* its own tenant, the winner was not counted.
LockSavesNumbers ==
    \A r \in Requests : LET q == req[r].met IN
        req[r].pc = "collided" /\ Counts(r, req[r].read) /\ Of[q] = Of[r] => charged[q] = Never

\* "Generate next incident number for this tenant" (incidents/service.py): a threat
\* that no other request of its tenant overlaps gets its incident.
ThreatGetsIncident ==
    \A r \in Requests : alone[Of[r]] => req[r].pc # "collided"
=============================================================================
