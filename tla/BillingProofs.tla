--------------------------- MODULE BillingProofs ---------------------------
(****************************************************************************)
(* Theorems about Metering and Retention, for any tenants, requests, plans, *)
(* limits and days: the numbers of the incidents, the monthly counter, the  *)
(* retention; and about them with Webhooks, as TLC runs them.               *)
(****************************************************************************)
EXTENDS MCBilling, WebhooksProofs, FiniteSetTheorems

----------------------------------------------------------------------------
(* Metering.                                                               *)

----------------------------------------------------------------------------
(* Numbers.                                                                *)

\* A finite set whose elements have the numbers 1, 2, 3: none is above their count.
LEMMA DenseIsBounded ==
    ASSUME NEW S, IsFiniteSet(S), NEW f \in [S -> Nat \ {0}],
           \A i \in S : \A n \in 1..f[i] : \E j \in S : f[j] = n,
           NEW i \in S
    PROVE  f[i] <= Cardinality(S)
<1> DEFINE g == [n \in 1..f[i] |-> CHOOSE j \in S : f[j] = n]
<1>1. \A n \in 1..f[i] : g[n] \in S /\ f[g[n]] = n
  OBVIOUS
<1>2. g \in [1..f[i] -> S]
  BY <1>1
<1>3. g \in Injection(1..f[i], S)
  BY <1>1, <1>2 DEF Injection, IsInjective
<1>4. Cardinality(1..f[i]) <= Cardinality(S)
  BY <1>3, FS_Injection
<1>5. Cardinality(1..f[i]) = f[i]
  BY FS_Interval
<1> QED
  BY <1>4, <1>5

\* If the numbers differ, all of them up to the count are there.
LEMMA DenseIsExact ==
    ASSUME NEW S, IsFiniteSet(S), NEW f \in [S -> Nat \ {0}],
           \A i \in S : \A n \in 1..f[i] : \E j \in S : f[j] = n,
           \A i, j \in S : f[i] = f[j] => i = j
    PROVE  \A n \in 1..Cardinality(S) : \E i \in S : f[i] = n
<1> DEFINE c == Cardinality(S)
<1>1. c \in Nat
  BY FS_CardinalityType
<1>2. \A i \in S : f[i] \in 1..c
  BY <1>1, DenseIsBounded
<1>3. f \in Injection(S, 1..c)
  BY <1>2 DEF Injection, IsInjective
<1>4. IsFiniteSet(1..c) /\ Cardinality(1..c) = c
  BY <1>1, FS_Interval
<1>5. f \in Surjection(S, 1..c)
  BY <1>3, <1>4, FS_Injection
<1> QED
  BY <1>5 DEF Surjection

LEMMA YearIsNat ==
    ASSUME NEW m \in Months
    PROVE  m \in Nat /\ Year(m) \in Nat
  BY MeteringAssumption DEF Months, Year

\* Two months less than a year apart, of the same number in their year, are one.
LEMMA SameMonth ==
    ASSUME NEW a \in Nat, NEW b \in Nat, NEW Y \in Nat \ {0}, a % Y = b % Y, a <= b, b < a + Y
    PROVE  a = b
<1> DEFINE k == (b \div Y) - (a \div Y)
<1>0. /\ a = Y * (a \div Y) + (a % Y) /\ a \div Y \in Int
      /\ b = Y * (b \div Y) + (b % Y) /\ b \div Y \in Int
  OBVIOUS
<1>1. b - a = Y * k /\ k \in Int
  BY <1>0
<1> HIDE DEF k
<1>2. CASE k >= 1
  <2>1. Y * k >= Y
    BY <1>1, <1>2
  <2> QED
    BY <1>1, <2>1
<1>3. CASE k <= -1
  <2>1. Y * k <= -Y
    BY <1>1, <1>3
  <2> QED
    BY <1>1, <2>1
<1>4. CASE k = 0
  BY <1>1, <1>4
<1> QED
  BY <1>1, <1>2, <1>3, <1>4

----------------------------------------------------------------------------
(* Types.                                                                  *)

Counted(r) == Counts(r, req[r].read)

Charged(t) == {r \in Requests : Of[r] = t /\ charged[r] # Never}

Finite == IsFiniteSet(incidents) /\ \A t \in Tenants : IsFiniteSet(Charged(t))

MeteringTypes == MeteringTypeOK /\ Finite

\* The parameters.
LEMMA Parameters ==
    /\ \A r \in Requests : Of[r] \in Tenants
    /\ \A p \in QuotaPlans : Limit[p] = Unlimited \/ Limit[p] \in Nat
    /\ Months \subseteq Nat /\ Never \notin Months /\ Never \in Marks /\ Months \subseteq Marks
  BY MeteringAssumption DEF Months, Marks, Never

LEMMA RenewedTypes ==
    ASSUME NEW w \in MeterRow, month \in Months
    PROVE  /\ Renewed(w) \in MeterRow /\ Renewed(w).plan = w.plan
           /\ [Renewed(w) EXCEPT !.count = @ + 1] \in MeterRow
           /\ Renewed(w).count = IF Stale(w.reset) THEN 0 ELSE w.count
           /\ Renewed(w).reset = IF Stale(w.reset) THEN month ELSE w.reset
<1>1. month \in Marks
  BY Parameters
<1>2. CASE Stale(w.reset)
  <2>1. Renewed(w) = [plan |-> w.plan, count |-> 0, reset |-> month]
    BY <1>2 DEF Renewed, MeterRow
  <2>2. Renewed(w) \in MeterRow /\ Renewed(w).count = 0 /\ Renewed(w).reset = month
        /\ Renewed(w).plan = w.plan
    BY <1>1, <2>1 DEF MeterRow
  <2>3. [Renewed(w) EXCEPT !.count = @ + 1] \in MeterRow
    BY <2>2 DEF MeterRow
  <2> QED
    BY <1>2, <2>2, <2>3
<1>3. CASE ~Stale(w.reset)
  <2>1. Renewed(w) = w
    BY <1>3 DEF Renewed
  <2> QED
    BY <1>3, <2>1 DEF MeterRow
<1> QED
  BY <1>2, <1>3

\* The row as it is committed, field by field.
Merged(mine, read, latest) ==
    [plan |-> IF mine.plan # read.plan THEN mine.plan ELSE latest.plan,
     count |-> IF mine.count # read.count THEN mine.count ELSE latest.count,
     reset |-> IF mine.reset # read.reset THEN mine.reset ELSE latest.reset]

LEMMA ChangedIs ==
    ASSUME NEW mine \in MeterRow, NEW read \in MeterRow, NEW latest \in MeterRow
    PROVE  Changed(mine, read, latest) = Merged(mine, read, latest) /\ Merged(mine, read, latest) \in MeterRow
<1>1. DOMAIN latest = {"plan", "count", "reset"}
  BY DEF MeterRow
<1>2. Merged(mine, read, latest) \in MeterRow
  BY DEF Merged, MeterRow
<1> QED
  BY <1>1, <1>2 DEF Changed, Merged

\* A step of one request leaves the others where they are.
Moves(r, q) == /\ req' \in [Requests -> Req] /\ req'[r] = q
               /\ \A o \in Requests \ {r} : req'[o] = req[o]

LEMMA MovesForm ==
    ASSUME req \in [Requests -> Req], NEW r \in Requests, NEW q \in Req,
           req' = [req EXCEPT ![r] = q]
    PROVE  Moves(r, q)
  BY DEF Moves

Arrived(r) ==
    [req[r] EXCEPT !.month = month,
        !.pc = IF Counts(r, row[Of[r]]) THEN Verdict(Renewed(row[Of[r]])) ELSE "checked",
        !.read = row[Of[r]],
        !.mine = IF Counts(r, row[Of[r]]) THEN [Renewed(row[Of[r]]) EXCEPT !.count = @ + 1]
                 ELSE row[Of[r]]]

LEMMA ArriveForm ==
    ASSUME MeteringTypeOK, NEW r \in Requests, Arrive(r)
    PROVE  Moves(r, Arrived(r))
<1>1. row[Of[r]] \in MeterRow /\ req[r] \in Req
  BY Parameters DEF MeteringTypeOK
<1>2. [Renewed(row[Of[r]]) EXCEPT !.count = @ + 1] \in MeterRow
  BY <1>1, RenewedTypes DEF MeteringTypeOK
<1>3. Arrived(r) \in Req
  BY <1>1, <1>2 DEF Arrived, Req, Verdict, MeteringTypeOK
<1>4. req' = [req EXCEPT ![r] = Arrived(r)]
  BY DEF Arrive, Arrived
<1> QED
  BY <1>3, <1>4, MovesForm DEF MeteringTypeOK

LEMMA WriteRowForm ==
    ASSUME MeteringTypeOK, NEW r \in Requests, WriteRow(r)
    PROVE  Moves(r, [req[r] EXCEPT !.pc = "written", !.lock = Counted(r)])
<1>0. req[r] \in Req
  BY DEF MeteringTypes, MeteringTypeOK
<1>1. [req[r] EXCEPT !.pc = "written", !.lock = Counted(r)] \in Req
  BY <1>0 DEF Req, Counted, Counts
<1>2. req' = [req EXCEPT ![r] = [req[r] EXCEPT !.pc = "written", !.lock = Counted(r)]]
  BY DEF WriteRow, Counted
<1> QED
  BY <1>1, <1>2, MovesForm DEF MeteringTypeOK

LEMMA NextNumberIsNat ==
    ASSUME MeteringTypes, NEW r \in Requests
    PROVE  /\ IsFiniteSet(Mine(Of[r], Year(month)))
           /\ Cardinality(Mine(Of[r], Year(month))) \in Nat /\ NextNumber(r) \in Nat
<1>1. IsFiniteSet(Mine(Of[r], Year(month)))
  BY FS_Subset DEF MeteringTypes, Finite, Mine
<1> QED
  BY <1>1, FS_CardinalityType DEF NextNumber

LEMMA TakeNumberForm ==
    ASSUME MeteringTypes, NEW r \in Requests, TakeNumber(r)
    PROVE  Moves(r, [req[r] EXCEPT !.pc = "numbered", !.year = Year(month), !.number = NextNumber(r)])
<1> DEFINE q == [req[r] EXCEPT !.pc = "numbered", !.year = Year(month), !.number = NextNumber(r)]
<1>0. req[r] \in Req
  BY DEF MeteringTypes, MeteringTypeOK
<1>a. Year(month) \in Nat
  BY YearIsNat DEF MeteringTypes, MeteringTypeOK
<1>1. q \in Req
  BY <1>0, <1>a, NextNumberIsNat DEF Req
<1>2. req' = [req EXCEPT ![r] = q]
  BY DEF TakeNumber
<1> QED
  BY <1>1, <1>2, MovesForm DEF MeteringTypes, MeteringTypeOK

LEMMA InsertForm ==
    ASSUME MeteringTypeOK, NEW r \in Requests, InsertIncident(r)
    PROVE  Moves(r, [req[r] EXCEPT !.pc = "opened"])
<1>1. [req[r] EXCEPT !.pc = "opened"] \in Req
  BY DEF MeteringTypeOK, Req
<1>2. req' = [req EXCEPT ![r] = [req[r] EXCEPT !.pc = "opened"]]
  BY DEF InsertIncident
<1> QED
  BY <1>1, <1>2, MovesForm DEF MeteringTypeOK

LEMMA CollideForm ==
    ASSUME MeteringTypeOK, NEW r \in Requests, Collide(r)
    PROVE  \E i \in incidents :
              /\ Clashes(r, i)
              /\ Moves(r, [req[r] EXCEPT !.pc = "collided", !.met = i.by, !.lock = FALSE])
<1>1. PICK i \in incidents :
          /\ Clashes(r, i)
          /\ req' = [req EXCEPT ![r].pc = "collided", ![r].met = i.by, ![r].lock = FALSE]
  BY DEF Collide
<1> DEFINE q == [req[r] EXCEPT !.pc = "collided", !.met = i.by, !.lock = FALSE]
<1>0. req[r] \in Req /\ i.by \in Requests
  BY DEF MeteringTypeOK, Incident
<1>2. q \in Req
  BY <1>0 DEF Req
<1>3. req' = [req EXCEPT ![r] = q]
  BY <1>1
<1>4. Moves(r, q)
  BY <1>2, <1>3, MovesForm DEF MeteringTypeOK
<1> QED
  BY <1>1, <1>4

LEMMA FailForm ==
    ASSUME MeteringTypeOK, NEW r \in Requests, Fail(r)
    PROVE  Moves(r, [req[r] EXCEPT !.pc = "failed", !.lock = FALSE])
<1>0. req[r] \in Req
  BY DEF MeteringTypes, MeteringTypeOK
<1>1. [req[r] EXCEPT !.pc = "failed", !.lock = FALSE] \in Req
  BY <1>0 DEF Req
<1>2. req' = [req EXCEPT ![r] = [req[r] EXCEPT !.pc = "failed", !.lock = FALSE]]
  BY DEF Fail
<1> QED
  BY <1>1, <1>2, MovesForm DEF MeteringTypeOK

IncidentOf(r) == [tenant |-> Of[r], year |-> req[r].year, number |-> req[r].number, by |-> r]

MergedRow(r) == Merged(req[r].mine, req[r].read, row[Of[r]])

LEMMA CommitForm ==
    ASSUME MeteringTypeOK, NEW r \in Requests, CommitRequest(r)
    PROVE  /\ Moves(r, [req[r] EXCEPT !.pc = "done", !.lock = FALSE])
           /\ MergedRow(r) \in MeterRow
           /\ Counted(r) => /\ row' = [row EXCEPT ![Of[r]] = MergedRow(r)]
                            /\ charged' = [charged EXCEPT ![r] = req[r].month]
           /\ ~Counted(r) => UNCHANGED <<row, charged>>
           /\ incidents' = IF r \in Threats THEN incidents \cup {IncidentOf(r)} ELSE incidents
           /\ IncidentOf(r) \in Incident
<1>0. req[r] \in Req /\ row[Of[r]] \in MeterRow /\ Of[r] \in Tenants
  BY Parameters DEF MeteringTypeOK
<1>1. [req[r] EXCEPT !.pc = "done", !.lock = FALSE] \in Req
  BY <1>0 DEF Req
<1>2. req' = [req EXCEPT ![r] = [req[r] EXCEPT !.pc = "done", !.lock = FALSE]]
  BY DEF CommitRequest
<1>3. Changed(req[r].mine, req[r].read, row[Of[r]]) = MergedRow(r) /\ MergedRow(r) \in MeterRow
  BY <1>0, ChangedIs DEF Req, MergedRow
<1>4. IncidentOf(r) \in Incident
  BY <1>0 DEF IncidentOf, Incident, Req
<1>5. incidents' = IF r \in Threats THEN incidents \cup {IncidentOf(r)} ELSE incidents
  BY DEF CommitRequest, IncidentOf
<1>6. Counted(r) => /\ row' = [row EXCEPT ![Of[r]] = MergedRow(r)]
                    /\ charged' = [charged EXCEPT ![r] = req[r].month]
  BY <1>3 DEF CommitRequest, Counted
<1>7. ~Counted(r) => UNCHANGED <<row, charged>>
  BY DEF CommitRequest, Counted
<1> QED
  BY <1>1, <1>2, <1>3, <1>4, <1>5, <1>6, <1>7, MovesForm DEF MeteringTypeOK

LEMMA MeteringStarts ==
    ASSUME MeteringInit
    PROVE  MeteringTypes
<1>1. Months # {} /\ FirstMonth \in Months
  BY MeteringAssumption DEF Months
<1>2. MeteringTypeOK
  BY <1>1, Parameters, MeteringAssumption
     DEF MeteringInit, MeteringTypeOK, MeterRow, Req
<1>3. \A t \in Tenants : Charged(t) = {}
  BY DEF MeteringInit, Charged
<1> QED
  BY <1>2, <1>3, FS_EmptySet DEF MeteringTypes, Finite, MeteringInit

LEMMA MeteringTyped ==
    ASSUME MeteringTypes, [MeteringNext]_metering
    PROVE  MeteringTypes'
<1>0. MeteringTypeOK /\ Finite /\ month \in Months
  BY DEF MeteringTypes, MeteringTypeOK
<1> SUFFICES MeteringTypeOK' /\ Finite'
  BY DEF MeteringTypes
<1>1. CASE Tick
  BY <1>0, <1>1, MeteringAssumption DEF Tick, MeteringTypeOK, Finite, Charged, Months
<1>2. ASSUME NEW t \in Tenants, NEW p \in QuotaPlans, PlanChanges(t, p)
      PROVE  MeteringTypeOK' /\ Finite'
  BY <1>0, <1>2 DEF PlanChanges, MeteringTypeOK, Finite, Charged, MeterRow
<1>3. ASSUME NEW r \in Requests, Arrive(r)
      PROVE  MeteringTypeOK' /\ Finite'
  <2>1. alone' \in [Tenants -> BOOLEAN]
    BY <1>0, <1>3, Parameters DEF Arrive, MeteringTypeOK
  <2>2. req' \in [Requests -> Req]
    BY <1>0, <1>3, ArriveForm DEF Moves
  <2> QED
    BY <1>0, <1>3, <2>1, <2>2 DEF Arrive, MeteringTypeOK, Finite, Charged
<1>4. ASSUME NEW r \in Requests, WriteRow(r)
      PROVE  MeteringTypeOK' /\ Finite'
  BY <1>0, <1>4, WriteRowForm DEF Moves, WriteRow, MeteringTypeOK, Finite, Charged
<1>5. ASSUME NEW r \in Requests, TakeNumber(r)
      PROVE  MeteringTypeOK' /\ Finite'
  BY <1>0, <1>5, TakeNumberForm DEF MeteringTypes, Moves, TakeNumber, MeteringTypeOK, Finite, Charged
<1>6. ASSUME NEW r \in Requests, InsertIncident(r)
      PROVE  MeteringTypeOK' /\ Finite'
  BY <1>0, <1>6, InsertForm DEF Moves, InsertIncident, MeteringTypeOK, Finite, Charged
<1>7. ASSUME NEW r \in Requests, Collide(r)
      PROVE  MeteringTypeOK' /\ Finite'
  BY <1>0, <1>7, CollideForm DEF Moves, Collide, MeteringTypeOK, Finite, Charged
<1>8. ASSUME NEW r \in Requests, CommitRequest(r)
      PROVE  MeteringTypeOK' /\ Finite'
  <2>1. row' \in [Tenants -> MeterRow]
    BY <1>0, <1>8, CommitForm DEF MeteringTypeOK
  <2>2. charged' \in [Requests -> Marks]
    <3>1. req[r].month \in Marks
      BY <1>0, Parameters DEF MeteringTypeOK, Req
    <3> QED
      BY <1>0, <1>8, <3>1, CommitForm DEF MeteringTypeOK
  <2>3. incidents' \subseteq Incident /\ IsFiniteSet(incidents')
    <3>1. IsFiniteSet(incidents \cup {IncidentOf(r)})
      BY <1>0, FS_AddElement DEF Finite
    <3> QED
      BY <1>0, <1>8, <3>1, CommitForm DEF MeteringTypeOK, Finite
  <2>4. ASSUME NEW t \in Tenants
        PROVE  IsFiniteSet(Charged(t)')
    <3>1. Charged(t)' \subseteq Charged(t) \cup {r}
      BY <1>0, <1>8, CommitForm DEF Charged, MeteringTypeOK
    <3>2. IsFiniteSet(Charged(t) \cup {r})
      BY <1>0, FS_AddElement DEF Finite
    <3> QED
      BY <3>1, <3>2, FS_Subset
  <2> QED
    BY <1>0, <1>8, <2>1, <2>2, <2>3, <2>4, CommitForm
       DEF Moves, CommitRequest, MeteringTypeOK, Finite
<1>9. ASSUME NEW r \in Requests, Fail(r)
      PROVE  MeteringTypeOK' /\ Finite'
  BY <1>0, <1>9, FailForm DEF Moves, Fail, MeteringTypeOK, Finite, Charged
<1>10. CASE UNCHANGED metering
  BY <1>0, <1>10 DEF metering, MeteringTypeOK, Finite, Charged
<1> QED
  BY <1>1, <1>2, <1>3, <1>4, <1>5, <1>6, <1>7, <1>8, <1>9, <1>10 DEF MeteringNext

----------------------------------------------------------------------------
(* What every step leaves alone.                                           *)

Over == {"refused", "done", "collided", "failed"}
Locking == {"written", "numbered", "opened"}

\* The steps of one request.
Step(r) == \/ Arrive(r) \/ WriteRow(r) \/ TakeNumber(r) \/ InsertIncident(r)
           \/ Collide(r) \/ CommitRequest(r) \/ Fail(r)

\* Another request stays where it is; one that is answered does too, and one that was
\* read keeps its reading.
Kept(r) ==
    /\ \A q \in Requests \ {r} : req'[q] = req[q]
    /\ req[r].pc \notin Over
    /\ req[r].pc # "new" => /\ req'[r].pc # "new" /\ req'[r].read = req[r].read
                            /\ req'[r].mine = req[r].mine /\ req'[r].month = req[r].month

LEMMA StepKeeps ==
    ASSUME MeteringTypes, NEW r \in Requests, Step(r)
    PROVE  /\ req' \in [Requests -> Req] /\ Kept(r) /\ UNCHANGED month
           /\ UNCHANGED <<incidents, charged>> \/ CommitRequest(r)
           /\ incidents \subseteq incidents'
<1>0. MeteringTypeOK /\ req[r] \in Req
  BY DEF MeteringTypes, MeteringTypeOK
<1> USE DEF Over, Kept
<1>1. CASE Arrive(r)
  BY <1>0, <1>1, ArriveForm DEF Arrive, Moves
<1>2. CASE WriteRow(r)
  <2> DEFINE q == [req[r] EXCEPT !.pc = "written", !.lock = Counted(r)]
  <2>1. q.pc # "new" /\ q.read = req[r].read /\ q.mine = req[r].mine /\ q.month = req[r].month
    BY <1>0 DEF Req
  <2> QED
    BY <1>0, <1>2, <2>1, WriteRowForm DEF WriteRow, Moves
<1>3. CASE TakeNumber(r)
  <2> DEFINE q == [req[r] EXCEPT !.pc = "numbered", !.year = Year(month), !.number = NextNumber(r)]
  <2>1. q.pc # "new" /\ q.read = req[r].read /\ q.mine = req[r].mine /\ q.month = req[r].month
    BY <1>0 DEF Req
  <2> QED
    BY <1>0, <1>3, <2>1, TakeNumberForm DEF TakeNumber, Moves
<1>4. CASE InsertIncident(r)
  <2> DEFINE q == [req[r] EXCEPT !.pc = "opened"]
  <2>1. q.pc # "new" /\ q.read = req[r].read /\ q.mine = req[r].mine /\ q.month = req[r].month
    BY <1>0 DEF Req
  <2> QED
    BY <1>0, <1>4, <2>1, InsertForm DEF InsertIncident, Moves
<1>5. CASE Collide(r)
  <2>1. PICK i \in incidents : Moves(r, [req[r] EXCEPT !.pc = "collided", !.met = i.by, !.lock = FALSE])
    BY <1>0, <1>5, CollideForm
  <2> DEFINE q == [req[r] EXCEPT !.pc = "collided", !.met = i.by, !.lock = FALSE]
  <2>2. q.pc # "new" /\ q.read = req[r].read /\ q.mine = req[r].mine /\ q.month = req[r].month
    BY <1>0 DEF Req
  <2> QED
    BY <1>0, <1>5, <2>1, <2>2 DEF Collide, Moves
<1>6. CASE CommitRequest(r)
  <2> DEFINE q == [req[r] EXCEPT !.pc = "done", !.lock = FALSE]
  <2>1. q.pc # "new" /\ q.read = req[r].read /\ q.mine = req[r].mine /\ q.month = req[r].month
    BY <1>0 DEF Req
  <2>2. incidents \subseteq incidents'
    BY <1>0, <1>6, CommitForm
  <2> QED
    BY <1>0, <1>6, <2>1, <2>2, CommitForm DEF CommitRequest, Moves
<1>7. CASE Fail(r)
  <2> DEFINE q == [req[r] EXCEPT !.pc = "failed", !.lock = FALSE]
  <2>1. q.pc # "new" /\ q.read = req[r].read /\ q.mine = req[r].mine /\ q.month = req[r].month
    BY <1>0 DEF Req
  <2> QED
    BY <1>0, <1>7, <2>1, FailForm DEF Fail, Moves, InFlight
<1> QED
  BY <1>1, <1>2, <1>3, <1>4, <1>5, <1>6, <1>7 DEF Step

LEMMA NextIsStep ==
    ASSUME [MeteringNext]_metering
    PROVE  \/ \E r \in Requests : Step(r)
           \/ UNCHANGED <<req, incidents, charged>>
<1>1. CASE Tick
  BY <1>1 DEF Tick
<1>2. CASE \E t \in Tenants, p \in QuotaPlans : PlanChanges(t, p)
  BY <1>2 DEF PlanChanges
<1>3. CASE UNCHANGED metering
  BY <1>3 DEF metering
<1> QED
  BY <1>1, <1>2, <1>3 DEF MeteringNext, Step

LEMMA Steady ==
    ASSUME MeteringTypes, [MeteringNext]_metering
    PROVE  /\ incidents \subseteq incidents'
           /\ \A q \in Requests :
                 /\ req[q].pc \in Over => req'[q] = req[q]
                 /\ req[q].pc # "new" => req'[q].pc # "new" /\ (Counted(q)' <=> Counted(q))
<1>1. CASE UNCHANGED <<req, incidents, charged>>
  BY <1>1 DEF Counted, Counts
<1>2. ASSUME NEW r \in Requests, Step(r)
      PROVE  /\ incidents \subseteq incidents'
             /\ \A q \in Requests :
                   /\ req[q].pc \in Over => req'[q] = req[q]
                   /\ req[q].pc # "new" => req'[q].pc # "new" /\ (Counted(q)' <=> Counted(q))
  <2>1. Kept(r) /\ incidents \subseteq incidents'
    BY <1>2, StepKeeps
  <2> QED
    BY <2>1 DEF Kept, Counted, Counts
<1> QED
  BY <1>1, <1>2, NextIsStep

----------------------------------------------------------------------------
(* The locks, the incidents and the numbers.                               *)

\* A counted request holds its tenant's row from its first flush to its end.
LocksHeld == \A r \in Requests : req[r].lock <=> req[r].pc \in Locking /\ Counted(r)

OneHolder == \A r, q \in Requests : Of[r] = Of[q] /\ req[r].lock /\ req[q].lock => r = q

\* What is committed is what its request, which is done, had.
CommittedIsDone ==
    /\ \A i \in incidents : /\ i.by \in Requests /\ req[i.by].pc = "done" /\ i = IncidentOf(i.by)
                            /\ i.number >= 1
    /\ \A r \in Requests : charged[r] # Never =>
          req[r].pc = "done" /\ Counted(r) /\ charged[r] = req[r].month

\* The unique value of incident_number: committed or not, no two have the same.
NumbersDiffer ==
    /\ \A i, j \in incidents : i.year = j.year /\ i.number = j.number => i = j
    /\ \A r \in Requests : req[r].pc = "opened" =>
          /\ \A i \in incidents : ~Clashes(r, i)
          /\ \A q \in Requests : req[q].pc = "opened" /\ Clashes(r, req[q]) => q = r

\* Below every number that is committed, or that a request has taken, all are committed.
Below(t, y, m) == \A n \in 1..(m - 1) : \E j \in Mine(t, y) : j.number = n

NumbersGrow ==
    /\ \A i \in incidents : Below(i.tenant, i.year, i.number)
    /\ \A r \in Requests : req[r].pc \in {"numbered", "opened"} =>
          req[r].number >= 1 /\ Below(Of[r], req[r].year, req[r].number)

\* The number that a counted request took is not that of a counted one of its tenant.
NumberIsSaved ==
    /\ \A r \in Requests : req[r].pc = "numbered" /\ Counted(r) =>
          \A i \in incidents : i.tenant = Of[r] /\ Clashes(r, i) => charged[i.by] = Never
    /\ \A r \in Requests : req[r].pc = "collided" => req[req[r].met].pc = "done"
    /\ LockSavesNumbers

NumberInv == /\ MeteringTypes /\ LocksHeld /\ OneHolder /\ CommittedIsDone
             /\ NumbersDiffer /\ NumbersGrow /\ NumberIsSaved

LEMMA NumbersStart ==
    ASSUME MeteringInit
    PROVE  NumberInv
<1>1. MeteringTypes
  BY MeteringStarts
<1>2. \A r \in Requests : req[r].pc = "new" /\ req[r].lock = FALSE
  BY DEF MeteringInit
<1>3. \A r \in Requests : charged[r] = Never
  BY DEF MeteringInit
<1>4. incidents = {}
  BY DEF MeteringInit
<1> QED
  BY <1>1, <1>2, <1>3, <1>4
     DEF NumberInv, LocksHeld, OneHolder, CommittedIsDone, NumbersDiffer, NumbersGrow,
         NumberIsSaved, LockSavesNumbers, Locking

\* Where each step takes its request.
Tag(r) == <<req[r].year, req[r].number>>

Outcome(r) ==
    \/ Arrive(r) /\ req[r].pc = "new" /\ req'[r].pc \in {"checked", "refused"}
       /\ req'[r].lock = req[r].lock /\ UNCHANGED Tag(r)
    \/ WriteRow(r) /\ req[r].pc = "checked" /\ req'[r].pc = "written"
       /\ req'[r].lock = Counted(r) /\ UNCHANGED Tag(r)
    \/ TakeNumber(r) /\ req[r].pc = "written" /\ req'[r].pc = "numbered"
       /\ req'[r].lock = req[r].lock /\ req'[r].year = Year(month) /\ req'[r].number = NextNumber(r)
    \/ InsertIncident(r) /\ req[r].pc = "numbered" /\ req'[r].pc = "opened"
       /\ req'[r].lock = req[r].lock /\ UNCHANGED Tag(r)
    \/ Collide(r) /\ req[r].pc = "numbered" /\ req'[r].pc = "collided" /\ req'[r].lock = FALSE
       /\ UNCHANGED Tag(r) /\ \E i \in incidents : Clashes(r, i) /\ req'[r].met = i.by
    \/ CommitRequest(r) /\ req[r].pc = (IF r \in Threats THEN "opened" ELSE "written")
       /\ req'[r].pc = "done" /\ req'[r].lock = FALSE /\ UNCHANGED Tag(r)
    \/ Fail(r) /\ req[r].pc \in {"checked", "written", "numbered", "opened"}
       /\ req'[r].pc = "failed" /\ req'[r].lock = FALSE /\ UNCHANGED Tag(r)

LEMMA StepOutcome ==
    ASSUME MeteringTypes, NEW r \in Requests, Step(r)
    PROVE  Outcome(r)
<1>0. MeteringTypeOK /\ req[r] \in Req
  BY DEF MeteringTypes, MeteringTypeOK
<1> USE DEF Outcome, Tag
<1>1. CASE Arrive(r)
  <2>1. req'[r] = Arrived(r) /\ req[r].pc = "new"
    BY <1>0, <1>1, ArriveForm DEF Moves, Arrive
  <2>2. /\ Arrived(r).pc \in {"checked", "refused"} /\ Arrived(r).lock = req[r].lock
        /\ Arrived(r).year = req[r].year /\ Arrived(r).number = req[r].number
    BY <1>0 DEF Arrived, Verdict, Req
  <2> QED
    BY <1>1, <2>1, <2>2
<1>2. CASE WriteRow(r)
  <2>1. req'[r] = [req[r] EXCEPT !.pc = "written", !.lock = Counted(r)] /\ req[r].pc = "checked"
    BY <1>0, <1>2, WriteRowForm DEF Moves, WriteRow
  <2>2. /\ req'[r].pc = "written" /\ req'[r].lock = Counted(r)
        /\ req'[r].year = req[r].year /\ req'[r].number = req[r].number
    BY <1>0, <2>1 DEF Req
  <2> QED
    BY <1>2, <2>1, <2>2
<1>3. CASE TakeNumber(r)
  <2>1. req[r].pc = "written"
        /\ req'[r] = [req[r] EXCEPT !.pc = "numbered", !.year = Year(month), !.number = NextNumber(r)]
    BY <1>0, <1>3, TakeNumberForm DEF Moves, TakeNumber
  <2>2. /\ req'[r].pc = "numbered" /\ req'[r].lock = req[r].lock
        /\ req'[r].year = Year(month) /\ req'[r].number = NextNumber(r)
    BY <1>0, <2>1 DEF Req
  <2> QED
    BY <1>3, <2>1, <2>2
<1>4. CASE InsertIncident(r)
  <2>1. req'[r] = [req[r] EXCEPT !.pc = "opened"] /\ req[r].pc = "numbered"
    BY <1>0, <1>4, InsertForm DEF Moves, InsertIncident
  <2>2. /\ req'[r].pc = "opened" /\ req'[r].lock = req[r].lock
        /\ req'[r].year = req[r].year /\ req'[r].number = req[r].number
    BY <1>0, <2>1 DEF Req
  <2> QED
    BY <1>4, <2>1, <2>2
<1>5. CASE Collide(r)
  <2>1. PICK i \in incidents :
           /\ Clashes(r, i)
           /\ Moves(r, [req[r] EXCEPT !.pc = "collided", !.met = i.by, !.lock = FALSE])
    BY <1>0, <1>5, CollideForm
  <2>2. /\ req'[r].pc = "collided" /\ req'[r].lock = FALSE /\ req'[r].met = i.by
        /\ req'[r].year = req[r].year /\ req'[r].number = req[r].number
    BY <1>0, <2>1 DEF Req, Moves
  <2> QED
    BY <1>5, <2>1, <2>2 DEF Collide
<1>6. CASE CommitRequest(r)
  <2>1. req'[r] = [req[r] EXCEPT !.pc = "done", !.lock = FALSE]
    BY <1>0, <1>6, CommitForm DEF Moves
  <2>2. /\ req'[r].pc = "done" /\ req'[r].lock = FALSE
        /\ req'[r].year = req[r].year /\ req'[r].number = req[r].number
    BY <1>0, <2>1 DEF Req
  <2> QED
    BY <1>6, <2>2 DEF CommitRequest
<1>7. CASE Fail(r)
  <2>1. req'[r] = [req[r] EXCEPT !.pc = "failed", !.lock = FALSE]
    BY <1>0, <1>7, FailForm DEF Moves
  <2>2. /\ req'[r].pc = "failed" /\ req'[r].lock = FALSE
        /\ req'[r].year = req[r].year /\ req'[r].number = req[r].number
    BY <1>0, <2>1 DEF Req
  <2> QED
    BY <1>7, <2>2 DEF Fail, InFlight
<1> QED
  BY <1>1, <1>2, <1>3, <1>4, <1>5, <1>6, <1>7 DEF Step

LEMMA CommitEnds ==
    ASSUME MeteringTypeOK, NEW r \in Requests, CommitRequest(r)
    PROVE  req'[r].pc = "done" /\ req'[r].lock = FALSE /\ UNCHANGED Tag(r)
<1>1. req[r] \in Req /\ req'[r] = [req[r] EXCEPT !.pc = "done", !.lock = FALSE]
  BY CommitForm DEF Moves, MeteringTypeOK
<1> QED
  BY <1>1 DEF Tag, Req

LEMMA LocksAreHeld ==
    ASSUME NumberInv, [MeteringNext]_metering
    PROVE  LocksHeld'
<1>0. MeteringTypes /\ LocksHeld
  BY DEF NumberInv
<1>1. CASE UNCHANGED <<req, incidents, charged>>
  BY <1>0, <1>1 DEF LocksHeld, Counted, Counts
<1>2. ASSUME NEW r \in Requests, Step(r)
      PROVE  LocksHeld'
  <2>1. Kept(r)
    BY <1>0, <1>2, StepKeeps
  <2>2. req[r].pc # "new" => (Counted(r)' <=> Counted(r))
    BY <2>1 DEF Kept, Counted, Counts
  <2>3. req'[r].lock <=> req'[r].pc \in Locking /\ Counted(r)'
    BY <1>0, <1>2, <2>2, StepOutcome DEF Outcome, LocksHeld, Locking
  <2> QED
    BY <1>0, <2>1, <2>3 DEF LocksHeld, Kept, Counted, Counts
<1> QED
  BY <1>1, <1>2, NextIsStep

LEMMA OneHolderStays ==
    ASSUME NumberInv, [MeteringNext]_metering
    PROVE  OneHolder'
<1>0. MeteringTypes /\ OneHolder /\ LocksHeld
  BY DEF NumberInv
<1>1. CASE UNCHANGED <<req, incidents, charged>>
  BY <1>0, <1>1 DEF OneHolder
<1>2. ASSUME NEW r \in Requests, Step(r)
      PROVE  OneHolder'
  <2>1. Kept(r) /\ Outcome(r)
    BY <1>0, <1>2, StepKeeps, StepOutcome
  \* Only the first flush takes a lock, of a row that is free.
  <2>2. req'[r].lock => req[r].lock \/ (WriteRow(r) /\ Counted(r))
    BY <2>1 DEF Outcome
  <2>3. WriteRow(r) /\ Counted(r) => \A q \in Requests \ {r} : Of[q] = Of[r] => ~req[q].lock
    BY DEF WriteRow, RowIsFree, Colleagues, Counted
  <2> QED
    BY <1>0, <2>1, <2>2, <2>3 DEF OneHolder, Kept
<1> QED
  BY <1>1, <1>2, NextIsStep

LEMMA CommittedStaysDone ==
    ASSUME NumberInv, [MeteringNext]_metering
    PROVE  CommittedIsDone'
<1>0. MeteringTypes /\ MeteringTypeOK /\ CommittedIsDone /\ NumbersGrow
  BY DEF NumberInv, MeteringTypes
<1>a. ASSUME NEW i \in incidents
      PROVE  /\ i.by \in Requests /\ req'[i.by].pc = "done" /\ i = IncidentOf(i.by)'
             /\ i.number >= 1
  BY <1>0, Steady DEF CommittedIsDone, Over, IncidentOf
<1>b. ASSUME NEW r \in Requests, charged[r] # Never
      PROVE  req'[r].pc = "done" /\ Counted(r)' /\ charged[r] = req'[r].month
  BY <1>0, <1>b, Steady DEF CommittedIsDone, Over
<1>1. CASE UNCHANGED <<incidents, charged>>
  BY <1>1, <1>a, <1>b DEF CommittedIsDone
<1>2. ASSUME NEW r \in Requests, CommitRequest(r)
      PROVE  CommittedIsDone'
  <2>1. Kept(r) /\ req'[r].pc = "done" /\ UNCHANGED Tag(r)
    BY <1>0, <1>2, CommitEnds, StepKeeps DEF Step
  <2>2. req[r].pc # "new" /\ (Counted(r)' <=> Counted(r)) /\ req'[r].month = req[r].month
    BY <1>2, <2>1 DEF CommitRequest, Kept, Counted, Counts
  <2>3. IncidentOf(r)' = IncidentOf(r)
    BY <2>1 DEF Tag, IncidentOf
  <2>4. r \in Threats => req[r].number >= 1
    BY <1>0, <1>2 DEF CommitRequest, NumbersGrow
  <2>5. ASSUME NEW i \in incidents'
        PROVE  /\ i.by \in Requests /\ req'[i.by].pc = "done" /\ i = IncidentOf(i.by)'
               /\ i.number >= 1
    <3>1. CASE i \in incidents
      BY <1>a, <3>1
    <3>2. CASE i \notin incidents
      <4>1. i = IncidentOf(r) /\ r \in Threats
        BY <1>0, <1>2, <2>5, <3>2, CommitForm
      <4>2. i.by = r /\ i.number = req[r].number
        BY <4>1 DEF IncidentOf
      <4> QED
        BY <2>1, <2>3, <2>4, <4>1, <4>2
    <3> QED
      BY <3>1, <3>2
  <2>6. ASSUME NEW q \in Requests, charged'[q] # Never
        PROVE  req'[q].pc = "done" /\ Counted(q)' /\ charged'[q] = req'[q].month
    <3>1. CASE charged'[q] = charged[q]
      BY <1>b, <2>6, <3>1
    <3>2. CASE charged'[q] # charged[q]
      <4>1. q = r /\ Counted(r) /\ charged'[r] = req[r].month
        BY <1>0, <1>2, <3>2, CommitForm DEF MeteringTypeOK
      <4> QED
        BY <2>1, <2>2, <4>1
    <3> QED
      BY <3>1, <3>2
  <2> QED
    BY <2>5, <2>6 DEF CommittedIsDone
<1> QED
  BY <1>0, <1>1, <1>2, NextIsStep, StepKeeps

LEMMA NumbersStayDifferent ==
    ASSUME NumberInv, [MeteringNext]_metering
    PROVE  NumbersDiffer'
<1>0. MeteringTypes /\ MeteringTypeOK /\ NumbersDiffer
  BY DEF NumberInv, MeteringTypes
<1>1. CASE UNCHANGED <<req, incidents, charged>>
  BY <1>0, <1>1 DEF NumbersDiffer, Clashes
<1>2. ASSUME NEW r \in Requests, Step(r)
      PROVE  NumbersDiffer'
  <2>1. Kept(r) /\ Outcome(r)
    BY <1>0, <1>2, StepKeeps, StepOutcome
  \* A request other than r that is opened was it before, with the same number.
  <2>2. \A q \in Requests \ {r} : req'[q] = req[q]
    BY <2>1 DEF Kept
  <2>3. CASE InsertIncident(r)
    <3>1. /\ \A i \in incidents : ~Clashes(r, i)
          /\ \A q \in Requests : req[q].pc = "opened" => ~Clashes(r, req[q])
          /\ UNCHANGED incidents
      BY <2>3 DEF InsertIncident
    <3>2. req'[r].year = req[r].year /\ req'[r].number = req[r].number
      BY <1>0, <2>3, InsertForm DEF Moves, MeteringTypeOK, Req
    <3> QED
      BY <1>0, <2>2, <3>1, <3>2 DEF NumbersDiffer, Clashes
  <2>4. CASE CommitRequest(r) /\ r \in Threats
    <3>1. incidents' = incidents \cup {IncidentOf(r)} /\ req[r].pc = "opened"
      BY <1>0, <2>4, CommitForm DEF CommitRequest
    <3>2. req'[r].pc = "done"
      BY <1>0, <2>4, CommitEnds
    <3>3. IncidentOf(r).year = req[r].year /\ IncidentOf(r).number = req[r].number
      BY DEF IncidentOf
    <3>4. /\ \A i \in incidents : ~(i.year = req[r].year /\ i.number = req[r].number)
          /\ \A q \in Requests \ {r} : req[q].pc = "opened" =>
                ~(req[q].year = req[r].year /\ req[q].number = req[r].number)
      BY <1>0, <3>1 DEF NumbersDiffer, Clashes
    <3>5. \A i, j \in incidents' : i.year = j.year /\ i.number = j.number => i = j
      BY <1>0, <3>1, <3>3, <3>4 DEF NumbersDiffer
    <3>6. ASSUME NEW q \in Requests, req'[q].pc = "opened"
          PROVE  /\ \A i \in incidents' : ~Clashes(q, i)'
                 /\ \A o \in Requests : req'[o].pc = "opened" /\ Clashes(q, req[o])' => o = q
      <4>1. q # r /\ req'[q] = req[q] /\ \A o \in Requests : req'[o].pc = "opened" => req'[o] = req[o]
        BY <2>2, <3>2, <3>6
      <4> QED
        BY <1>0, <3>1, <3>3, <3>4, <3>6, <4>1 DEF NumbersDiffer, Clashes
    <3> QED
      BY <3>5, <3>6 DEF NumbersDiffer, Clashes
  <2>5. CASE ~InsertIncident(r) /\ ~(CommitRequest(r) /\ r \in Threats)
    <3>1. req'[r].pc # "opened"
      BY <2>1, <2>5 DEF Outcome
    <3>2. UNCHANGED incidents
      BY <1>0, <1>2, <2>5, StepKeeps, CommitForm
    <3> QED
      BY <1>0, <2>2, <3>1, <3>2 DEF NumbersDiffer, Clashes
  <2> QED
    BY <2>3, <2>4, <2>5
<1> QED
  BY <1>1, <1>2, NextIsStep

\* The next number of a tenant and year: all below it are committed, and it is not.
LEMMA NextNumberIsNext ==
    ASSUME NumberInv, NEW r \in Requests
    PROVE  /\ NextNumber(r) >= 1 /\ Below(Of[r], Year(month), NextNumber(r))
           /\ \A i \in Mine(Of[r], Year(month)) : i.number # NextNumber(r)
<1> DEFINE S == Mine(Of[r], Year(month))
           f == [i \in S |-> i.number]
<1>0. MeteringTypes /\ CommittedIsDone /\ NumbersDiffer /\ NumbersGrow
  BY DEF NumberInv
<1>1. IsFiniteSet(S) /\ Cardinality(S) \in Nat /\ NextNumber(r) = Cardinality(S) + 1
  BY <1>0, NextNumberIsNat DEF NextNumber
<1>2. f \in [S -> Nat \ {0}]
  <2>1. \A i \in S : i.number \in Nat /\ i.number >= 1
    BY <1>0 DEF Mine, CommittedIsDone, MeteringTypes, MeteringTypeOK, Incident
  <2> QED
    BY <2>1
<1>3. ASSUME NEW i \in S, NEW n \in 1..f[i]
      PROVE  \E j \in S : f[j] = n
  <2>1. i \in incidents /\ i.tenant = Of[r] /\ i.year = Year(month) /\ f[i] = i.number
    BY DEF Mine
  <2>2. CASE n = f[i]
    BY <2>2
  <2>3. CASE n # f[i]
    <3>1. n \in 1..(i.number - 1)
      BY <1>2, <2>1, <2>3
    <3>2. \E j \in S : j.number = n
      BY <1>0, <2>1, <3>1 DEF NumbersGrow, Below
    <3> QED
      BY <3>2
  <2> QED
    BY <2>2, <2>3
<1>4. \A i, j \in S : f[i] = f[j] => i = j
  BY <1>0 DEF NumbersDiffer, Mine
<1> HIDE DEF f
<1>5. \A n \in 1..Cardinality(S) : \E i \in S : f[i] = n
  BY <1>1, <1>2, <1>3, <1>4, DenseIsExact
<1>6. \A i \in S : f[i] <= Cardinality(S)
  BY <1>1, <1>2, <1>3, DenseIsBounded
<1>7. \A i \in S : f[i] = i.number
  BY DEF f
<1>8. Below(Of[r], Year(month), NextNumber(r))
  BY <1>1, <1>5, <1>7 DEF Below
<1>9. \A i \in S : i.number # NextNumber(r)
  BY <1>1, <1>2, <1>6, <1>7
<1> QED
  BY <1>1, <1>8, <1>9

LEMMA NumbersKeepGrowing ==
    ASSUME NumberInv, [MeteringNext]_metering
    PROVE  NumbersGrow'
<1>0. MeteringTypes /\ MeteringTypeOK /\ NumbersGrow
  BY DEF NumberInv, MeteringTypes
<1>a. ASSUME NEW t, NEW y, NEW m, Below(t, y, m)
      PROVE  Below(t, y, m)'
  <2>1. Mine(t, y) \subseteq Mine(t, y)'
    BY <1>0, Steady DEF Mine
  <2> QED
    BY <1>a, <2>1 DEF Below
<1>1. CASE UNCHANGED <<req, incidents, charged>>
  BY <1>0, <1>1 DEF NumbersGrow, Below, Mine
<1>2. ASSUME NEW r \in Requests, Step(r)
      PROVE  NumbersGrow'
  <2>1. Kept(r) /\ Outcome(r)
    BY <1>0, <1>2, StepKeeps, StepOutcome
  <2>2. ASSUME NEW i \in incidents'
        PROVE  Below(i.tenant, i.year, i.number)'
    <3>1. CASE i \in incidents
      BY <1>0, <1>a, <3>1 DEF NumbersGrow
    <3>2. CASE i \notin incidents
      <4>1. CommitRequest(r)
        BY <1>0, <1>2, <3>2, StepKeeps
      <4>2. i = IncidentOf(r) /\ r \in Threats /\ req[r].pc = "opened"
        BY <1>0, <3>2, <4>1, CommitForm DEF CommitRequest
      <4>3. Below(Of[r], req[r].year, req[r].number)
        BY <1>0, <4>2 DEF NumbersGrow
      <4> QED
        BY <1>a, <4>2, <4>3 DEF IncidentOf
    <3> QED
      BY <3>1, <3>2
  <2>3. ASSUME NEW q \in Requests, req'[q].pc \in {"numbered", "opened"}
        PROVE  req'[q].number >= 1 /\ Below(Of[q], req[q].year, req[q].number)'
    <3>1. CASE req[q].pc \in {"numbered", "opened"} /\ req'[q].year = req[q].year
               /\ req'[q].number = req[q].number
      <4>1. req[q].number >= 1 /\ Below(Of[q], req[q].year, req[q].number)
        BY <1>0, <3>1 DEF NumbersGrow
      <4>2. incidents \subseteq incidents'
        BY <1>0, Steady
      <4> QED
        BY <3>1, <4>1, <4>2 DEF Below, Mine
    <3>2. CASE q = r /\ TakeNumber(r) /\ req'[r].year = Year(month) /\ req'[r].number = NextNumber(r)
      <4>1. NextNumber(r) >= 1 /\ Below(Of[r], Year(month), NextNumber(r))
        BY NextNumberIsNext
      <4>2. UNCHANGED <<incidents, month>>
        BY <3>2 DEF TakeNumber
      <4> QED
        BY <3>2, <4>1, <4>2 DEF Below, Mine
    <3> QED
      BY <2>1, <2>3, <3>1, <3>2 DEF Outcome, Tag, Kept
  <2> QED
    BY <2>2, <2>3 DEF NumbersGrow
<1> QED
  BY <1>1, <1>2, NextIsStep

\* While a counted request holds the row, no other counted one of its tenant commits.
LEMMA NumbersStaySaved ==
    ASSUME NumberInv, [MeteringNext]_metering
    PROVE  NumberIsSaved'
<1>0. /\ MeteringTypes /\ MeteringTypeOK /\ NumberIsSaved /\ CommittedIsDone /\ LocksHeld
      /\ OneHolder /\ LockSavesNumbers
  BY DEF NumberInv, MeteringTypes, NumberIsSaved
<1>1. CASE UNCHANGED <<req, incidents, charged>>
  BY <1>0, <1>1 DEF NumberIsSaved, Clashes, Counted, Counts, LockSavesNumbers
<1>2. ASSUME NEW r \in Requests, Step(r)
      PROVE  NumberIsSaved'
  <2>1. Kept(r) /\ Outcome(r)
    BY <1>0, <1>2, StepKeeps, StepOutcome
  \* A request that is over is not charged later.
  <2>2. \A q \in Requests : req[q].pc = "done" => charged'[q] = charged[q] /\ req'[q] = req[q]
    <3>1. UNCHANGED charged \/ (CommitRequest(r) /\ charged' = [charged EXCEPT ![r] = req[r].month])
      BY <1>0, <1>2, StepKeeps, CommitForm
    <3>2. CommitRequest(r) => req[r].pc # "done"
      BY DEF CommitRequest
    <3> QED
      BY <1>0, <3>1, <3>2, Steady, <1>2 DEF MeteringTypeOK, Kept, Over
  <2>3. ASSUME NEW q \in Requests, req'[q].pc = "numbered", Counted(q)', NEW i \in incidents',
               i.tenant = Of[q], Clashes(q, i)'
        PROVE  charged'[i.by] = Never
    <3>1. CASE TakeNumber(r) /\ q = r
      <4>1. UNCHANGED <<incidents, charged, month>>
        BY <3>1 DEF TakeNumber
      <4>2. req'[r].year = Year(month) /\ req'[r].number = NextNumber(r)
        BY <1>0, <3>1, TakeNumberForm, NextNumberIsNat, YearIsNat DEF Moves, MeteringTypeOK, Req
      <4>3. i \in Mine(Of[r], Year(month)) /\ i.number = NextNumber(r)
        BY <2>3, <3>1, <4>1, <4>2 DEF Mine, Clashes
      <4> QED
        BY <4>3, NextNumberIsNext
    <3>2. CASE ~(TakeNumber(r) /\ q = r)
      <4>1. req[q].pc = "numbered" /\ req'[q] = req[q] /\ q # r
        BY <2>1, <2>3, <3>2 DEF Outcome, Kept
      <4>2. Counted(q) /\ Clashes(q, i) /\ req[q].lock
        BY <1>0, <2>3, <4>1 DEF Counted, Counts, Clashes, LocksHeld, Locking
      <4>3. CASE i \in incidents
        BY <1>0, <2>2, <2>3, <4>1, <4>2, <4>3 DEF NumberIsSaved, CommittedIsDone
      <4>4. CASE i \notin incidents
        <5>1. CommitRequest(r)
          BY <1>0, <1>2, <4>4, StepKeeps
        <5>a. i = IncidentOf(r)
          BY <1>0, <2>3, <4>4, <5>1, CommitForm
        <5>2. i.by = r /\ i.tenant = Of[r]
          BY <5>a DEF IncidentOf
        <5>3. req[r].pc \in Locking
          BY <5>1 DEF CommitRequest, Locking
        \* A counted one would hold the row too.
        <5>4. ~Counted(r)
          BY <1>0, <2>3, <4>1, <4>2, <5>2, <5>3 DEF LocksHeld, OneHolder
        <5>5. charged'[r] = charged[r]
          BY <1>0, <5>1, <5>4, CommitForm
        <5>6. charged[r] = Never
          BY <1>0, <5>4 DEF CommittedIsDone
        <5> QED
          BY <5>2, <5>5, <5>6
      <4> QED
        BY <4>3, <4>4
    <3> QED
      BY <3>1, <3>2
  <2>4. ASSUME NEW q \in Requests, req'[q].pc = "collided"
        PROVE  /\ req'[req'[q].met].pc = "done"
               /\ Counts(q, req'[q].read) /\ Of[req'[q].met] = Of[q] => charged'[req'[q].met] = Never
    <3>0. req'[q].met \in Requests
      BY <1>0, <1>2, StepKeeps DEF Req
    <3>1. CASE req[q].pc = "collided"
      <4>1. req'[q] = req[q] /\ req[req[q].met].pc = "done"
        BY <1>0, <3>1, Steady, <1>2 DEF Over, NumberIsSaved
      <4> QED
        BY <1>0, <2>2, <3>0, <3>1, <4>1 DEF LockSavesNumbers
    <3>2. CASE req[q].pc # "collided"
      <4>1. q = r /\ Collide(r) /\ req[r].pc = "numbered"
        BY <2>1, <2>4, <3>2 DEF Outcome, Kept
      <4>2. PICK i \in incidents : Clashes(r, i) /\ req'[r].met = i.by
        BY <2>1, <2>4, <4>1 DEF Outcome
      <4>3. req[i.by].pc = "done" /\ i.tenant = Of[i.by]
        BY <1>0, <4>2 DEF CommittedIsDone, IncidentOf
      <4>4. req'[r].read = req[r].read
        BY <2>1, <4>1 DEF Kept
      <4>5. Counted(r) /\ Of[i.by] = Of[r] => charged[i.by] = Never
        BY <1>0, <4>1, <4>2, <4>3 DEF NumberIsSaved
      <4> QED
        BY <2>2, <3>0, <4>1, <4>2, <4>3, <4>4, <4>5 DEF Counted
    <3> QED
      BY <3>1, <3>2
  <2> QED
    BY <2>3, <2>4 DEF NumberIsSaved, LockSavesNumbers
<1> QED
  BY <1>1, <1>2, NextIsStep

----------------------------------------------------------------------------
(* The charges.                                                            *)

\* What a request in flight will write is one more than what was charged, at most.
NotOvercharged ==
    /\ \A t \in Tenants : row[t].count <= Cardinality(Charged(t))
    /\ \A r \in Requests : InFlight(r) /\ Counted(r) =>
          req[r].mine.count <= Cardinality(Charged(Of[r])) + 1

LEMMA ChargedSteps ==
    ASSUME MeteringTypes, CommittedIsDone, NEW r \in Requests, CommitRequest(r), Counted(r)
    PROVE  /\ Charged(Of[r])' = Charged(Of[r]) \cup {r}
           /\ Cardinality(Charged(Of[r])') = Cardinality(Charged(Of[r])) + 1
           /\ \A t \in Tenants \ {Of[r]} : Charged(t)' = Charged(t)
<1>0. MeteringTypeOK /\ req[r] \in Req
  BY DEF MeteringTypes, MeteringTypeOK
<1>a. req[r].month \in Months
  BY <1>0 DEF Req
<1>b. charged' = [charged EXCEPT ![r] = req[r].month] /\ charged \in [Requests -> Marks]
  BY <1>0, CommitForm DEF MeteringTypeOK
<1>1. charged' = [charged EXCEPT ![r] = req[r].month] /\ req[r].month # Never
      /\ charged \in [Requests -> Marks]
  BY <1>a, <1>b, Parameters
<1>2. charged[r] = Never
  BY DEF CommittedIsDone, CommitRequest
<1>3. Charged(Of[r])' = Charged(Of[r]) \cup {r} /\ r \notin Charged(Of[r])
  BY <1>1, <1>2 DEF Charged
<1>4. \A t \in Tenants \ {Of[r]} : Charged(t)' = Charged(t)
  BY <1>1 DEF Charged
<1>5. IsFiniteSet(Charged(Of[r]))
  BY Parameters DEF MeteringTypes, Finite
<1> QED
  BY <1>3, <1>4, <1>5, FS_AddElement

\* Charges are not taken back.
LEMMA ChargesStay ==
    ASSUME NumberInv, [MeteringNext]_metering
    PROVE  /\ \A q \in Requests : charged[q] # Never => charged'[q] = charged[q]
           /\ \A t \in Tenants : /\ Cardinality(Charged(t)) \in Nat
                                 /\ Cardinality(Charged(t)') \in Nat
                                 /\ Cardinality(Charged(t)') >= Cardinality(Charged(t))
<1>0. MeteringTypes /\ MeteringTypeOK /\ MeteringTypes' /\ CommittedIsDone
  BY MeteringTyped DEF NumberInv, MeteringTypes
<1>1. \A q \in Requests : charged[q] # Never => charged'[q] = charged[q]
  <2>1. CASE UNCHANGED charged
    BY <2>1
  <2>2. ASSUME NEW r \in Requests, CommitRequest(r)
        PROVE  \A q \in Requests : charged[q] # Never => charged'[q] = charged[q]
    BY <1>0, <2>2, CommitForm DEF CommitRequest, CommittedIsDone, MeteringTypeOK
  <2> QED
    BY <1>0, <2>1, <2>2, NextIsStep, StepKeeps
<1>2. ASSUME NEW t \in Tenants
      PROVE  /\ Cardinality(Charged(t)) \in Nat /\ Cardinality(Charged(t)') \in Nat
             /\ Cardinality(Charged(t)') >= Cardinality(Charged(t))
  <2>1. Charged(t) \subseteq Charged(t)'
    BY <1>1 DEF Charged
  <2>2. IsFiniteSet(Charged(t)) /\ IsFiniteSet(Charged(t)')
    BY <1>0 DEF MeteringTypes, Finite
  <2>3. Charged(t) \in SUBSET (Charged(t)')
    BY <2>1
  <2>4. Cardinality(Charged(t)) <= Cardinality(Charged(t)')
    BY <2>2, <2>3, FS_Subset
  <2> QED
    BY <2>2, <2>4, FS_CardinalityType
<1> QED
  BY <1>1, <1>2

LEMMA FlightEnds ==
    ASSUME MeteringTypes, NEW r \in Requests, Step(r)
    PROVE  /\ InFlight(r)' => InFlight(r) \/ Arrive(r)
           /\ req'[r].pc = "refused" => Arrive(r)
           /\ Arrive(r) \/ InFlight(r)
<1>1. Outcome(r)
  BY StepOutcome
<1> QED
  BY <1>1 DEF Outcome, InFlight

LEMMA NotOverchargedStarts ==
    ASSUME MeteringInit
    PROVE  NotOvercharged
<1>1. \A t \in Tenants : Charged(t) = {} /\ row[t].count = 0
  BY DEF MeteringInit, Charged
<1>2. \A r \in Requests : ~InFlight(r)
  BY DEF MeteringInit, InFlight
<1>3. Cardinality({}) = 0
  BY FS_EmptySet
<1>4. \A t \in Tenants : row[t].count <= Cardinality(Charged(t))
  BY <1>1, <1>3
<1> QED
  BY <1>2, <1>4 DEF NotOvercharged

LEMMA NotOverchargedStays ==
    ASSUME NumberInv, NotOvercharged, [MeteringNext]_metering
    PROVE  NotOvercharged'
<1>0. /\ MeteringTypes /\ MeteringTypeOK /\ CommittedIsDone /\ NotOvercharged
      /\ MeteringTypeOK' /\ \A r \in Requests : Of[r] \in Tenants
  BY MeteringTyped, Parameters DEF NumberInv, MeteringTypes
\* The rows.
<1>1. ASSUME NEW t \in Tenants
      PROVE  row'[t].count <= Cardinality(Charged(t)')
  <2>0. /\ row[t] \in MeterRow /\ row[t].count \in Nat /\ row[t].count <= Cardinality(Charged(t))
        /\ Cardinality(Charged(t)) \in Nat /\ Cardinality(Charged(t)') \in Nat
        /\ Cardinality(Charged(t)') >= Cardinality(Charged(t))
    BY <1>0, ChargesStay DEF NotOvercharged, MeteringTypeOK, MeterRow
  <2>1. CASE row'[t].count = row[t].count
    BY <2>0, <2>1
  <2>2. ASSUME NEW r \in Requests, CommitRequest(r), Counted(r), t = Of[r]
        PROVE  row'[t].count <= Cardinality(Charged(t)')
    <3>1. row'[t] = MergedRow(r)
      BY <1>0, <2>2, CommitForm DEF MeteringTypeOK
    <3>2. MergedRow(r).count = req[r].mine.count \/ MergedRow(r).count = row[t].count
      BY <2>2 DEF MergedRow, Merged
    <3>3. Cardinality(Charged(t)') = Cardinality(Charged(t)) + 1
      BY <1>0, <2>2, ChargedSteps
    <3>4. InFlight(r)
      BY <2>2 DEF CommitRequest, InFlight
    <3>5. req[r].mine.count <= Cardinality(Charged(t)) + 1
      BY <1>0, <2>2, <3>4 DEF NotOvercharged
    <3> QED
      BY <2>0, <3>1, <3>2, <3>3, <3>5
  <2>3. CASE \E u \in Tenants, p \in QuotaPlans : PlanChanges(u, p)
    <3>1. PICK u \in Tenants, p \in QuotaPlans : row' = [row EXCEPT ![u].plan = p]
      BY <2>3 DEF PlanChanges
    <3>2. row'[t].count = row[t].count
      BY <1>0, <2>0, <3>1 DEF MeteringTypeOK, MeterRow
    <3> QED
      BY <2>1, <3>2
  <2>4. ASSUME NEW r \in Requests, CommitRequest(r), ~(Counted(r) /\ t = Of[r])
        PROVE  row'[t] = row[t]
    <3>1. CASE ~Counted(r)
      BY <1>0, <2>4, <3>1, CommitForm
    <3>2. CASE Counted(r) /\ t # Of[r]
      <4>1. row' = [row EXCEPT ![Of[r]] = MergedRow(r)]
        BY <1>0, <2>4, <3>2, CommitForm
      <4> QED
        BY <1>0, <3>2, <4>1 DEF MeteringTypeOK
    <3> QED
      BY <2>4, <3>1, <3>2
  <2>5. CASE UNCHANGED row
    BY <2>1, <2>5
  <2>6. \/ UNCHANGED row
        \/ \E r \in Requests : CommitRequest(r)
        \/ \E u \in Tenants, p \in QuotaPlans : PlanChanges(u, p)
    BY DEF MeteringNext, metering, Tick, Arrive, WriteRow, TakeNumber, InsertIncident, Collide, Fail
  <2> QED
    BY <2>1, <2>2, <2>3, <2>4, <2>5, <2>6
\* The requests in flight.
<1>2. ASSUME NEW q \in Requests, InFlight(q)', Counted(q)'
      PROVE  req'[q].mine.count <= Cardinality(Charged(Of[q])') + 1
  <2>0. /\ Cardinality(Charged(Of[q])) \in Nat /\ Cardinality(Charged(Of[q])') \in Nat
        /\ Cardinality(Charged(Of[q])') >= Cardinality(Charged(Of[q]))
    BY <1>0, ChargesStay
  <2>1. CASE InFlight(q) /\ Counted(q) /\ req'[q].mine = req[q].mine
    <3>1. req[q].mine.count <= Cardinality(Charged(Of[q])) + 1 /\ req[q].mine.count \in Nat
      BY <1>0, <2>1 DEF NotOvercharged, MeteringTypeOK, Req, MeterRow
    <3> QED
      BY <2>0, <2>1, <3>1
  <2>2. CASE Arrive(q)
    <3> DEFINE w == row[Of[q]]
    <3>1. req'[q] = Arrived(q) /\ w \in MeterRow /\ req[q] \in Req /\ month \in Months
      BY <1>0, <2>2, ArriveForm DEF Moves, MeteringTypeOK
    <3>2. Arrived(q).read = w
      BY <3>1 DEF Arrived, Req
    <3>3. Counts(q, w)
      BY <1>2, <3>1, <3>2 DEF Counted, Counts
    <3>4. Arrived(q).mine = [Renewed(w) EXCEPT !.count = @ + 1]
      BY <3>1, <3>3 DEF Arrived, Req
    <3>5. Renewed(w) \in MeterRow /\ Renewed(w).count \in {0, w.count}
      BY <3>1, RenewedTypes
    <3>6. Arrived(q).mine.count = Renewed(w).count + 1
      BY <3>4, <3>5 DEF MeterRow
    <3>7. w.count <= Cardinality(Charged(Of[q])) /\ w.count \in Nat
      BY <1>0, <3>1 DEF NotOvercharged, MeterRow
    <3> QED
      BY <2>0, <3>1, <3>5, <3>6, <3>7
  <2>3. CASE UNCHANGED <<req, incidents, charged>>
    BY <1>2, <2>1, <2>3 DEF InFlight, Counted, Counts
  <2>4. ASSUME NEW r \in Requests, Step(r)
        PROVE  Arrive(q) \/ (InFlight(q) /\ Counted(q) /\ req'[q].mine = req[q].mine)
    <3>1. Kept(r)
      BY <1>0, <2>4, StepKeeps
    <3>2. CASE q # r
      BY <1>2, <3>1, <3>2 DEF Kept, InFlight, Counted, Counts
    <3>3. CASE q = r /\ ~Arrive(r)
      <4>1. InFlight(r)
        BY <1>0, <2>4, <3>3, FlightEnds
      <4>2. req'[r].mine = req[r].mine /\ req'[r].read = req[r].read
        BY <3>1, <4>1 DEF Kept, InFlight
      <4> QED
        BY <1>2, <3>3, <4>1, <4>2 DEF Counted, Counts
    <3> QED
      BY <3>2, <3>3
  <2> QED
    BY <2>1, <2>2, <2>3, <2>4, NextIsStep
<1> QED
  BY <1>1, <1>2 DEF NotOvercharged

MeteringInv == NumberInv /\ NotOvercharged

\* Whatever requests of a tenant are handled at once, commit or fail: who holds the row lock,
\* which numbers are committed, which are only taken, and what a request will charge at most.
THEOREM MeteringInvariant == MeteringSpec => []MeteringInv
<1>1. MeteringInit => MeteringInv
  BY NumbersStart, NotOverchargedStarts DEF MeteringInv
<1>2. MeteringInv /\ [MeteringNext]_metering => MeteringInv'
  <2> SUFFICES ASSUME NumberInv, NotOvercharged, [MeteringNext]_metering
               PROVE  NumberInv' /\ NotOvercharged'
    BY DEF MeteringInv
  <2>1. MeteringTypes'
    BY MeteringTyped DEF NumberInv
  <2> QED
    BY <2>1, LocksAreHeld, OneHolderStays, CommittedStaysDone, NumbersStayDifferent,
       NumbersKeepGrowing, NumbersStaySaved, NotOverchargedStays DEF NumberInv
<1> QED
  BY <1>1, <1>2, PTL DEF MeteringSpec

\* next_incident_number counts the committed incidents of the tenant's year and adds one,
\* and the unique constraint turns away the second with a number: no gap is ever committed.
THEOREM NumbersAreAlwaysDense == MeteringSpec => []NumbersAreDense
<1>1. MeteringInv => NumbersAreDense
  <2> SUFFICES ASSUME MeteringInv, NEW i \in incidents, NEW n \in 1..i.number
               PROVE  \E j \in Mine(i.tenant, i.year) : j.number = n
    BY DEF NumbersAreDense
  <2>1. i.number \in Nat /\ i \in Mine(i.tenant, i.year) /\ Below(i.tenant, i.year, i.number)
    BY DEF MeteringInv, NumberInv, MeteringTypes, MeteringTypeOK, Incident, Mine, NumbersGrow
  <2>2. CASE n = i.number
    BY <2>1, <2>2
  <2>3. CASE n \in 1..(i.number - 1)
    BY <2>1, <2>3 DEF Below
  <2> QED
    BY <2>1, <2>2, <2>3
<1> QED
  BY <1>1, MeteringInvariant, PTL

\* record_request flushes the counter's row, and its lock is held to the commit: no other counted
\* request of the tenant commits the number that this one took in the meantime.
THEOREM TheLockSavesNumbers == MeteringSpec => []LockSavesNumbers
<1>1. MeteringInv => LockSavesNumbers
  BY DEF MeteringInv, NumberInv, NumberIsSaved
<1> QED
  BY <1>1, MeteringInvariant, PTL

\* The counter of a tenant is at most the number of its requests that were ever charged, though
\* every request writes back a count that it read before the others'.
THEOREM NoTenantIsOvercharged == MeteringSpec => []NoPhantomCharge
<1>1. MeteringInv => NoPhantomCharge
  BY DEF MeteringInv, NotOvercharged, NoPhantomCharge, Charged
<1> QED
  BY <1>1, MeteringInvariant, PTL

----------------------------------------------------------------------------
(* The quota.                                                              *)

\* One request of t is in flight at most.
Solo(t) ==
    \A r, q \in Requests : Of[r] = t /\ Of[q] = t /\ InFlight(r) /\ InFlight(q) => r = q

\* The row counts the last month in which a request of t was charged.
RowExact(t) ==
    /\ \A r \in Requests : Of[r] = t /\ charged[r] # Never =>
          row[t].reset # Never /\ charged[r] <= row[t].reset
    /\ row[t].reset # Never =>
          row[t].reset <= month /\ row[t].count = Cardinality(ChargedIn(t, row[t].reset))

\* A request in flight still has the counters of the row, and will make the next charge
\* of its month of it, within the limit.
FlightExact(r) ==
    /\ req[r].read.count = row[Of[r]].count /\ req[r].read.reset = row[Of[r]].reset
    /\ req[r].mine.reset = req[r].month /\ req[r].month <= month
    /\ row[Of[r]].reset # Never => row[Of[r]].reset <= req[r].month
    /\ req[r].mine.count = Cardinality(ChargedIn(Of[r], req[r].month)) + 1
    /\ Strict => req[r].mine.count <= Limit[req[r].read.plan]

RefusedExact(r) == Cardinality(ChargedIn(Of[r], req[r].month)) >= Limit[req[r].read.plan]

StrictExact(t, m) ==
    Strict /\ ChargedIn(t, m) # {} =>
        \E p \in QuotaPlans : Limit[p] # Unlimited /\ Cardinality(ChargedIn(t, m)) <= Limit[p]

ExactFor(t) ==
    /\ Solo(t)
    /\ RowExact(t)
    /\ \A r \in Requests : Of[r] = t =>
          /\ InFlight(r) /\ Counted(r) => FlightExact(r)
          /\ req[r].pc = "refused" => Counted(r) /\ RefusedExact(r)
    /\ \A m \in Months : StrictExact(t, m)

QuotaInv == MeteringInv /\ \A t \in Tenants : alone[t] => ExactFor(t)

LEMMA ChargedIsFinite ==
    ASSUME MeteringTypes, NEW t \in Tenants, NEW m \in Months
    PROVE  IsFiniteSet(ChargedIn(t, m)) /\ Cardinality(ChargedIn(t, m)) \in Nat
<1>1. ChargedIn(t, m) \subseteq Charged(t)
  BY Parameters DEF ChargedIn, Charged
<1>2. IsFiniteSet(ChargedIn(t, m))
  BY <1>1, FS_Subset DEF MeteringTypes, Finite
<1> QED
  BY <1>2, FS_CardinalityType

\* The months of a year differ in their number: the row is stale when a month began
\* that is not the one it counts.
LEMMA WithinAYear ==
    ASSUME MaxMonth < FirstMonth + YearLength, MeteringTypeOK, NEW mark \in Months, mark <= month
    PROVE  Stale(mark) <=> mark # month
<1>1. /\ mark \in Nat /\ month \in Nat /\ YearLength \in Nat \ {0} /\ month < mark + YearLength
      /\ mark # Never
  BY MeteringAssumption, Parameters DEF MeteringTypeOK, Months
<1>2. mark % YearLength = month % YearLength => mark = month
  BY <1>1, SameMonth
<1> QED
  BY <1>1, <1>2 DEF Stale

\* What the handler makes of an exact row counts this month's requests.
LEMMA RenewedIsExact ==
    ASSUME MaxMonth < FirstMonth + YearLength, MeteringTypes, NEW t \in Tenants, RowExact(t)
    PROVE  /\ Renewed(row[t]).reset = month
           /\ Renewed(row[t]).count = Cardinality(ChargedIn(t, month))
           /\ row[t].reset # Never => row[t].reset <= month
<1>0. MeteringTypeOK /\ row[t] \in MeterRow /\ month \in Months /\ row[t].reset \in Marks
  BY DEF MeteringTypes, MeteringTypeOK, MeterRow
<1>1. row[t].reset # Never => row[t].reset \in Months /\ row[t].reset <= month
  BY <1>0 DEF RowExact, Marks
<1>2. CASE Stale(row[t].reset)
  <2>1. Renewed(row[t]).count = 0 /\ Renewed(row[t]).reset = month
    BY <1>0, <1>2, RenewedTypes
  <2>2. ASSUME row[t].reset # Never
        PROVE  row[t].reset \in Nat /\ month \in Nat /\ row[t].reset < month
    <3>1. row[t].reset \in Months /\ row[t].reset <= month
      BY <1>1, <2>2
    <3>2. row[t].reset # month
      BY <1>0, <1>2, <3>1, WithinAYear
    <3>3. row[t].reset \in Nat /\ month \in Nat
      BY <1>0, <3>1, Parameters
    <3> QED
      BY <3>1, <3>2, <3>3
  <2>3. \A r \in Requests : Of[r] = t => charged[r] # month
    <3> SUFFICES ASSUME NEW r \in Requests, Of[r] = t, charged[r] = month
                 PROVE  FALSE
      OBVIOUS
    <3>1. month # Never /\ month \in Nat
      BY <1>0, Parameters
    <3>2. row[t].reset # Never /\ month <= row[t].reset
      BY <3>1 DEF RowExact
    <3>3. row[t].reset \in Nat /\ month \in Nat /\ row[t].reset < month
      BY <2>2, <3>2
    <3> QED
      BY <3>2, <3>3
  <2>4. ChargedIn(t, month) = {}
    BY <2>3 DEF ChargedIn
  <2> QED
    BY <1>1, <2>1, <2>4, FS_EmptySet
<1>3. CASE ~Stale(row[t].reset)
  <2>1. row[t].reset # Never
    BY <1>3 DEF Stale
  <2>2. row[t].reset = month
    BY <1>0, <1>1, <1>3, <2>1, WithinAYear
  <2>3. Renewed(row[t]).count = row[t].count /\ Renewed(row[t]).reset = row[t].reset
    BY <1>0, <1>3, RenewedTypes
  <2> QED
    BY <2>1, <2>2, <2>3 DEF RowExact
<1> QED
  BY <1>2, <1>3

\* A step that leaves a tenant's counters and charges alone.
Quiet(t) ==
    /\ row'[t].count = row[t].count /\ row'[t].reset = row[t].reset
    /\ \A q \in Requests : Of[q] = t => charged'[q] = charged[q]
    /\ month' \in Months /\ month \in Months /\ month <= month'

LEMMA QuietKeeps ==
    ASSUME MeteringTypes, NEW t \in Tenants, Quiet(t), RowExact(t)
    PROVE  /\ \A m : ChargedIn(t, m)' = ChargedIn(t, m)
           /\ RowExact(t)'
           /\ \A m \in Months : StrictExact(t, m) => StrictExact(t, m)'
<1>1. \A m : ChargedIn(t, m)' = ChargedIn(t, m)
  BY DEF ChargedIn, Quiet
<1>2. row[t].reset \in Marks
  BY DEF MeteringTypes, MeteringTypeOK, MeterRow
<1>3. ChargedIn(t, row[t].reset)' = ChargedIn(t, row'[t].reset)
  BY <1>1 DEF Quiet, ChargedIn
<1>4. RowExact(t)'
  <2>1. \A r \in Requests : Of[r] = t /\ charged'[r] # Never =>
          row'[t].reset # Never /\ charged'[r] <= row'[t].reset
    BY DEF RowExact, Quiet
  <2>2. ASSUME row'[t].reset # Never
        PROVE  row'[t].reset <= month' /\ row'[t].count = Cardinality(ChargedIn(t, row[t].reset)')
    <3>1. row[t].reset <= month /\ row[t].count = Cardinality(ChargedIn(t, row[t].reset))
          /\ row[t].reset \in Nat
      BY <1>2, <2>2, Parameters DEF RowExact, Quiet, Marks
    <3>2. month \in Nat /\ month' \in Nat
      BY Parameters DEF Quiet
    <3> QED
      BY <1>3, <3>1, <3>2 DEF Quiet
  <2> QED
    BY <2>1, <2>2 DEF RowExact
<1>5. \A m \in Months : StrictExact(t, m) => StrictExact(t, m)'
  BY <1>1 DEF StrictExact
<1> QED
  BY <1>1, <1>4, <1>5

\* A quiet step keeps what was exact of a request that stays in flight, or refused.
LEMMA QuietRequests ==
    ASSUME MeteringTypes, NEW r \in Requests, Quiet(Of[r]), RowExact(Of[r]),
           req'[r].read = req[r].read, req'[r].mine = req[r].mine, req'[r].month = req[r].month
    PROVE  /\ FlightExact(r) => FlightExact(r)'
           /\ RefusedExact(r) => RefusedExact(r)'
           /\ Counted(r)' = Counted(r)
<1>0. Of[r] \in Tenants /\ req[r].month \in Months
  BY Parameters DEF MeteringTypes, MeteringTypeOK, Req
<1>1. ChargedIn(Of[r], req[r].month)' = ChargedIn(Of[r], req[r].month)
  <2>1. ChargedIn(Of[r], req[r].month)' = ChargedIn(Of[r], req'[r].month)
    BY DEF ChargedIn, Quiet
  <2> QED
    BY <2>1
<1>2. req[r].month \in Nat /\ month \in Nat /\ month' \in Nat /\ month <= month'
  BY <1>0, Parameters DEF Quiet
<1>3. FlightExact(r) => FlightExact(r)'
  BY <1>1, <1>2 DEF FlightExact, Quiet
<1> QED
  BY <1>1, <1>3 DEF RefusedExact, Counted, Counts

LEMMA QuotaStarts ==
    ASSUME MeteringInit
    PROVE  \A t \in Tenants : alone[t] => ExactFor(t)
<1>1. ASSUME NEW t \in Tenants
      PROVE  ExactFor(t)
  <2>1. \A r \in Requests : ~InFlight(r) /\ req[r].pc # "refused"
    BY DEF MeteringInit, InFlight
  <2>2. row[t].reset = Never /\ \A r \in Requests : charged[r] = Never
    BY DEF MeteringInit
  <2>3. \A m \in Months : ChargedIn(t, m) = {}
    BY <2>2, Parameters DEF ChargedIn
  <2> QED
    BY <2>1, <2>2, <2>3 DEF ExactFor, Solo, RowExact, StrictExact
<1> QED
  BY <1>1

\* Months pass, and the plan changes: neither touches the counters.
LEMMA QuotaOutside ==
    ASSUME MeteringTypes, NEW t \in Tenants, ExactFor(t), [MeteringNext]_metering,
           UNCHANGED <<req, charged>>, row'[t].count = row[t].count, row'[t].reset = row[t].reset,
           month' \in Months, month <= month'
    PROVE  ExactFor(t)'
<1>1. Quiet(t) /\ RowExact(t)
  BY DEF Quiet, ExactFor, MeteringTypes, MeteringTypeOK
<1>2. RowExact(t)' /\ \A m \in Months : StrictExact(t, m)'
  BY <1>1, QuietKeeps DEF ExactFor
<1>3. ASSUME NEW r \in Requests, Of[r] = t
      PROVE  /\ InFlight(r)' /\ Counted(r)' => FlightExact(r)'
             /\ req'[r].pc = "refused" => Counted(r)' /\ RefusedExact(r)'
  <2>1. /\ FlightExact(r) => FlightExact(r)'
        /\ RefusedExact(r) => RefusedExact(r)'
        /\ Counted(r)' = Counted(r)
    BY <1>1, <1>3, QuietRequests
  <2> QED
    BY <1>3, <2>1 DEF ExactFor, InFlight
<1>4. Solo(t)'
  BY DEF ExactFor, Solo, InFlight
<1> QED
  BY <1>2, <1>3, <1>4 DEF ExactFor

\* A request of t, or of another tenant, takes a step that charges t nothing.
LEMMA QuotaQuietStep ==
    ASSUME MaxMonth < FirstMonth + YearLength, MeteringTypes, NEW t \in Tenants, ExactFor(t),
           NEW s \in Requests, Step(s), Quiet(t),
           Arrive(s) /\ Of[s] = t => \A q \in Requests \ {s} : Of[q] = t => ~InFlight(q)
    PROVE  ExactFor(t)'
<1>0. /\ MeteringTypeOK /\ req' \in [Requests -> Req] /\ Kept(s) /\ RowExact(t)
      /\ UNCHANGED month /\ month \in Months
  BY StepKeeps DEF ExactFor, MeteringTypes, MeteringTypeOK
<1>1. RowExact(t)' /\ \A m \in Months : StrictExact(t, m)'
  BY <1>0, QuietKeeps DEF ExactFor
<1>2. Solo(t)'
  <2>1. \A r \in Requests : InFlight(r)' => InFlight(r) \/ (r = s /\ Arrive(s))
    BY <1>0, FlightEnds DEF Kept, InFlight
  <2> QED
    BY <2>1 DEF ExactFor, Solo
<1>3. ASSUME NEW r \in Requests, Of[r] = t
      PROVE  /\ InFlight(r)' /\ Counted(r)' => FlightExact(r)'
             /\ req'[r].pc = "refused" => Counted(r)' /\ RefusedExact(r)'
  \* What it read it keeps, unless it arrives.
  <2>1. CASE r # s \/ ~Arrive(s)
    <3>1. /\ req'[r].read = req[r].read /\ req'[r].mine = req[r].mine
          /\ req'[r].month = req[r].month
          /\ InFlight(r)' => InFlight(r)
          /\ req'[r].pc = "refused" => req[r].pc = "refused"
      <4>1. CASE r # s
        BY <1>0, <4>1 DEF Kept, InFlight
      <4>2. CASE r = s
        <5>1. InFlight(s) /\ req[s].pc # "new"
          BY <2>1, <4>2, FlightEnds DEF InFlight
        <5>2. req'[s].pc # "refused"
          BY <2>1, <4>2, FlightEnds
        <5> QED
          BY <1>0, <4>2, <5>1, <5>2 DEF Kept
      <4> QED
        BY <4>1, <4>2
    <3>2. /\ FlightExact(r) => FlightExact(r)'
          /\ RefusedExact(r) => RefusedExact(r)'
          /\ Counted(r)' = Counted(r)
      BY <1>0, <1>3, <3>1, QuietRequests
    <3> QED
      BY <1>3, <3>1, <3>2 DEF ExactFor
  \* It reads a row that is exact.
  <2>2. CASE r = s /\ Arrive(s)
    <3> DEFINE w == row[t]
    <3>1. req'[r] = Arrived(r) /\ w \in MeterRow /\ req[r] \in Req
      BY <1>0, <1>3, <2>2, ArriveForm DEF Moves, MeteringTypeOK
    <3>2. Arrived(r).read = w /\ Arrived(r).month = month
      BY <1>3, <3>1 DEF Arrived, Req
    <3>3. /\ Renewed(w).reset = month /\ Renewed(w).plan = w.plan /\ Renewed(w) \in MeterRow
          /\ Renewed(w).count = Cardinality(ChargedIn(t, month))
          /\ w.reset # Never => w.reset <= month
      BY <1>0, <3>1, RenewedIsExact, RenewedTypes
    <3>4. ChargedIn(Of[r], req[r].month)' = ChargedIn(t, month)
      BY <1>3, <3>1, <3>2 DEF Quiet, ChargedIn
    <3>5. Counted(r)' <=> Counts(r, w)
      BY <3>1, <3>2 DEF Counted, Counts
    <3>6. Counts(r, w) => Arrived(r).pc = Verdict(Renewed(w))
                          /\ Arrived(r).mine = [Renewed(w) EXCEPT !.count = @ + 1]
      BY <1>3, <3>1 DEF Arrived, Req
    <3>7. Counts(r, w) => Arrived(r).mine.count = Renewed(w).count + 1
                          /\ Arrived(r).mine.reset = month
      BY <3>3, <3>6 DEF MeterRow
    <3>8. Counts(r, w) => Limit[w.plan] \in Nat
      BY <3>1, Parameters DEF Counts, MeterRow
    <3>9. ASSUME req'[r].pc = "refused"
          PROVE  Counted(r)' /\ RefusedExact(r)'
      <4>1. Counts(r, w)
        BY <1>3, <3>1, <3>9 DEF Arrived, Req
      <4>2. AtLimit(Renewed(w))
        BY <3>1, <3>6, <3>9, <4>1 DEF Verdict
      <4>3. Cardinality(ChargedIn(t, month)) >= Limit[w.plan]
        BY <3>3, <4>2 DEF AtLimit
      <4> QED
        BY <1>3, <3>1, <3>2, <3>4, <3>5, <4>1, <4>3 DEF RefusedExact
    <3>10. ASSUME InFlight(r)', Counted(r)'
           PROVE  FlightExact(r)'
      <4>1. Strict => ~AtLimit(Renewed(w))
        BY <3>1, <3>5, <3>6, <3>10 DEF Verdict, InFlight
      <4>2. Cardinality(ChargedIn(t, month)) \in Nat /\ Limit[w.plan] \in Nat /\ month \in Nat
        BY <1>0, <3>5, <3>8, <3>10, ChargedIsFinite, Parameters
      <4>3. Strict => Arrived(r).mine.count <= Limit[w.plan]
        BY <3>3, <3>5, <3>7, <3>10, <4>1, <4>2 DEF AtLimit
      <4>4. /\ w.count = row'[t].count /\ w.reset = row'[t].reset
            /\ month = month' /\ month <= month
        BY <1>0, <4>2 DEF Quiet
      <4> QED
        BY <1>3, <3>1, <3>2, <3>3, <3>5, <3>7, <3>4, <3>10, <4>3, <4>4 DEF FlightExact
    <3> QED
      BY <3>9, <3>10
  <2> QED
    BY <2>1, <2>2
<1> QED
  BY <1>1, <1>2, <1>3 DEF ExactFor

\* The commit of a counted request: the row counts one more, in the request's month.
LEMMA QuotaCommit ==
    ASSUME NumberInv, NEW t \in Tenants, ExactFor(t), [MeteringNext]_metering,
           NEW s \in Requests, CommitRequest(s), Counted(s), Of[s] = t
    PROVE  ExactFor(t)'
<1>0. /\ MeteringTypes /\ MeteringTypeOK /\ CommittedIsDone /\ MeteringTypes'
      /\ req' \in [Requests -> Req] /\ Kept(s)
      /\ UNCHANGED month /\ req[s] \in Req /\ row[t] \in MeterRow
  BY StepKeeps, MeteringTyped DEF Step, NumberInv, MeteringTypes, MeteringTypeOK
<1>1. InFlight(s) /\ FlightExact(s) /\ RowExact(t) /\ charged[s] = Never /\ req[s].month \in Months
  BY <1>0 DEF CommitRequest, InFlight, ExactFor, CommittedIsDone, Req
<1>a. PICK n \in Months : n = req[s].month
  BY <1>1
<1>2. row' = [row EXCEPT ![t] = MergedRow(s)] /\ charged' = [charged EXCEPT ![s] = n]
  BY <1>0, <1>a, CommitForm
<1>3. row'[t] = MergedRow(s) /\ charged'[s] = n
      /\ \A q \in Requests \ {s} : charged'[q] = charged[q]
  BY <1>0, <1>2 DEF MeteringTypeOK
<1>4. row'[t].count = req[s].mine.count /\ row'[t].reset = n
  <2>1. req[s].read.count = row[t].count /\ req[s].read.reset = row[t].reset /\ req[s].mine.reset = n
    BY <1>1, <1>a DEF FlightExact
  <2>2. MergedRow(s).count = req[s].mine.count /\ MergedRow(s).reset = req[s].mine.reset
    BY <2>1 DEF MergedRow, Merged
  <2> QED
    BY <1>3, <2>1, <2>2
<1>5. n \in Nat /\ month \in Nat /\ n <= month /\ n # Never
  BY <1>0, <1>1, <1>a, Parameters DEF FlightExact, MeteringTypeOK
<1>6. ChargedIn(t, n)' = ChargedIn(t, n) \cup {s} /\ s \notin ChargedIn(t, n)
  BY <1>1, <1>3, <1>5 DEF ChargedIn
<1>b. \A m \in Months \ {n} : ChargedIn(t, m)' = ChargedIn(t, m)
  BY <1>1, <1>3, Parameters DEF ChargedIn
<1>7. /\ Cardinality(ChargedIn(t, n)) \in Nat /\ Cardinality(ChargedIn(t, n)') \in Nat
      /\ Cardinality(ChargedIn(t, n)') = Cardinality(ChargedIn(t, n)) + 1
  <2>1. IsFiniteSet(ChargedIn(t, n)) /\ Cardinality(ChargedIn(t, n)) \in Nat
    BY <1>0, ChargedIsFinite
  <2>2. Cardinality(ChargedIn(t, n) \cup {s}) = Cardinality(ChargedIn(t, n)) + 1
    BY <1>6, <2>1, FS_AddElement
  <2> QED
    BY <1>6, <2>1, <2>2
<1>8. row'[t].count = Cardinality(ChargedIn(t, n)')
  BY <1>1, <1>4, <1>7, <1>a DEF FlightExact
<1>9. RowExact(t)'
  <2>1. ASSUME NEW r \in Requests, Of[r] = t, charged'[r] # Never
        PROVE  charged'[r] <= n
    <3>1. CASE r = s
      BY <1>3, <1>5, <3>1
    <3>2. CASE r # s
      <4>1. charged'[r] = charged[r] /\ charged[r] \in Months
        BY <1>0, <1>3, <2>1, <3>2 DEF MeteringTypeOK, Marks
      <4>2. charged[r] <= row[t].reset /\ row[t].reset # Never
        BY <1>1, <2>1, <4>1 DEF RowExact
      <4>3. row[t].reset <= n /\ row[t].reset \in Months
        BY <1>0, <1>1, <1>a, <4>2 DEF FlightExact, MeterRow, Marks
      <4>4. charged[r] \in Nat /\ row[t].reset \in Nat
        BY <4>1, <4>3, Parameters
      <4> QED
        BY <1>5, <4>1, <4>2, <4>3, <4>4
    <3> QED
      BY <3>1, <3>2
  <2>2. row'[t].reset = n /\ n # Never /\ n <= month'
    BY <1>0, <1>4, <1>5
  <2>3. ChargedIn(t, row[t].reset)' = ChargedIn(t, n)'
    BY <1>4 DEF ChargedIn
  <2> QED
    BY <1>8, <2>1, <2>2, <2>3 DEF RowExact
\* None of the tenant's requests is in flight any more.
<1>10. req'[s].pc = "done" /\ \A q \in Requests \ {s} : req'[q] = req[q]
  BY <1>0, CommitEnds DEF Kept
<1>11. \A r \in Requests : Of[r] = t => ~InFlight(r)'
  BY <1>1, <1>10 DEF ExactFor, Solo, InFlight
<1>12. ASSUME NEW r \in Requests, Of[r] = t, req'[r].pc = "refused"
       PROVE  Counted(r)' /\ RefusedExact(r)'
  <2>1. req'[r] = req[r] /\ Counted(r) /\ RefusedExact(r) /\ req[r] \in Req
    BY <1>0, <1>10, <1>12 DEF ExactFor, MeteringTypeOK
  <2>2. PICK m \in Months : m = req[r].month
    BY <2>1 DEF Req
  <2>3. /\ Cardinality(ChargedIn(t, m)) \in Nat /\ Cardinality(ChargedIn(t, m)') \in Nat
        /\ Cardinality(ChargedIn(t, m)') >= Cardinality(ChargedIn(t, m))
    <3>1. Cardinality(ChargedIn(t, m)) \in Nat
      BY <1>0, ChargedIsFinite
    <3>2. CASE m = n
      BY <1>7, <3>2
    <3>3. CASE m # n
      BY <1>b, <3>1, <3>3
    <3> QED
      BY <3>2, <3>3
  <2>4. Limit[req[r].read.plan] \in Nat
    BY <2>1, Parameters DEF Counted, Counts, Req, MeterRow
  <2>5. ChargedIn(Of[r], req[r].month)' = ChargedIn(t, m)'
    BY <1>12, <2>1, <2>2 DEF ChargedIn
  <2>6. Cardinality(ChargedIn(t, m)) >= Limit[req[r].read.plan]
    BY <1>12, <2>1, <2>2 DEF RefusedExact
  <2>7. RefusedExact(r)'
    BY <2>1, <2>3, <2>4, <2>5, <2>6 DEF RefusedExact
  <2> QED
    BY <2>1, <2>7 DEF Counted, Counts
<1>13. ASSUME NEW m \in Months
       PROVE  StrictExact(t, m)'
  <2>1. CASE m = n
    <3>1. Strict => req[s].mine.count <= Limit[req[s].read.plan]
      BY <1>1 DEF FlightExact
    <3>2. req[s].read.plan \in QuotaPlans /\ Limit[req[s].read.plan] # Unlimited
      BY <1>0 DEF Req, MeterRow, Counted, Counts
    <3>3. Strict => Cardinality(ChargedIn(t, m)') <= Limit[req[s].read.plan]
      BY <1>4, <1>8, <2>1, <3>1
    <3> QED
      BY <3>2, <3>3 DEF StrictExact
  <2>2. CASE m # n
    BY <1>b, <2>2 DEF StrictExact, ExactFor
  <2> QED
    BY <2>1, <2>2
<1> QED
  BY <1>9, <1>11, <1>12, <1>13 DEF ExactFor, Solo

LEMMA QuotaStays ==
    ASSUME MaxMonth < FirstMonth + YearLength, QuotaInv, [MeteringNext]_metering,
           NEW t \in Tenants, alone'[t]
    PROVE  ExactFor(t)'
<1>0. NumberInv /\ MeteringTypes /\ MeteringTypeOK /\ (alone[t] => ExactFor(t))
  BY DEF QuotaInv, MeteringInv, NumberInv, MeteringTypes
<1>1. CASE Tick
  <2>1. month' \in Months /\ month <= month' /\ UNCHANGED <<row, req, charged, alone>>
    BY <1>0, <1>1, MeteringAssumption DEF Tick, MeteringTypeOK, Months
  <2> QED
    BY <1>0, <2>1, QuotaOutside
<1>2. ASSUME NEW u \in Tenants, NEW p \in QuotaPlans, PlanChanges(u, p)
      PROVE  ExactFor(t)'
  <2>1. row'[t].count = row[t].count /\ row'[t].reset = row[t].reset
    BY <1>0, <1>2 DEF PlanChanges, MeteringTypeOK, MeterRow
  <2>2. month' \in Months /\ month <= month' /\ UNCHANGED <<req, charged, alone>>
    BY <1>0, <1>2, Parameters DEF PlanChanges, MeteringTypeOK
  <2> QED
    BY <1>0, <2>1, <2>2, QuotaOutside
<1>3. CASE UNCHANGED metering
  <2>1. month' \in Months /\ month <= month' /\ UNCHANGED <<row, req, charged, alone>>
    BY <1>0, <1>3, Parameters DEF metering, MeteringTypeOK
  <2> QED
    BY <1>0, <2>1, QuotaOutside
<1>4. ASSUME NEW s \in Requests, Step(s)
      PROVE  ExactFor(t)'
  <2>0. UNCHANGED month /\ month \in Months /\ month <= month
    <3>1. UNCHANGED month
      BY <1>0, <1>4, StepKeeps
    <3>2. month \in Months /\ month \in Int
      BY <1>0, Parameters DEF MeteringTypeOK, Months
    <3> QED
      BY <3>1, <3>2
  <2>1. CASE Arrive(s)
    <3>1. /\ alone' = [alone EXCEPT ![Of[s]] = @ /\ \A q \in Colleagues(s) : ~InFlight(q)]
          /\ UNCHANGED <<row, charged>>
      BY <2>1 DEF Arrive
    <3>2. alone[t] /\ (Of[s] = t => \A q \in Colleagues(s) : ~InFlight(q))
      BY <1>0, <3>1 DEF MeteringTypeOK
    <3>3. Of[s] = t => \A q \in Requests \ {s} : Of[q] = t => ~InFlight(q)
      BY <3>2 DEF Colleagues
    <3>4. Quiet(t)
      BY <2>0, <3>1 DEF Quiet
    <3> QED
      BY <1>0, <1>4, <3>2, <3>3, <3>4, QuotaQuietStep
  <2>2. CASE ~Arrive(s)
    <3>1. UNCHANGED alone
      BY <1>4, <2>2 DEF Step, WriteRow, TakeNumber, InsertIncident, Collide, CommitRequest, Fail
    <3>2. CASE CommitRequest(s) /\ Counted(s) /\ Of[s] = t
      BY <1>0, <3>1, <3>2, QuotaCommit
    <3>3. CASE ~(CommitRequest(s) /\ Counted(s) /\ Of[s] = t)
      <4>1. row'[t] = row[t] /\ \A q \in Requests : Of[q] = t => charged'[q] = charged[q]
        <5>1. CASE CommitRequest(s) /\ Counted(s)
          <6>1. Of[s] # t
            BY <3>3, <5>1
          <6>2. /\ row' = [row EXCEPT ![Of[s]] = MergedRow(s)]
                /\ charged' = [charged EXCEPT ![s] = req[s].month]
            BY <1>0, <5>1, CommitForm
          <6> QED
            BY <1>0, <6>1, <6>2 DEF MeteringTypeOK
        <5>2. CASE CommitRequest(s) /\ ~Counted(s)
          BY <1>0, <5>2, CommitForm
        <5>3. CASE ~CommitRequest(s)
          BY <1>4, <5>3 DEF Step, Arrive, WriteRow, TakeNumber, InsertIncident, Collide, Fail
        <5> QED
          BY <5>1, <5>2, <5>3
      <4>2. Quiet(t)
        BY <2>0, <4>1 DEF Quiet
      <4> QED
        BY <1>0, <1>4, <2>2, <3>1, <4>2, QuotaQuietStep
    <3> QED
      BY <3>2, <3>3
  <2> QED
    BY <2>1, <2>2
<1> QED
  BY <1>1, <1>2, <1>3, <1>4 DEF MeteringNext, Step

\* While a tenant's requests are handled one at a time its counter is exactly what it was charged
\* in the month of the counter, a refused request found the quota used up, and strict mode serves
\* none beyond it.  The months of the instance lie less than a year apart: the code resets the
\* counter when the months differ, whatever the years (enforcement.py:44), and a tenant that is
\* silent for exactly a year would go on with the old count.
THEOREM QuotaWithinAYear ==
    ASSUME MaxMonth < FirstMonth + YearLength
    PROVE  MeteringSpec => []QuotaIsExact
<1>1. MeteringInit => \A t \in Tenants : alone[t] => ExactFor(t)
  BY QuotaStarts
<1>2. MeteringInv /\ (\A t \in Tenants : alone[t] => ExactFor(t)) /\ [MeteringNext]_metering
        => (\A t \in Tenants : alone[t] => ExactFor(t))'
  BY QuotaStays DEF QuotaInv
<1>3. (\A t \in Tenants : alone[t] => ExactFor(t)) => QuotaIsExact
  BY DEF ExactFor, RowExact, RefusedExact, StrictExact, QuotaIsExact
<1> QED
  BY <1>1, <1>2, <1>3, MeteringInvariant, PTL DEF MeteringSpec

----------------------------------------------------------------------------
(* Retention.                                                              *)

Cleanup == [step : {"asleep", "next", "item"}, plans : [Subscribers -> RetentionPlans],
            left : SUBSET Subscribers, doomed : SUBSET Subscribers,
            events : SUBSET Subscribers, tenant : Subscribers]

Decide == [step : {"idle", "asked", "locked", "replayed", "updated"}, tenant : Subscribers,
           found : Statuses]

\* The type invariant, and that the two actors' states are records of these fields.
RetentionTypes == RetentionTypeOK /\ cleanup \in Cleanup /\ decide \in Decide

\* The cleanup has locked the request of t: it will delete it, or waits for its item.
Taken(t) == t \in cleanup.doomed \/ (cleanup.step = "item" /\ cleanup.tenant = t)

Deciding(t) == decide.tenant = t /\ decide.step \in {"locked", "replayed", "updated"}
Updating(t) == decide.tenant = t /\ decide.step = "updated"

\* Who holds a row follows from where the two are.
LocksOf(t) ==
    /\ rowLock[<<t, "item">>] = "decide" <=> Deciding(t)
    /\ rowLock[<<t, "request">>] = "decide" <=> Updating(t)
    /\ rowLock[<<t, "item">>] = "cleanup" <=> t \in cleanup.doomed
    /\ rowLock[<<t, "request">>] = "cleanup" <=> Taken(t)

LocksFollow == \A t \in Subscribers : LocksOf(t)

\* A row is decided once: while it is, it is queued, and before that it has no event.  What
\* was loaded as queued is so still, unless it was deleted.
DecidedOnce ==
    \A t \in Subscribers :
        /\ decide.tenant = t /\ decide.step = "asked" /\ decide.found = "queued"
              => request[t] \in {"queued", "deleted"}
        /\ Deciding(t) => request[t] = "queued"
        /\ request[t] \in {"none", "queued"} => event[t] = -1

\* What the cleanup has chosen is there, and older than the plan it loaded.
OldEnough(t, date) == ~Skipped(cleanup.plans[t]) /\ Expired(cleanup.plans[t], date)

ChosenIsOld ==
    /\ cleanup.step = "asleep" => cleanup.doomed = {} /\ cleanup.events = {}
    /\ \A t \in Subscribers : Taken(t) => request[t] \in {"queued", "allowed"} /\ OldEnough(t, created[t])
    /\ \A t \in cleanup.events : event[t] # -1 /\ OldEnough(t, event[t])

\* An event is no older than its request, so that the cleanup never takes it alone.
EventsGoLast ==
    \A t \in Subscribers : /\ event[t] # -1 => created[t] <= event[t]
                           /\ request[t] = "queued" => created[t] <= now
                           /\ t \in cleanup.events /\ request[t] \in {"queued", "allowed"} =>
                                 t \in cleanup.doomed

RetentionInv == /\ RetentionTypes /\ LocksFollow /\ DecidedOnce /\ ChosenIsOld
                /\ EventsGoLast /\ RetentionIsKept

LEMMA RetentionStarts ==
    ASSUME RetentionInit
    PROVE  RetentionInv
<1>1. RetentionTypes
  BY RetentionAssumption
     DEF RetentionInit, RetentionTypes, RetentionTypeOK, Cleanup, Decide, Statuses, Rows
<1>2. LocksFollow
  BY DEF RetentionInit, LocksFollow, LocksOf, Deciding, Updating, Taken, Rows
<1>3. DecidedOnce /\ ChosenIsOld /\ EventsGoLast /\ RetentionIsKept
  BY DEF RetentionInit, DecidedOnce, EventsGoLast, Deciding, ChosenIsOld, Taken, RetentionIsKept
<1> QED
  BY <1>1, <1>2, <1>3 DEF RetentionInv

\* The tenants whose events the cleanup deletes: with t, if its event is old.
WithEvents(E, t) ==
    \/ E = cleanup.events
    \/ /\ E = cleanup.events \cup {t}
       /\ event[t] # -1 /\ Expired(cleanup.plans[t], event[t])

\* What a visit does, without its computations.
VisitPasses(t) ==
    /\ UNCHANGED rowLock
    /\ \E E \in SUBSET Subscribers :
          /\ WithEvents(E, t) /\ (E # cleanup.events => ~Skipped(cleanup.plans[t]))
          /\ cleanup' = [cleanup EXCEPT !.left = @ \ {t}, !.events = E]

VisitTakes(t) ==
    /\ request[t] \in {"queued", "allowed"} /\ OldEnough(t, created[t])
    /\ rowLock[<<t, "request">>] = "free"
    /\ rowLock' = [rowLock EXCEPT ![<<t, "request">>] = "cleanup"]
    /\ cleanup' = [cleanup EXCEPT !.step = "item", !.tenant = t]

LEMMA VisitForms ==
    ASSUME RetentionTypes, NEW t \in Subscribers, Visit(t)
    PROVE  /\ cleanup.step = "next"
           /\ VisitPasses(t) \/ VisitTakes(t)
           /\ UNCHANGED <<now, plan, request, created, event, decide, answered, premature>>
<1> DEFINE p == cleanup.plans[t]
           old == request[t] \in {"queued", "allowed"} /\ Expired(p, created[t])
           oldEvent == event[t] # -1 /\ Expired(p, event[t])
<1>0. cleanup \in Cleanup
  BY DEF RetentionTypes
<1>1. CASE Skipped(p) \/ ~old
  <2> DEFINE E == IF ~Skipped(p) /\ oldEvent THEN cleanup.events \cup {t} ELSE cleanup.events
  <2>1. UNCHANGED rowLock /\ cleanup' = [cleanup EXCEPT !.left = @ \ {t}, !.events = E]
    BY <1>0, <1>1 DEF Visit, Cleanup
  <2>2. E \in SUBSET Subscribers
    BY <1>0 DEF Cleanup
  <2>3. WithEvents(E, t) /\ (E # cleanup.events => ~Skipped(p))
    BY DEF WithEvents
  <2> HIDE DEF E
  <2>4. VisitPasses(t)
    BY <2>1, <2>2, <2>3 DEF VisitPasses
  <2> QED
    BY <2>4 DEF Visit
<1>2. CASE ~(Skipped(p) \/ ~old)
  <2>1. VisitTakes(t)
    BY <1>2 DEF Visit, VisitTakes, OldEnough
  <2> QED
    BY <2>1 DEF Visit
<1> QED
  BY <1>1, <1>2

\* What the cascade does, without its computations.
CascadeTakes(t) ==
    /\ rowLock[<<t, "item">>] = "free"
    /\ rowLock' = [rowLock EXCEPT ![<<t, "item">>] = "cleanup"]
    /\ \E E \in SUBSET Subscribers :
          /\ WithEvents(E, t)
          /\ cleanup' = [cleanup EXCEPT !.step = "next", !.left = @ \ {t},
                                        !.doomed = @ \cup {t}, !.events = E]

LEMMA CascadeForms ==
    ASSUME RetentionTypes, Cascade
    PROVE  /\ cleanup.step = "item" /\ CascadeTakes(cleanup.tenant)
           /\ UNCHANGED <<now, plan, request, created, event, decide, answered, premature>>
<1> DEFINE t == cleanup.tenant
           oldEvent == event[t] # -1 /\ Expired(cleanup.plans[t], event[t])
           E == IF oldEvent THEN cleanup.events \cup {t} ELSE cleanup.events
<1>0. cleanup \in Cleanup
  BY DEF RetentionTypes
<1>1. E \in SUBSET Subscribers
  BY <1>0 DEF Cleanup
<1>2. cleanup' = [cleanup EXCEPT !.step = "next", !.left = @ \ {t},
                                 !.doomed = @ \cup {t}, !.events = E]
  BY <1>0 DEF Cascade, Cleanup
<1>3. WithEvents(E, t)
  BY DEF WithEvents
<1> HIDE DEF E
<1>4. CascadeTakes(t)
  BY <1>1, <1>2, <1>3 DEF Cascade, CascadeTakes
<1> QED
  BY <1>4 DEF Cascade

LEMMA RetentionTyped ==
    ASSUME RetentionTypes, [RetentionNext]_retention
    PROVE  RetentionTypes'
<1> USE RetentionAssumption DEF RetentionTypes, RetentionTypeOK, Cleanup, Decide, Statuses
<1>1. CASE NextDay
  BY <1>1 DEF NextDay
<1>2. ASSUME NEW t \in Subscribers, NEW p \in RetentionPlans, SwitchPlan(t, p)
      PROVE  RetentionTypes'
  BY <1>2 DEF SwitchPlan
<1>3. ASSUME NEW t \in Subscribers, Queue(t)
      PROVE  RetentionTypes'
  BY <1>3 DEF Queue
<1>4. ASSUME NEW t \in Subscribers, Visit(t)
      PROVE  RetentionTypes'
  <2>0. VisitPasses(t) \/ VisitTakes(t)
    BY <1>4, VisitForms
  <2>1. cleanup' \in Cleanup
    <3>1. CASE VisitPasses(t)
      <4>1. PICK E \in SUBSET Subscribers : cleanup' = [cleanup EXCEPT !.left = @ \ {t}, !.events = E]
        BY <3>1 DEF VisitPasses
      <4> QED
        BY <4>1
    <3>2. CASE VisitTakes(t)
      BY <3>2 DEF VisitTakes
    <3> QED
      BY <2>0, <3>1, <3>2
  <2>2. rowLock' \in [Rows -> {"free", "cleanup", "decide"}]
    BY <1>4, VisitForms DEF VisitPasses, VisitTakes, Rows
  <2> QED
    BY <1>4, <2>1, <2>2, VisitForms
<1>5. ASSUME NEW t \in Subscribers, Ask(t)
      PROVE  RetentionTypes'
  BY <1>5 DEF Ask
<1>6. CASE WakeUp
  BY <1>6 DEF WakeUp
<1>7. CASE Cascade
  <2>1. cleanup' \in Cleanup
    BY <1>7 DEF Cascade
  <2> QED
    BY <1>7, <2>1 DEF Cascade
<1>8. CASE CommitCleanup
  <2>1. cleanup' \in Cleanup /\ rowLock' \in [Rows -> {"free", "cleanup", "decide"}]
    BY <1>8 DEF CommitCleanup, Released
  <2>2. request' \in [Subscribers -> Statuses] /\ event' \in [Subscribers -> -1..LastDay]
    BY <1>8 DEF CommitCleanup
  <2>3. premature' \subseteq Subscribers
    BY <1>8 DEF CommitCleanup
  <2> QED
    BY <1>8, <2>1, <2>2, <2>3 DEF CommitCleanup
<1>9. CASE AbortCleanup
  BY <1>9 DEF AbortCleanup, Released
<1>10. CASE LockItem
  BY <1>10 DEF LockItem
<1>11. CASE Replay \/ UpdateRequest
  BY <1>11 DEF Replay, UpdateRequest
<1>12. CASE CommitDecision
  BY <1>12 DEF CommitDecision, Released
<1>13. CASE AbortDecision
  BY <1>13 DEF AbortDecision, Released
<1>14. CASE UNCHANGED retention
  BY <1>14 DEF retention
<1> QED
  BY <1>1, <1>2, <1>3, <1>4, <1>5, <1>6, <1>7, <1>8, <1>9, <1>10, <1>11, <1>12, <1>13, <1>14
     DEF RetentionNext

\* The lock of one row is taken, or all the locks of one actor are released.
LockTaken(t, kind, who) ==
    \A u \in Subscribers, k \in {"item", "request"} :
        rowLock'[<<u, k>>] = IF u = t /\ k = kind THEN who ELSE rowLock[<<u, k>>]

LocksReleased(who) ==
    \A u \in Subscribers, k \in {"item", "request"} :
        rowLock'[<<u, k>>] = IF rowLock[<<u, k>>] = who THEN "free" ELSE rowLock[<<u, k>>]

LEMMA OneLock ==
    ASSUME rowLock \in [Rows -> {"free", "cleanup", "decide"}],
           NEW t \in Subscribers, NEW kind \in {"item", "request"}, NEW who,
           rowLock' = [rowLock EXCEPT ![<<t, kind>>] = who]
    PROVE  LockTaken(t, kind, who)
<1>1. \A u \in Subscribers, k \in {"item", "request"} :
          /\ <<u, k>> \in DOMAIN rowLock
          /\ <<u, k>> = <<t, kind>> <=> u = t /\ k = kind
  BY DEF Rows
<1> QED
  BY <1>1 DEF LockTaken

LEMMA ReleasedLocks ==
    ASSUME NEW who, rowLock' = Released(who)
    PROVE  LocksReleased(who)
<1>1. \A u \in Subscribers, k \in {"item", "request"} : <<u, k>> \in Rows
  BY DEF Rows
<1> QED
  BY <1>1 DEF Released, LocksReleased

LEMMA LocksStay ==
    ASSUME RetentionInv, [RetentionNext]_retention
    PROVE  LocksFollow'
<1>0. /\ cleanup \in Cleanup /\ decide \in Decide /\ RetentionTypes
      /\ rowLock \in [Rows -> {"free", "cleanup", "decide"}]
  BY DEF RetentionInv, RetentionTypes, RetentionTypeOK
<1> SUFFICES ASSUME NEW u \in Subscribers
             PROVE  LocksOf(u)'
  BY DEF LocksFollow
<1>a. LocksOf(u)
  BY DEF RetentionInv, LocksFollow
<1> USE DEF LocksOf, Deciding, Updating, Taken
<1>1. CASE NextDay
  BY <1>1, <1>a DEF NextDay
<1>2. ASSUME NEW t \in Subscribers, NEW p \in RetentionPlans, SwitchPlan(t, p)
      PROVE  LocksOf(u)'
  BY <1>2, <1>a DEF SwitchPlan
<1>3. ASSUME NEW t \in Subscribers, Queue(t)
      PROVE  LocksOf(u)'
  BY <1>3, <1>a DEF Queue
<1>4. ASSUME NEW t \in Subscribers, Visit(t)
      PROVE  LocksOf(u)'
  <2>0. cleanup.step = "next" /\ UNCHANGED decide /\ (VisitPasses(t) \/ VisitTakes(t))
    BY <1>0, <1>4, VisitForms
  <2>1. CASE VisitPasses(t)
    BY <1>0, <1>a, <2>0, <2>1 DEF VisitPasses, Cleanup
  <2>2. CASE VisitTakes(t)
    <3>1. LockTaken(t, "request", "cleanup")
      BY <1>0, <2>2, OneLock DEF VisitTakes
    <3>2. cleanup' = [cleanup EXCEPT !.step = "item", !.tenant = t]
          /\ rowLock[<<t, "request">>] = "free"
      BY <2>2 DEF VisitTakes
    <3> QED
      BY <1>0, <1>a, <2>0, <3>1, <3>2 DEF LockTaken, Cleanup
  <2> QED
    BY <2>0, <2>1, <2>2
<1>5. ASSUME NEW t \in Subscribers, Ask(t)
      PROVE  LocksOf(u)'
  BY <1>5, <1>a, <1>0 DEF Ask, Decide
<1>6. CASE WakeUp
  BY <1>0, <1>a, <1>6 DEF WakeUp, Cleanup
<1>7. CASE Cascade
  <2> DEFINE t == cleanup.tenant
  <2>0. cleanup.step = "item" /\ UNCHANGED decide /\ CascadeTakes(t) /\ t \in Subscribers
    BY <1>0, <1>7, CascadeForms DEF Cleanup
  <2>1. LockTaken(t, "item", "cleanup")
    BY <1>0, <2>0, OneLock DEF CascadeTakes
  <2>2. PICK E \in SUBSET Subscribers :
            cleanup' = [cleanup EXCEPT !.step = "next", !.left = @ \ {t},
                                       !.doomed = @ \cup {t}, !.events = E]
    BY <2>0 DEF CascadeTakes
  <2>3. rowLock[<<t, "item">>] = "free"
    BY <2>0 DEF CascadeTakes
  <2> QED
    BY <1>0, <1>a, <2>0, <2>1, <2>2, <2>3 DEF LockTaken, Cleanup
<1>8. CASE CommitCleanup
  <2>1. LocksReleased("cleanup")
    BY <1>8, ReleasedLocks DEF CommitCleanup
  <2>2. UNCHANGED decide /\ cleanup.step = "next"
        /\ cleanup' = [cleanup EXCEPT !.step = "asleep", !.doomed = {}, !.events = {}]
    BY <1>8 DEF CommitCleanup
  <2> QED
    BY <1>0, <1>a, <2>1, <2>2 DEF LocksReleased, Cleanup
<1>9. CASE AbortCleanup
  <2>1. LocksReleased("cleanup")
    BY <1>9, ReleasedLocks DEF AbortCleanup
  <2> QED
    BY <1>0, <1>a, <1>9, <2>1 DEF AbortCleanup, LocksReleased, Cleanup
<1>10. CASE LockItem
  <2> DEFINE t == decide.tenant
  <2>1. t \in Subscribers /\ decide.step = "asked" /\ UNCHANGED cleanup
    BY <1>0, <1>10 DEF Decide, LockItem
  <2>2. CASE decide.found = "queued" /\ request[t] # "deleted"
    <3>1. LockTaken(t, "item", "decide") /\ rowLock[<<t, "item">>] = "free"
      BY <1>0, <1>10, <2>1, <2>2, OneLock DEF LockItem
    <3>2. decide' = [decide EXCEPT !.step = "locked"]
      BY <1>10, <2>2 DEF LockItem
    <3> QED
      BY <1>0, <1>a, <2>1, <3>1, <3>2 DEF LockTaken, Decide
  <2>3. CASE ~(decide.found = "queued" /\ request[t] # "deleted")
    BY <1>0, <1>a, <1>10, <2>1, <2>3 DEF LockItem, Decide
  <2> QED
    BY <2>2, <2>3
<1>11. CASE Replay
  BY <1>0, <1>a, <1>11 DEF Replay, Decide
<1>12. CASE UpdateRequest
  <2> DEFINE t == decide.tenant
  <2>1. t \in Subscribers /\ decide.step = "replayed" /\ UNCHANGED cleanup
        /\ decide' = [decide EXCEPT !.step = "updated"]
    BY <1>0, <1>12 DEF Decide, UpdateRequest
  <2>2. LockTaken(t, "request", "decide") /\ rowLock[<<t, "request">>] = "free"
    BY <1>0, <1>12, <2>1, OneLock DEF UpdateRequest
  <2> QED
    BY <1>0, <1>a, <2>1, <2>2 DEF LockTaken, Decide
<1>13. CASE CommitDecision
  <2>1. LocksReleased("decide")
    BY <1>13, ReleasedLocks DEF CommitDecision
  <2>2. UNCHANGED cleanup /\ decide' = [decide EXCEPT !.step = "idle"]
    BY <1>13 DEF CommitDecision
  <2> QED
    BY <1>0, <1>a, <2>1, <2>2 DEF LocksReleased, Decide
<1>14. CASE AbortDecision
  <2>1. LocksReleased("decide")
    BY <1>14, ReleasedLocks DEF AbortDecision
  <2> QED
    BY <1>0, <1>a, <1>14, <2>1 DEF AbortDecision, LocksReleased, Decide
<1>15. CASE UNCHANGED retention
  BY <1>a, <1>15 DEF retention
<1> QED
  BY <1>1, <1>2, <1>3, <1>4, <1>5, <1>6, <1>7, <1>8, <1>9, <1>10, <1>11, <1>12, <1>13, <1>14, <1>15
     DEF RetentionNext

LEMMA DecidedOnceStays ==
    ASSUME RetentionInv, [RetentionNext]_retention
    PROVE  DecidedOnce'
<1> USE DEF RetentionInv, RetentionTypes, RetentionTypeOK, Cleanup, Decide, DecidedOnce, Deciding
<1>1. CASE NextDay
  BY <1>1 DEF NextDay
<1>2. ASSUME NEW t \in Subscribers, NEW p \in RetentionPlans, SwitchPlan(t, p)
      PROVE  DecidedOnce'
  BY <1>2 DEF SwitchPlan
<1>3. ASSUME NEW t \in Subscribers, Queue(t)
      PROVE  DecidedOnce'
  BY <1>3 DEF Queue
<1>4. ASSUME NEW t \in Subscribers, Visit(t)
      PROVE  DecidedOnce'
  BY <1>4, VisitForms
<1>5. ASSUME NEW t \in Subscribers, Ask(t)
      PROVE  DecidedOnce'
  BY <1>5 DEF Ask
<1>6. CASE WakeUp
  BY <1>6 DEF WakeUp
<1>7. CASE Cascade
  BY <1>7, CascadeForms
\* The cleanup holds the item of what it deletes: nobody is deciding it.
<1>8. CASE CommitCleanup
  <2>1. \A t \in cleanup.doomed : ~Deciding(t)
    BY DEF LocksFollow, LocksOf, Deciding
  <2> QED
    BY <1>8, <2>1 DEF CommitCleanup
<1>9. CASE AbortCleanup
  BY <1>9 DEF AbortCleanup
<1>10. CASE LockItem
  BY <1>10 DEF LockItem
<1>11. CASE Replay \/ UpdateRequest
  BY <1>11 DEF Replay, UpdateRequest
<1>12. CASE CommitDecision
  BY <1>12 DEF CommitDecision
<1>13. CASE AbortDecision
  BY <1>13 DEF AbortDecision
<1>14. CASE UNCHANGED retention
  BY <1>14 DEF retention
<1> QED
  BY <1>1, <1>2, <1>3, <1>4, <1>5, <1>6, <1>7, <1>8, <1>9, <1>10, <1>11, <1>12, <1>13, <1>14
     DEF RetentionNext

LEMMA ChosenStaysOld ==
    ASSUME RetentionInv, [RetentionNext]_retention
    PROVE  ChosenIsOld'
<1> USE DEF RetentionInv, RetentionTypes, RetentionTypeOK, Cleanup, Decide, ChosenIsOld,
            OldEnough, Taken
\* What was old stays old.
<1>1. CASE NextDay
  <2>1. \A p, d : d \in -1..LastDay /\ p \in RetentionPlans /\ Expired(p, d) => Expired(p, d)'
    BY <1>1, RetentionAssumption DEF NextDay, Expired, retention_days, RetentionPlans, Forever
  <2>2. UNCHANGED <<cleanup, request, created, event>>
    BY <1>1 DEF NextDay
  <2> QED
    BY <2>1, <2>2 DEF Skipped
<1>2. ASSUME NEW t \in Subscribers, NEW p \in RetentionPlans, SwitchPlan(t, p)
      PROVE  ChosenIsOld'
  BY <1>2 DEF SwitchPlan, Expired
\* Only a tenant without a request gets one.
<1>3. ASSUME NEW t \in Subscribers, Queue(t)
      PROVE  ChosenIsOld'
  BY <1>3 DEF Queue, Expired
<1>4. ASSUME NEW t \in Subscribers, Visit(t)
      PROVE  ChosenIsOld'
  <2>1. CASE VisitPasses(t)
    <3>1. PICK E \in SUBSET Subscribers :
             /\ WithEvents(E, t) /\ (E # cleanup.events => ~Skipped(cleanup.plans[t]))
             /\ cleanup' = [cleanup EXCEPT !.left = @ \ {t}, !.events = E]
      BY <2>1 DEF VisitPasses
    <3> QED
      BY <1>4, <3>1, VisitForms DEF Expired, WithEvents
  <2>2. CASE VisitTakes(t)
    BY <1>4, <2>2, VisitForms DEF VisitTakes, Expired
  <2> QED
    BY <1>4, <2>1, <2>2, VisitForms
<1>5. ASSUME NEW t \in Subscribers, Ask(t)
      PROVE  ChosenIsOld'
  BY <1>5 DEF Ask, Expired
<1>6. CASE WakeUp
  BY <1>6 DEF WakeUp, Expired
<1>7. CASE Cascade
  <2> DEFINE t == cleanup.tenant
  <2>1. PICK E \in SUBSET Subscribers :
           /\ WithEvents(E, t)
           /\ cleanup' = [cleanup EXCEPT !.step = "next", !.left = @ \ {t},
                                         !.doomed = @ \cup {t}, !.events = E]
    BY <1>7, CascadeForms DEF CascadeTakes
  <2>2. UNCHANGED <<now, request, created, event>> /\ cleanup.step = "item"
    BY <1>7, CascadeForms
  <2> QED
    BY <2>1, <2>2 DEF Expired, WithEvents
<1>8. CASE CommitCleanup
  BY <1>8 DEF CommitCleanup
<1>9. CASE AbortCleanup
  BY <1>9 DEF AbortCleanup
<1>10. CASE LockItem
  BY <1>10 DEF LockItem, Expired
<1>11. CASE Replay \/ UpdateRequest
  BY <1>11 DEF Replay, UpdateRequest, Expired
\* The reviewer holds the request of what is decided, and it has no event yet.
<1>12. CASE CommitDecision
  <2> DEFINE t == decide.tenant
  <2>1. ~Taken(t)
    BY <1>12 DEF CommitDecision, LocksFollow, LocksOf, Updating
  <2>2. t \notin cleanup.events
    BY <1>12 DEF CommitDecision, DecidedOnce, Deciding
  <2> QED
    BY <1>12, <2>1, <2>2 DEF CommitDecision, Expired
<1>13. CASE AbortDecision
  BY <1>13 DEF AbortDecision, Expired
<1>14. CASE UNCHANGED retention
  BY <1>14 DEF retention, Expired
<1> QED
  BY <1>1, <1>2, <1>3, <1>4, <1>5, <1>6, <1>7, <1>8, <1>9, <1>10, <1>11, <1>12, <1>13, <1>14
     DEF RetentionNext

\* A visit takes an event alone only where the request is gone.
LEMMA EventsAlone ==
    ASSUME RetentionInv, NEW t \in Subscribers, Visit(t)
    PROVE  \A u \in cleanup'.events : u \in cleanup.events
              \/ (u = t /\ request[t] \notin {"queued", "allowed"})
<1> USE DEF RetentionInv, RetentionTypes, RetentionTypeOK, Cleanup
<1> DEFINE p == cleanup.plans[t]
           old == request[t] \in {"queued", "allowed"} /\ Expired(p, created[t])
           oldEvent == event[t] # -1 /\ Expired(p, event[t])
<1>1. oldEvent => Expired(p, created[t])
  <2>1. retention_days[p] \in Int /\ now \in Int /\ created[t] \in Int /\ event[t] \in Int
    BY RetentionAssumption DEF retention_days, RetentionPlans, Forever
  <2>2. oldEvent => created[t] <= event[t]
    BY DEF EventsGoLast
  <2> QED
    BY <2>1, <2>2 DEF Expired
<1>2. CASE Skipped(p) \/ ~old
  <2>1. cleanup'.events = IF ~Skipped(p) /\ oldEvent THEN cleanup.events \cup {t}
                          ELSE cleanup.events
    BY <1>2 DEF Visit
  <2>2. ~Skipped(p) /\ oldEvent => request[t] \notin {"queued", "allowed"}
    BY <1>1, <1>2
  <2> HIDE DEF old, oldEvent
  <2> QED
    BY <2>1, <2>2
<1>3. CASE ~(Skipped(p) \/ ~old)
  <2>1. cleanup'.events = cleanup.events
    BY <1>3 DEF Visit
  <2> QED
    BY <2>1
<1> QED
  BY <1>2, <1>3

LEMMA EventsStayLast ==
    ASSUME RetentionInv, [RetentionNext]_retention
    PROVE  EventsGoLast'
<1> USE DEF RetentionInv, RetentionTypes, RetentionTypeOK, Cleanup, Decide, EventsGoLast
<1>1. CASE NextDay
  BY <1>1, RetentionAssumption DEF NextDay
<1>2. ASSUME NEW t \in Subscribers, NEW p \in RetentionPlans, SwitchPlan(t, p)
      PROVE  EventsGoLast'
  BY <1>2 DEF SwitchPlan
<1>3. ASSUME NEW t \in Subscribers, Queue(t)
      PROVE  EventsGoLast'
  BY <1>3 DEF Queue, DecidedOnce, ChosenIsOld
\* An old event has an old request: a visit that passes takes the event of one that is gone.
<1>4. ASSUME NEW t \in Subscribers, Visit(t)
      PROVE  EventsGoLast'
  <2>1. CASE VisitPasses(t)
    <3>1. UNCHANGED <<now, request, created, event>>
          /\ cleanup'.doomed = cleanup.doomed
      BY <1>4, <2>1, VisitForms DEF VisitPasses
    <3>2. \A u \in cleanup'.events : u \in cleanup.events
                \/ (u = t /\ request[t] \notin {"queued", "allowed"})
      BY <1>4, EventsAlone
    <3> QED
      BY <3>1, <3>2
  <2>2. CASE VisitTakes(t)
    <3>1. UNCHANGED <<now, request, created, event>>
      BY <1>4, VisitForms
    <3>2. cleanup'.doomed = cleanup.doomed /\ cleanup'.events = cleanup.events
      BY <2>2 DEF VisitTakes
    <3> QED
      BY <3>1, <3>2
  <2> QED
    BY <1>4, <2>1, <2>2, VisitForms
<1>5. ASSUME NEW t \in Subscribers, Ask(t)
      PROVE  EventsGoLast'
  BY <1>5 DEF Ask
<1>6. CASE WakeUp
  BY <1>6 DEF WakeUp
<1>7. CASE Cascade
  <2>1. PICK E \in SUBSET Subscribers :
           /\ WithEvents(E, cleanup.tenant)
           /\ cleanup' = [cleanup EXCEPT !.step = "next", !.left = @ \ {cleanup.tenant},
                                         !.doomed = @ \cup {cleanup.tenant}, !.events = E]
    BY <1>7, CascadeForms DEF CascadeTakes
  <2>2. UNCHANGED <<now, request, created, event>> /\ cleanup.step = "item"
    BY <1>7, CascadeForms
  <2> QED
    BY <2>1, <2>2 DEF WithEvents
<1>8. CASE CommitCleanup
  BY <1>8 DEF CommitCleanup
<1>9. CASE AbortCleanup
  BY <1>9 DEF AbortCleanup
<1>10. CASE LockItem
  BY <1>10 DEF LockItem
<1>11. CASE Replay \/ UpdateRequest
  BY <1>11 DEF Replay, UpdateRequest
<1>12. CASE CommitDecision
  <2>1. decide.tenant \notin cleanup.events
    BY <1>12 DEF CommitDecision, DecidedOnce, Deciding, ChosenIsOld
  <2> QED
    BY <1>12, <2>1 DEF CommitDecision, DecidedOnce, Deciding
<1>13. CASE AbortDecision
  BY <1>13 DEF AbortDecision
<1>14. CASE UNCHANGED retention
  BY <1>14 DEF retention
<1> QED
  BY <1>1, <1>2, <1>3, <1>4, <1>5, <1>6, <1>7, <1>8, <1>9, <1>10, <1>11, <1>12, <1>13, <1>14
     DEF RetentionNext

LEMMA NothingEarly ==
    ASSUME RetentionInv, CommitCleanup
    PROVE  premature' = {}
<1>1. ASSUME NEW p \in RetentionPlans, NEW date \in -1..LastDay, ~Skipped(p), Expired(p, date)
      PROVE  ~TooSoon(p, date)
  BY <1>1 DEF Skipped, Expired, TooSoon, retention_days, RetentionPlans, Forever,
              RetentionInv, RetentionTypes, RetentionTypeOK
<1>2. \A t \in cleanup.doomed : ~TooSoon(cleanup.plans[t], created[t])
  BY <1>1 DEF RetentionInv, RetentionTypes, RetentionTypeOK, ChosenIsOld, OldEnough, Taken
<1>3. \A t \in cleanup.events : ~TooSoon(cleanup.plans[t], event[t])
  BY <1>1 DEF RetentionInv, RetentionTypes, RetentionTypeOK, ChosenIsOld, OldEnough
<1> QED
  BY <1>2, <1>3 DEF CommitCleanup, RetentionInv, RetentionIsKept

LEMMA KeptStays ==
    ASSUME RetentionInv, [RetentionNext]_retention
    PROVE  RetentionIsKept'
<1> USE DEF RetentionInv, RetentionTypes, RetentionTypeOK, RetentionIsKept
<1>1. CASE NextDay
  BY <1>1 DEF NextDay
<1>2. ASSUME NEW t \in Subscribers, NEW p \in RetentionPlans, SwitchPlan(t, p)
      PROVE  RetentionIsKept'
  BY <1>2 DEF SwitchPlan
<1>3. ASSUME NEW t \in Subscribers, Queue(t)
      PROVE  RetentionIsKept'
  BY <1>3 DEF Queue
<1>4. ASSUME NEW t \in Subscribers, Visit(t)
      PROVE  RetentionIsKept'
  BY <1>4, VisitForms
<1>5. ASSUME NEW t \in Subscribers, Ask(t)
      PROVE  RetentionIsKept'
  BY <1>5 DEF Ask
<1>6. CASE WakeUp \/ AbortCleanup
  BY <1>6 DEF WakeUp, AbortCleanup
<1>7. CASE Cascade
  BY <1>7, CascadeForms
\* The event of a request that stays is not among those deleted.
<1>8. CASE CommitCleanup
  BY <1>8, NothingEarly DEF CommitCleanup, EventsGoLast
<1>9. CASE LockItem \/ Replay \/ UpdateRequest \/ AbortDecision
  BY <1>9 DEF LockItem, Replay, UpdateRequest, AbortDecision
<1>10. CASE CommitDecision
  BY <1>10 DEF CommitDecision, Decide
<1>11. CASE UNCHANGED retention
  BY <1>11 DEF retention
<1> QED
  BY <1>1, <1>2, <1>3, <1>4, <1>5, <1>6, <1>7, <1>8, <1>9, <1>10, <1>11 DEF RetentionNext

\* The locks of a row follow from where the cleanup and the reviewer's decision are; a row is
\* decided once; what the cleanup has chosen is there, and old enough for the plan it loaded.
THEOREM RetentionInvariant == RetentionSpec => []RetentionInv
<1>1. RetentionInit => RetentionInv
  BY RetentionStarts
<1>2. RetentionInv /\ [RetentionNext]_retention => RetentionInv'
  BY RetentionTyped, LocksStay, DecidedOnceStays, ChosenStaysOld, EventsStayLast,
     KeptStays DEF RetentionInv
<1> QED
  BY <1>1, <1>2, PTL DEF RetentionSpec

\* A cleanup deletes nothing before the retention_days of the plan that it loaded have passed,
\* and the decision that a reviewer was told of is in the rows until they expire, its audit
\* event for as long as its request, whatever the
\* two transactions do at once and whenever the plan changes.
THEOREM CleanupKeepsRetention == RetentionSpec => []RetentionIsKept
<1>1. RetentionInv => RetentionIsKept
  BY DEF RetentionInv
<1> QED
  BY <1>1, RetentionInvariant, PTL

----------------------------------------------------------------------------
(* The sides of a plan together, as TLC runs them.                          *)

\* Whichever side a behaviour of MCBilling is of, it is one of each: what is proved of
\* Webhooks, Metering and Retention holds of what TLC checks.
LEMMA SidesAreTheirOwn == Spec => WebhooksSpec /\ MeteringSpec /\ RetentionSpec
<1>1. Init => WebhooksInit /\ MeteringInit /\ RetentionInit
  BY DEF Init
<1>2. [Next]_<<side, webhooks, metering, retention>>
        => [WebhooksNext]_webhooks /\ [MeteringNext]_metering /\ [RetentionNext]_retention
  BY DEF Next
<1> QED
  BY <1>1, <1>2, PTL DEF Spec, WebhooksSpec, MeteringSpec, RetentionSpec

\* Stripe's events, the requests and the cleanup keep the types of the tenant's columns,
\* of the counters and of the rows, whichever of them runs.
THEOREM BillingTypeCorrect == Spec => []TypeOK
<1> DEFINE OfASide == side \in {"webhooks", "metering", "retention"}
<1>1. Init => OfASide
  BY DEF Init
<1>2. OfASide /\ [Next]_<<side, webhooks, metering, retention>> => OfASide'
  BY DEF Next
<1>3. OfASide /\ WebhooksTypeOK /\ MeteringInv /\ RetentionInv => TypeOK
  BY DEF MeteringInv, NumberInv, MeteringTypes, RetentionInv, RetentionTypes, TypeOK
<1> HIDE DEF OfASide
<1> QED
  BY <1>1, <1>2, <1>3, SidesAreTheirOwn, WebhooksTypeCorrect, MeteringInvariant,
     RetentionInvariant, PTL DEF Spec
============================================================================
