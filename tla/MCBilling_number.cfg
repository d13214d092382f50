\* Two tenants, whose incidents share the numbers of the year.
SPECIFICATION Spec
CONSTANTS
    Handlers = {h1, h2}
    Customers = {c1, c2}
    NoCustomer = NoCustomer
    PaidPlans = {"pro", "business"}
    MaxEvents = 1
    MaxShared = 0
    t1 = t1
    t2 = t2
    r1 = r1
    r2 = r2
    r3 = r3
    None = None
    Tenants = {t1, t2}
    Requests = {r1, r2, r3}
    Of <- Owners
    Tests = {r3}
    Threats = {r1, r2, r3}
    QuotaPlans = {"pro", "enterprise"}
    Limit <- Limits
    Unlimited = None
    Strict = TRUE
    YearLength = 12
    FirstMonth = 11
    MaxMonth = 12
    Subscribers = {t1}
    LastDay = 0
INVARIANT
    ThreatGetsIncident
CHECK_DEADLOCK FALSE
