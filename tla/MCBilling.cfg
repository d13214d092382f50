\* Two deliveries at once, two checkouts: six events of one customer reach a third
\* failure, four are of both.  Two requests of one tenant, and one of another from the
\* dashboard; a quota of one request; the year ends.  One tenant and three spans of
\* retention.
SPECIFICATION Spec
CONSTANTS
    Handlers = {h1, h2}
    Customers = {c1, c2}
    NoCustomer = NoCustomer
    PaidPlans = {"pro", "business"}
    MaxEvents = 6
    MaxShared = 4
    t1 = t1
    t2 = t2
    r1 = r1
    r2 = r2
    r3 = r3
    None = None
    Tenants = {t1, t2}
    Requests = {r1, r2, r3}
    Of <- Owners
    Tests = {r3}
    Threats = {r1, r2, r3}
    QuotaPlans = {"pro", "enterprise"}
    Limit <- Limits
    Unlimited = None
    Strict = TRUE
    YearLength = 12
    FirstMonth = 11
    MaxMonth = 12
    Subscribers = {t1}
    LastDay = 5
SYMMETRY Symmetry
CONSTRAINT Short
INVARIANTS
    TypeOK
    AppliedOnce
    MirrorsStripe
    PaidIsReachable
    QuotaIsExact
    NoPhantomCharge
    NumbersAreDense
    LockSavesNumbers
    RetentionIsKept
CHECK_DEADLOCK FALSE
