\* One request of any score; two decide calls and a watcher race on its item,
\* a responder edits its incident.
SPECIFICATION Spec
CONSTANTS
    Requests = {r1}
    Calls = {c1, c2}
    Watchers = {w1}
    Responders = {u1}
    NoTxn = NoTxn
    NoRequest = NoRequest
    Scores = {0, 1, 2}
    AutoAllow = 0
    AutoBlock = 2
    Fallback = "block"
    MaxFailures = 1
SYMMETRY Symmetry
INVARIANTS
    TypeOK
    ForwardedOnlyIfCleared
    CriticalStaysBlocked
    DecisionsExclusive
    AuditExplainsStatus
    ItemRequestAgree
    ResolvedIncidentsAreTimed
    TimelineKeepsDetection
PROPERTIES
    KeepsTheBallot
CHECK_DEADLOCK FALSE
