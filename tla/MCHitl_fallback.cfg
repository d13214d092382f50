\* One queued request of a tenant whose policy escalates what nobody reviews in time.
SPECIFICATION Spec
CONSTANTS
    Requests = {r1}
    Calls = {}
    Watchers = {w1}
    Responders = {}
    NoTxn = NoTxn
    NoRequest = NoRequest
    Scores = {1}
    AutoAllow = 0
    AutoBlock = 2
    Fallback = "escalate"
    MaxFailures = 0
INVARIANT
    FallbackIsApplied
CHECK_DEADLOCK FALSE
