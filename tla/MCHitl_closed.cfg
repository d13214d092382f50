\* One queued request, one decide call and one responder: no race is needed.
SPECIFICATION Spec
CONSTANTS
    Requests = {r1}
    Calls = {c1}
    Watchers = {}
    Responders = {u1}
    NoTxn = NoTxn
    NoRequest = NoRequest
    Scores = {1}
    AutoAllow = 0
    AutoBlock = 2
    Fallback = "block"
    MaxFailures = 0
PROPERTIES
    ClosedIsFinal
CHECK_DEADLOCK FALSE
