\* One queued request and two decide calls, no watcher.
SPECIFICATION Spec
CONSTANTS
    Requests = {r1}
    Calls = {c1, c2}
    Watchers = {}
    Responders = {}
    NoTxn = NoTxn
    NoRequest = NoRequest
    Scores = {1}
    AutoAllow = 0
    AutoBlock = 2
    Fallback = "block"
    MaxFailures = 0
PROPERTIES
    RejectIsPermanent
CHECK_DEADLOCK FALSE
