\* One queued request, one decide call and the watchers of two replicas, with
\* deadlocks between them and one failed sweep.
SPECIFICATION FairSpec
CONSTANTS
    Requests = {r1}
    Calls = {c1}
    Watchers = {w1, w2}
    Responders = {}
    NoTxn = NoTxn
    NoRequest = NoRequest
    Scores = {1}
    AutoAllow = 0
    AutoBlock = 2
    Fallback = "block"
    MaxFailures = 1
PROPERTIES
    PendingItemsAreDecided
CHECK_DEADLOCK FALSE
