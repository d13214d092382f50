\* Two threads that check one monitor, without a lock; an admin who warns or isolates.
\* A check assigns what it compared with an
\* older level.
SPECIFICATION ContainmentSpec
CONSTANTS
    Checkers = {p1, p2}
    Thresholds <- TheThresholds
    MaxAutoLevel = 2
    Orders = {1, 4}
    MaxAlerts = 2
PROPERTY NeverDeescalates
\* All alerts may have come and no admin need act.
CHECK_DEADLOCK FALSE
