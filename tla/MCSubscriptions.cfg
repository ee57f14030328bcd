SPECIFICATION Spec
CONSTANTS
    Uri = {u1, u2}
    MaxView = 2
    Recurs = FALSE
    MaxRequests = 3
    MaxFaults = 1
INVARIANTS SubscriptionKept
PROPERTIES EventuallySeen
CHECK_DEADLOCK FALSE
