SPECIFICATION Spec
CONSTANTS
    Uri = {u1}
    MaxView = 1
    Recurs = TRUE
    MaxRequests = 1
    MaxFaults = 0
PROPERTIES EventuallySeen
CHECK_DEADLOCK FALSE
