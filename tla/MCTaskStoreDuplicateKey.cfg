SPECIFICATION Spec
CONSTANTS
    Task = {t1, t2}
    Key = {k1}
    NoKey = NoKey
    NoTask = NoTask
    Thread = {th1, th2}
    Requested = {"submitted"}
    MaxEvents = 1
INVARIANTS DuplicateKeyReturnsTask
