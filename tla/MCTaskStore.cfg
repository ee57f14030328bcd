SPECIFICATION Spec
CONSTANTS
    Task = {t1, t2}
    Key = {k1}
    NoKey = NoKey
    NoTask = NoTask
    Thread = {th1, th2}
    Requested = {"submitted", "working", "canceled"}
    MaxEvents = 3
SYMMETRY Symmetry
INVARIANTS TypeOK EventLedger TerminalOutbox IdempotentCreate
PROPERTIES TerminalIsFinal ImplementsLifecycle
