SPECIFICATION Spec
CONSTANTS
    Note = {n1, n2}
    ApiNotes = {n1}
    CliNotes = {}
    EditNotes = {n2}
    MaxContent = 2
    Faults = {"scan", "manifest", "recover", "plan", "write", "enqueue"}
    MaxFaults = 2
    MaxCrashes = 0
INVARIANTS QuietMeansConverged
PROPERTIES ConsumedMeansConverged
