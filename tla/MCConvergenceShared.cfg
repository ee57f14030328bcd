SPECIFICATION Spec
CONSTANTS
    Note = {n1}
    ApiNotes = {n1}
    CliNotes = {}
    EditNotes = {n1}
    MaxContent = 2
    Faults = {"scan", "manifest", "recover", "plan", "jobs", "mark", "rescan", "prune", "deliver", "consume", "write", "enqueue"}
    MaxFaults = 3
    MaxCrashes = 0
INVARIANTS QuietMeansIndexed
PROPERTIES ConsumedMeansIndexed
