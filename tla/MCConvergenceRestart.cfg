SPECIFICATION Spec
CONSTANTS
    Note = {n1}
    ApiNotes = {n1}
    CliNotes = {n1}
    EditNotes = {n1}
    MaxContent = 1
    Faults = {"scan", "mark", "upsert", "prune", "deliver"}
    MaxFaults = 1
    MaxCrashes = 2
INVARIANTS RestartHeals
