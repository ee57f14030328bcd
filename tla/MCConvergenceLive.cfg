SPECIFICATION FairSpec
CONSTANTS
    Note = {n1}
    ApiNotes = {n1}
    CliNotes = {}
    EditNotes = {n1}
    MaxContent = 2
    Faults = {"scan", "recover", "plan", "jobs", "mark", "rescan", "prune", "deliver"}
    MaxFaults = 1
    MaxCrashes = 0
PROPERTIES EventuallyIndexed
