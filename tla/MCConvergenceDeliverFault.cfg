SPECIFICATION Spec
CONSTANTS
    Note = {n1}
    ApiNotes = {}
    CliNotes = {}
    EditNotes = {n1}
    MaxContent = 1
    Faults = {"deliver"}
    MaxFaults = 1
    MaxCrashes = 0
PROPERTIES ConsumedMeansConverged
