SPECIFICATION Spec
CONSTANTS
    Note = {n1}
    ApiNotes = {n1}
    CliNotes = {}
    EditNotes = {}
    MaxContent = 1
    Faults = {}
    MaxFaults = 0
    MaxCrashes = 1
INVARIANTS RestartIndexes
