SPECIFICATION Spec
CONSTANTS
    None = None
    Note = {n1, n2}
    Process = {p1, p2}
    Searcher = {}
    Limit = 2
    Floor = 4
    MaxChunks = 3
    MaxEdits = 2
    MaxJobs = 3
    MaxKills = 2
SYMMETRY Symmetry
INVARIANT ActiveIsBuilt
CHECK_DEADLOCK FALSE
