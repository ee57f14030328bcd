SPECIFICATION Spec
CONSTANTS
    None = None
    Note = {n1, n2, n3}
    Process = {p1, p2}
    Searcher = {s1}
    Limit = 2
    Floor = 4
    MaxChunks = 3
    MaxEdits = 1
    MaxJobs = 2
    MaxKills = 1
SYMMETRY Symmetry
INVARIANTS ActiveIsBuilt AnswersAreCurrent HybridIsComplete
CHECK_DEADLOCK FALSE
