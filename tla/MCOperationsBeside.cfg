SPECIFICATION Spec
CONSTANTS
    None = None
    Hub = Hub
    Admin = {p1}
    Note = {n1}
    Artifact = {a1}
    Present = {n1, a1}
    Named = {}
    Cited = {}
    Sequence <- MCSequence
    MaxSequence = 2
    Consumer = {c1}
    Beside = TRUE
    MaxVersion = 2
    MaxStops = 0
INVARIANTS LatestKept
