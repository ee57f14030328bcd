SPECIFICATION Spec
CONSTANTS
    None = None
    Hub = Hub
    Admin = {p1}
    Note = {n1}
    Artifact = {a1, a2}
    Present = {n1, a1, a2}
    Named = {a1}
    Cited = {a2}
    Sequence <- MCSequence
    MaxSequence = 2
    Consumer = {c1}
    Beside = FALSE
    MaxVersion = 1
    MaxStops = 0
INVARIANTS ReferencedKept
