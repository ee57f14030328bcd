SPECIFICATION Spec
CONSTANTS
    None = None
    Hub = Hub
    Admin = {p1, p2}
    Note = {n1}
    Artifact = {a1}
    Present = {n1}
    Named = {}
    Cited = {}
    Sequence <- MCSequence
    MaxSequence = 2
    Consumer = {c1, c2}
    Beside = FALSE
    MaxVersion = 3
    MaxStops = 2
SYMMETRY Symmetry
INVARIANTS LatestKept TombstonesAreTrue AcknowledgedBeforeTrash BackupIsUsable
