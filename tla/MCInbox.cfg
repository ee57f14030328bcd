SPECIFICATION Spec
CONSTANTS
    c1 = c1
    c2 = c2
    n1 = n1
    n2 = n2
    Principal = {1}
    Consumer = {c1, c2}
    Owner <- MCOwner
    Note = {n1, n2}
    Thread = {th1, th2}
    RouteSets <- MCRouteSets
    Limit = 1
    LegacyRows <- MCLegacyRows
    LegacyCursors <- MCLegacyCursors
    LegacyWatermark <- MCLegacyWatermark
    LegacyNextSeq = 4
    MaxCursors = 3
    NoteBytes <- MCNoteBytes
    RecentLimit = 1
    MaxBudget = 6
SYMMETRY Symmetry
INVARIANTS TypeOK OneLogicalDelivery NoSilentLoss ReceiptsAreHonest LifecycleIsHonest WakeupIsHonest
PROPERTIES WatermarkMonotone
