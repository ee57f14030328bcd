SPECIFICATION Spec
CONSTANTS
    None = None
    s1 = s1
    s2 = s2
    c1 = c1
    server = server
    cli = cli
    Actor = {s1, s2, c1}
    Process = {server, cli}
    ProcessOf <- MCProcessOf
    Server = server
    k1 = k1
    Key = {k1, k2}
    PostKey = {k2}
    DeriveKey <- MCDeriveKey
    Request = {r1, r2}
    MaxNotes = 3
    MaxJobs = 3
    MaxCalls = 3
    MaxFaults = 1
    MaxKills = 1
SYMMETRY Symmetry
INVARIANTS CompletedHasNote EveryRunSettles NobodyStuck OneNotePerKey
CHECK_DEADLOCK FALSE
