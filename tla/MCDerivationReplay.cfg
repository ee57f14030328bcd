SPECIFICATION Spec
CONSTANTS
    None = None
    s1 = s1
    s2 = s2
    c1 = c1
    server = server
    cli = cli
    Actor = {s1, c1}
    Process = {server, cli}
    ProcessOf <- MCProcessOf
    Server = server
    Key = {k1}
    k1 = k1
    PostKey = {k1}
    DeriveKey <- MCDeriveKey
    Request = {r1, r2}
    MaxNotes = 3
    MaxJobs = 3
    MaxCalls = 2
    MaxFaults = 0
    MaxKills = 0
INVARIANTS OriginalResult
CHECK_DEADLOCK FALSE
