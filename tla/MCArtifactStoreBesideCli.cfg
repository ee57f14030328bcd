SPECIFICATION FairSpec
CONSTANTS
    p1 = p1
    p2 = p2
    None = None
    Principal = {p1}
    Admin = {p1}
    Sharer = {}
    Thread = {th1}
    Cli = {cli1}
    Upload = {u1}
    Content <- MCEdgeContent
    Data <- MCData
    Claim <- MCEdgeClaim
    MaxArtifactBytes = 3
INVARIANTS StoredIsWhole LayoutFits
PROPERTIES LockReleased
