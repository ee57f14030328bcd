SPECIFICATION Spec
CONSTANTS
    p1 = p1
    p2 = p2
    None = None
    Principal = {p1, p2}
    Admin = {}
    Sharer = {p1}
    Thread = {th1}
    Cli = {cli1}
    Upload = {u1}
    Content <- MCOneContent
    Data <- MCData
    Claim <- MCClaim
    MaxArtifactBytes = 3
INVARIANTS OwnerIsUploader
