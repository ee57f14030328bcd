SPECIFICATION Spec
CONSTANTS
    p1 = p1
    p2 = p2
    None = None
    Principal = {p1, p2}
    Admin = {}
    Sharer = {p1}
    Thread = {th1, th2}
    Cli = {}
    Upload = {u1}
    Content <- MCContent
    Data <- MCData
    Claim <- MCClaim
    MaxArtifactBytes = 3
SYMMETRY Symmetry
INVARIANTS OwnerIsUploader AcknowledgedBytes
PROPERTIES UploadOutcomeFinal
