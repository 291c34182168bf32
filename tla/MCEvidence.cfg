CONSTANTS
    NoRequest = NoRequest
    c1 = c1
    c2 = c2
    aws = aws
    ssh = ssh
    Connections = {c1, c2}
    Scenarios <- Small
SPECIFICATION Spec
SYMMETRY Symmetric
INVARIANTS
    TrailTypeOK
    DenialsAccountedFor
    ContainmentOwned
    ClaimsBacked
    ApprovalsMatch
