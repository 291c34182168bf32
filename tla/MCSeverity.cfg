CONSTANTS
    NoRequest = NoRequest
    c1 = c1
    c2 = c2
    aws = aws
    ssh = ssh
    Connections = {c1}
    Scenarios <- TwoDecoys
SPECIFICATION Spec
INVARIANTS
    RecordedSeverityControls
