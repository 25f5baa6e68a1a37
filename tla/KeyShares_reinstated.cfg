\* A rotation prepared before a revocation is applied after it.
SPECIFICATION Spec
CONSTANTS
    Users = {o, u1, u2}
    Owner = o
    Legacy = {}
    Nodes = {n1}
    Team = Team
    Org = Org
    None = None
    MaxEpoch = 2
    MaxGen = 2
    MaxRequests = 3
INVARIANTS RevokedStaysOut
CHECK_DEADLOCK FALSE
