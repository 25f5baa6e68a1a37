\* One node, two users, four requests: every interleaving of two node, team and organisation rotations.
SPECIFICATION Spec
CONSTANTS
    Users = {o, u1}
    Owner = o
    Legacy = {u1}
    Nodes = {n1}
    Team = Team
    Org = Org
    None = None
    MaxEpoch = 2
    MaxGen = 2
    MaxRequests = 4
INVARIANTS TypeOK RowsOpenUnlessOvertaken FrozenWhileExposed
CHECK_DEADLOCK FALSE
