\* Two rotations whose compactions succeed, a document that may be closed, fairness.
SPECIFICATION FairSpec
CONSTANTS
    Clients = {c1}
    Managers = {m1}
    Flaky = {}
    Slow = {}
    Closers = {c1}
    Edits = {e1}
    MaxInserts = 1
    MaxEpoch = 3
    MaxSeq = 5
    MaxSockets = 8
    MaxFaults = 0
    MaxRevocations = 0
PROPERTIES EditsReachLog
CHECK_DEADLOCK FALSE
