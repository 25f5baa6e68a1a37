\* Flaky manager, a revocation, a broken socket or insert, inserts one at a time.
SPECIFICATION Spec
CONSTANTS
    Clients = {c1}
    Managers = {m1}
    Flaky = {m1}
    Slow = {}
    Closers = {}
    Edits = {e1, e2}
    MaxInserts = 1
    MaxEpoch = 3
    MaxSeq = 4
    MaxSockets = 2
    MaxFaults = 1
    MaxRevocations = 1
SYMMETRY Symmetry
INVARIANTS TypeOK NoEditLost WrittenUnderLiveKey LogRecoverable
PROPERTIES KeepsEdits
CHECK_DEADLOCK FALSE
