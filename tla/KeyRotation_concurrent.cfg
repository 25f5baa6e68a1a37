\* Two managers, one that leaves requests behind and one of an older client whose share
\* row may be outdated; an outdated writer, a restorer and a server crash.
SPECIFICATION Spec
CONSTANTS
    Managers = {m1, m2}
    Writers = {w1}
    LegacyWriters = {}
    Restorers = {x1}
    Impatient = {m1}
    LegacyManagers = {m2}
    Outdated = {m2, w1}
    Refs = {r1, r2, r3, r4}
    Vers = {v1}
    None = None
    MaxEpoch = 3
    MaxFaults = 1
SYMMETRY Symmetry
INVARIANTS VersionBlobsExist StampsNeverLag StampedRecoverable
CHECK_DEADLOCK FALSE
