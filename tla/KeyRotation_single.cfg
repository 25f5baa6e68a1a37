\* One manager, whose requests are always answered; two concurrent writers.
SPECIFICATION FairSpec
CONSTANTS
    Managers = {m1}
    Writers = {w1, w2}
    LegacyWriters = {}
    Restorers = {}
    Impatient = {}
    LegacyManagers = {}
    Outdated = {}
    Refs = {r1, r2, r3, r4}
    Vers = {v1, v2}
    None = None
    MaxEpoch = 3
    MaxFaults = 1
INVARIANTS TypeOK VersionsRecoverable CompleteMeansReencrypted NodeServesCurrentVersion NoForkedHistory
PROPERTIES NewContentUnderLiveKey KeepsPromise RunsEnd
CHECK_DEADLOCK FALSE
