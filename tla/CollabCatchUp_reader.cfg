\* A log of up to two pages, a broken socket and the catch-up it leaves behind.
SPECIFICATION FairSpec
CONSTANTS
    PageSize = 2
    MaxSeq = 3
    MaxFaults = 1
INVARIANTS NoGapUnlessLapped
PROPERTIES Converges
CHECK_DEADLOCK FALSE
