SPECIFICATION RetainSpec
CONSTANTS
    ResultIds = {1, 2}
    Contents = {1, 2}
    MaxTime = 3
    Retention = 1
    AckMaxAge = 0
    Tolerance = 0
    Faults = {"crash", "prune_io", "accept_io"}
    MaxFaults = 1
INVARIANTS EvidenceKept
PROPERTIES CurrentDetailKept
