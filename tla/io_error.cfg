SPECIFICATION QuietSpec
CONSTANTS
    ResultIds = {1, 2}
    Contents = {1}
    MaxTime = 3
    Retention = 9
    AckMaxAge = 3
    Tolerance = 0
    Faults = {"accept_io"}
    MaxFaults = 1
INVARIANTS FirstTimesKept
