SPECIFICATION QuietSpec
CONSTANTS
    ResultIds = {1, 2}
    Contents = {1}
    MaxTime = 3
    Retention = 9
    AckMaxAge = 3
    Tolerance = 0
    Faults = {"crash", "recovery_crash"}
    MaxFaults = 2
PROPERTIES RepairRestoresPointer
