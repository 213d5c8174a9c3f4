SPECIFICATION AcceptSpec
CONSTANTS
    ResultIds = {1, 2}
    Contents = {1, 2}
    MaxTime = 3
    Retention = 9
    AckMaxAge = 3
    Tolerance = 0
    Faults = {"crash"}
    MaxFaults = 1
INVARIANTS FirstTimesKept ServedDetailExists
PROPERTIES ImplementsLog RepairRestoresPointer
