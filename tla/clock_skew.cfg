SPECIFICATION BoundedSpec
CONSTANTS
    ResultIds = {1, 2}
    Contents = {1}
    MaxTime = 2
    Retention = 9
    AckMaxAge = 3
    Tolerance = 1
    Faults = {}
    MaxFaults = 0
    MaxWorkerFaults = 0
    WorkerSkew = 1
    AckWindow = 14
    Opportunity <- SameHour
    Deadline <- DueAt2
INVARIANTS Registrable
