SPECIFICATION HourlySpec
CONSTANTS
    ResultIds = {1, 2}
    Contents = {1, 2}
    MaxTime = 4
    Retention = 1
    AckMaxAge = 0
    Tolerance = 0
    Faults = {}
    MaxFaults = 0
    MaxWorkerFaults = 0
    WorkerSkew = 0
    AckWindow = 14
    Opportunity <- NextHours
    Deadline <- DueAt4
INVARIANTS FirstObservationKept PrunedIsObserved FactsKept
