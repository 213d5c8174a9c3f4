SPECIFICATION ExchangeLiveSpec
CONSTANTS
    ResultIds = {1, 2}
    Contents = {1}
    MaxTime = 2
    Retention = 9
    AckMaxAge = 3
    Tolerance = 0
    Faults = {"crash","recovery_crash"}
    MaxFaults = 2
    MaxWorkerFaults = 1
    WorkerSkew = 0
    AckWindow = 14
    Opportunity <- SameHour
    Deadline <- DueAt2
PROPERTIES CloudSpec ResultReceived AcceptedEventually CommitReported PublicationObserved
