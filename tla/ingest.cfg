SPECIFICATION IngestSpec
CONSTANTS
    fill = fill
    order = order
    MaxBundle = 3
    MaxInterrupts = 3
    Events = {fill, order}
    Reports <- Windows
    DayOf <- BundleDays
    Channels = {"trades", "books5"}
    Feeds <- MessageFeeds
    FlushMax = 3
    MaxAttempts = 1
    MaxErrors = 3
    NoJob = NoJob
    Foreign = {j3}
    Jobs = {j1, j2, j3}
    WindowStart = 0
    WindowEnd = 4
    MinBars = 4
    PageLimit = 2
    MaxPages = 3
    HistoryPages = 1
    RepairPages = 2
    LastHour = 4
    MaxOutages = 1
    hot1 = hot1
    hot2 = hot2
    hot3 = hot3
    red1 = red1
    red2 = red2
    HotFiles = {hot1, hot2, hot3}
    FileDay <- HotDays
    LastDay = 3
    Pruners = {p1, p2}
    NoPruner = NoPruner
    MaxMishaps = 1
    Redacted = {red1, red2}
    RedactedDay <- RedactedDays
    EndDay = 3
    KeepDays = 2
    Removers = {p1, p2}
    NoRemover = NoRemover
    MaxTroubles = 1
INVARIANTS BundlesKept CountedOnce DeliveredOnce OneWriter
PROPERTIES IngestedOrOvertaken TakenOver HistoryCovered NoGapMade RemovedOnceArchived MovedIsArchived RedactedRemovedOnceArchived PackedIsArchived
