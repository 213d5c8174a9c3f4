SPECIFICATION QuietContextSpec
CONSTANTS
    Threads = {t1, t2}
    Publishers = {p1, p2}
    Threshold = 1
    CriticalDelay = 2
    Ahead = 2
    MaxEntries = 1
    MaxTime = 2
    MaxChanges = 1
    MaxPublishes = 2
    Clients = {t1, t2}
    Sources = {"gold", "report", "portfolio"}
    Gold = "gold"
    Report = "report"
    MaxLife = 2
    MaxResponses = 1
    MaxNow = 2
    MaxWrites = 2
    Inquirers = {t1, t2}
    Asks <- CostAsks
    Evidence <- FillsShown
    Sizes = {"small"}
    DayLength = 2
    StaleAfter = 3
    MaxEstimates = 1
    MaxHours = 5
    MaxRuns = 2
PROPERTIES CurrentContextServed
