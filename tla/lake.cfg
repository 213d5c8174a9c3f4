SPECIFICATION UsedSpec
CONSTANTS
    NoJob = NoJob
    Foreign = {}
    Jobs = {j1, j2}
    Readers = {r1}
    Keys = {k1, k2}
    Operations = {"append", "upsert", "replace", "compact", "direct", "repair", "merge", "seed"}
    AutoCompactFiles = 1
    MaxWrites = 3
    MaxCrashes = 1
    MaxFaults = 2
    MinuteLength = 2
    Lookback = 3
    HotHours = 3
    MinFiles = 2
    MaxInstant = 7
    MaxTrades = 2
    MaxMerges = 1
    MaxFailures = 1
SYMMETRY Symmetry
INVARIANTS CommittedOnDisk CommittedVisible NoDuplicates ReadIsOneMoment MinuteWhole ArchivedOffered
