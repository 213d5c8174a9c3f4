SPECIFICATION CleanedSpec
CONSTANTS
    NoJob = NoJob
    Foreign = {}
    Jobs = {j1}
    Readers = {r1}
    Keys = {k1}
    Operations = {"upsert"}
    AutoCompactFiles = 1
    MaxWrites = 2
    MaxCrashes = 0
    MaxFaults = 0
PROPERTIES FreshPathsAvoided
