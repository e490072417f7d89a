SPECIFICATION SyncSpec
CONSTANTS
    a = a
    b = b
    n1 = n1
    JobNames = {a}
    NoParent = NoParent
    NoJob = NoJob
    Schedules <- MCSchedules
    NoSchedule = ""
    Configs <- MCConfigs
    Nodes = {n1}
    NamePrefixes <- None
    MaxExecutions = 2
    JobInputs <- OneJobInputs
    ExecInputs <- None
    NextTimes = {2}
    MaxCount = 0
    Calls = {c1, c2}
    Boot = Boot
    MaxInFlight = 2
    MaxEntries = 4
CHECK_DEADLOCK FALSE
INVARIANTS
    OneEntryPerJob
