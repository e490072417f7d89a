SPECIFICATION Spec
CONSTANTS
    a = a
    b = b
    c = c
    d = d
    n1 = n1
    JobNames = {a, b}
    NoParent = NoParent
    NoJob = NoJob
    Schedules <- SchedulesCount
    NoSchedule = ""
    Configs <- Strings1
    Nodes = {n1}
    NamePrefixes <- NoPrefixes
    MaxExecutions = 1
    JobInputs <- CountInputs
    ExecInputs <- CountExecs
    NextTimes = {2}
    MaxCount = 2
INVARIANTS
    TypeOK
    SuccessesCounted
PROPERTIES
    CountersNeverDrop
    ResultsNeverRevert
    NoOrphanCounters
