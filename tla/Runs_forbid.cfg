SPECIFICATION RunsSpec
CONSTANTS
    main = main
    child = child
    ghost = ghost
    s1 = s1
    s2 = s2
    n1 = n1
    JobNames = {main}
    NoParent = NoParent
    NoJob = NoJob
    Schedules <- MCSchedules
    NoSchedule = ""
    Configs <- AllConfigs
    NoNode = NoNode
    Nodes = {NoNode, n1}
    NamePrefixes <- NoInputs
    MaxExecutions = 100
    JobInputs <- NoInputs
    ExecInputs <- NoInputs
    NextTimes = {1}
    MaxCount = 6
    Servers = {s1, s2}
    NoServer = NoServer
    NoCall = NoCall
    StoredJobs <- ForbidJob
    MaxRuns = 2
    MaxFires = 2
    AgentRunMaxRetries = 0
    MaxBreaks = 0
    MaxStepDowns = 1
    MaxCrashes = 1
    MaxNodeCrashes = 0
CHECK_DEADLOCK FALSE
INVARIANTS
    RunsTypeOK
    ActiveHasTask
    ForbidHolds
