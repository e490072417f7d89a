SPECIFICATION RunsSpec
CONSTANTS
    main = main
    child = child
    ghost = ghost
    s1 = s1
    s2 = s2
    n1 = n1
    JobNames = {main, child}
    NoParent = NoParent
    NoJob = NoJob
    Schedules <- MCSchedules
    NoSchedule = ""
    Configs <- AllConfigs
    NoNode = NoNode
    Nodes = {NoNode, n1, n2}
    NamePrefixes <- NoInputs
    MaxExecutions = 100
    JobInputs <- NoInputs
    ExecInputs <- NoInputs
    NextTimes = {1}
    MaxCount = 6
    Servers = {s1}
    NoServer = NoServer
    NoCall = NoCall
    StoredJobs <- ParentJobs
    MaxRuns = 2
    MaxFires = 1
    AgentRunMaxRetries = 0
    MaxBreaks = 0
    MaxStepDowns = 0
    MaxCrashes = 0
    MaxNodeCrashes = 0
CHECK_DEADLOCK FALSE
INVARIANT DependentsWait
