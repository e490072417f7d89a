SPECIFICATION RunsSpec
CONSTANTS
    main = main
    child = child
    ghost = ghost
    s1 = s1
    s2 = s2
    n1 = n1
    JobNames = {main, child, ghost}
    NoParent = NoParent
    NoJob = NoJob
    Schedules <- MCSchedules
    NoSchedule = ""
    Configs <- AllConfigs
    NoNode = NoNode
    Nodes = {NoNode, n1}
    NamePrefixes <- NoInputs
    MaxExecutions = 100
    JobInputs <- NoInputs
    ExecInputs <- NoInputs
    NextTimes = {1}
    MaxCount = 6
    Servers = {s1, s2}
    NoServer = NoServer
    NoCall = NoCall
    StoredJobs <- GhostJobs
    MaxRuns = 6
    MaxFires = 1
    AgentRunMaxRetries = 1
    MaxBreaks = 0
    MaxStepDowns = 0
    MaxCrashes = 1
    MaxNodeCrashes = 1
CHECK_DEADLOCK FALSE
INVARIANTS
    CommandsBounded
    NoOrphanExecutions
