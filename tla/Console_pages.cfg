SPECIFICATION ConsoleFairSpec
CONSTANTS
    n1 = n1
    JobNames = {1, 2}
    NoParent = 0
    NoJob = NoJob
    Schedules <- TwoSchedules
    NoSchedule = ""
    Configs <- OnOff
    Nodes = {n1}
    NamePrefixes <- None
    MaxExecutions = 2
    JobInputs <- Inputs
    ExecInputs <- None
    NextTimes = {1}
    MaxCount = 0
    Calls = {1, 2, 3}
    ClientCalls = {3}
    Threshold = 1
    JobsAtStart <- ParentAndChild
    Sessions <- AllSessions
    OutputLimit = 1
    MaxOutput = 3
INVARIANTS
    AckedIsApplied
    AcknowledgedIsShown
    OutputNotOlder
    LoggedOutSeesNothing
PROPERTIES
    ButtonsRecover
