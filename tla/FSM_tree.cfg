SPECIFICATION Spec
CONSTANTS
    a = a
    b = b
    c = c
    d = d
    n1 = n1
    JobNames = {a, b, c, d}
    NoParent = NoParent
    NoJob = NoJob
    Schedules <- SchedulesTree
    NoSchedule = ""
    Configs <- Strings1
    Nodes = {n1}
    NamePrefixes <- NoPrefixes
    MaxExecutions = 2
    JobInputs <- CleanTreeInputs
    ExecInputs <- NoInputs
    NextTimes = {1}
    MaxCount = 0
SYMMETRY Perms
INVARIANTS
    ParentListsChild
    DependentsAreChildren
PROPERTIES
    ErrorChangesNothing
    ImplementsJobTree
