SPECIFICATION ViewsSpec
CONSTANTS
    n1 = n1
    JobNames = {1, 2, 3, 4}
    NoParent = 0
    NoJob = NoJob
    Schedules <- SomeSchedules
    NoSchedule = ""
    Configs <- ListConfigs
    Nodes = {n1}
    NamePrefixes <- None
    MaxExecutions = 2
    JobInputs <- SomeInputs
    ExecInputs <- None
    NextTimes = {1}
    MaxCount = 0
    Groups = {0, 1, 2}
    Searches <- TwoSearches
    Picked <- OneFilter
    Clicked = {"total", "untriggered"}
    ListPerPage = 3
    DiagramPerPage = 4
    MaxChanges = 1
VIEW WithoutAnswer
INVARIANTS
    DiagramComplete
    BoxesApart
    ArrowsDown
    EmptyIsTrue
    CardsMatchLists
    GroupsTogether
    FilterMeansLabel
