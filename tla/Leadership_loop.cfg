SPECIFICATION LeadershipSpec
CONSTANTS
    a = a
    b = b
    c = c
    d = d
    Servers = {a, b, c, d}
    NoServer = NoServer
    Addresses = {1, 2, 3}
    FirstPeers <- Three
    Candidates = {a, b}
    MaxTerms = 2
    MaxFaults = 1
    MaxChanges = 2
INVARIANTS
    SchedulerHasLoop
PROPERTIES
    DeposedStops
    LeaderSchedules
    PeersFollowMembers
CHECK_DEADLOCK FALSE
