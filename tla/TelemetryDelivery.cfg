SPECIFICATION FairSpec
CONSTANTS
    Nodes = {"n1", "n2"}
    Swarms = {"s1"}
    Viewers = {}
    MaxNodes = 2
    MaxEvents = 1
    MaxRounds = 1
    MaxEdges = 1
    QueueCap = 1
    MaxCrashes = 1
    Self = "n1"
    MySwarm = "s1"
    Peers = {}
    EventKinds = {"node.started"}
    OtherReports = {}
    MaxEmit = 4
    MaxOther = 0
    MaxWaiting = 1
    MaxPending = 2
    MaxAttempts = 2
PROPERTIES  BacklogClears
