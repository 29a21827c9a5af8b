SPECIFICATION Spec
CONSTANTS
    Nodes = {"n1", "n2", "n3"}
    Swarms = {"s1", "s2"}
    Viewers = {"v1"}
    MaxNodes = 2
    MaxEvents = 1
    MaxRounds = 1
    MaxEdges = 1
    QueueCap = 1
    MaxCrashes = 1
    Self = "n1"
    MySwarm = "s1"
    Peers = {"n2"}
    EventKinds = {"model_sent"}
    OtherReports <- MCOthers
    MaxEmit = 2
    MaxOther = 2
    MaxWaiting = 1
    MaxPending = 1
    MaxAttempts = 1
INVARIANTS StoreConsistent 
 
