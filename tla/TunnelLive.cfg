SPECIFICATION Spec
CONSTANTS
    a = a
    b = b
    a1 = a1
    a2 = a2
    b1 = b1
    Nodes = {a, b}
    Streams = {a1, a2, b1}
    Owner <- MCOwner
    None = None
    MaxTunnels = 2
    QueueCap = 1
    UpCap = 1
    MaxIdle = 0
    Posts = {}

PROPERTIES RegisteredAgain ClosedLeaves
CHECK_DEADLOCK FALSE
