SPECIFICATION Spec
CONSTANTS
    Transfers = {t1, t2}
    Key <- MCKey
    Sender <- MCSender
    N = 2
    Window = 1
    MaxAttempts = 1
    MaxNack = 2
    MaxPerPeer = 1
    MaxTotal = 2
    MaxHeld = 2
    Undecodable = {t2}
    Ahead = {}
    NetCap = 1
INVARIANT KeyNamesRunning
PROPERTY KeepsPromise
CONSTRAINT MostlyCalm
CHECK_DEADLOCK FALSE
