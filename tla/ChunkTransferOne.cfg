SPECIFICATION Spec
CONSTANTS
    Transfers = {t1}
    Key <- MCKey
    Sender <- MCSender
    N = 2
    Window = 1
    MaxAttempts = 2
    MaxNack = 1
    MaxPerPeer = 1
    MaxTotal = 2
    MaxHeld = 2
    Undecodable = {}
    Ahead = {t1}
    NetCap = 1
INVARIANTS AtMostOnce SuccessIsReal
PROPERTIES SuccessIsDelivered BuffersAreReleased SenderReturns
CHECK_DEADLOCK FALSE
