SPECIFICATION KSpec
CONSTANTS
    Self = self
    Peers = {p1, p2}
    Losses = {0, 3}
    Interval = 2
    ThresholdNum = 1
    ThresholdDen = 2
    LossTolerance = 1
    MinPeers = 3
    MaxRoundAhead = 2
    KeepRounds = 2
    MaxRound = 4
    PeerRounds = {3, 6}
SYMMETRY Symmetry
INVARIANT CheckpointsAreSpaced
CHECK_DEADLOCK FALSE
