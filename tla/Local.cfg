SPECIFICATION Spec
CONSTANTS
    N = 3
    Weights <- MCWeights
    Bases <- MCBases
    Configs <- MCConfigs
    Narrow = 4
    NoBase = NoBase
    MaxCalls = 2
    Cases <- MCCases
    NumByzantines = 1
    TrimNum = 1
    TrimDen = 5
    StaleCoef = 2
    CurrentRound = 0
    LossValues = {2, 3, 4, 7}
    Accuracies = {0, 2}
    MinDelta = 1
    Patience = 2
    WindowSize = 3
    TargetLoss = 1
    TargetAccuracy = 4
    Infinity = 99
    MaxRounds = 5
    Self = self
    Peers = {p1, p2}
    Losses = {0, 3}
    Interval = 2
    ThresholdNum = 1
    ThresholdDen = 2
    LossTolerance = 1
    MinPeers = 3
    MaxRoundAhead = 2
    KeepRounds = 1
    MaxRound = 3
    PeerRounds = {2, 3}
    MaxIds = 3
    Rounds = {1, 2}
    Keeps = {0, 1, 2}
    Options <- MCOptions
    MaxCrashes = 1
    Nodes = {1, 2, 3, 4, 5, 6}
    Meta <- MCMeta
    NoManifest = 0
    Strategies = {"random", "ring", "regular", "world", "reliable", "hybrid", "affinity"}
    Scores <- MCScores
    NoScore = NoScore
    Reliable <- MCReliable
    CacheDuration = 2
    Degree = 2
    LocalPercent = 67
    MinScore = 30
    InitialRatio = 80
    RatioDecay = 50
    MinRatio = 10
    Alpha = 50
    EdgeDecay = 50
    MinWeight = 5
    MaxEdges = 2
    LogCap = 2
SYMMETRY Symmetry
INVARIANTS   StopsOnPlateau ConsensusNeedsPeers  
PROPERTIES NewestSurvives SelectionSound
CHECK_DEADLOCK FALSE
