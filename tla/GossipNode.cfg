SPECIFICATION FairSpec
CONSTANTS
    HasManifest = TRUE
    Fallback = TRUE
    UseCyclon = TRUE
    HasTelemetry = TRUE
    Budget = 1
    MaxRound = 1
    Clients = {k1}
    NoClient = NoClient
INVARIANTS TransportMatchesMode 
PROPERTIES TrainReturns
