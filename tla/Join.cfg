SPECIFICATION Spec
CONSTANTS
    s1 = s1
    s2 = s2
    s3 = s3
    c1 = c1
    c2 = c2
    Swarms = {s1, s2, s3}
    Creators = {c1, c2}
    Trusted = {c1}
    Affinity <- MCAffinity
    Garbled = {s3}
    MinAffinity = 1
    MaxSwarms = 1
    MaxCache = 2
    Ttl = 2
    Day = 1
    MaxPerCreator = 2
    MaxPerSession = 3
    MaxTime = 2
    Servers = {v1, v2}
    Manifest <- MCManifest
    Others <- MCOthers
    ChunkSize = 2
    RateLimit = 2
    RateWindow = 1
    MaxNonce = 2
    MaxClock = 2
    MaxUpdates = 2
    TofuIds = {i1, i2}
    Keys = {k1, k2}
    MaxRestarts = 2
    r1 = r1
    r2 = r2
    n1 = n1
    Runs = {r1, r2}
    NodeIds = {n1}
    IdOf <- MCIdOf
    Rounds = 2
    Every = 2
    NoRun = NoRun
    Self = self
    Peers = {p, q}
    Compatible = {p, q}
    NoPeer = none
    ViewSize = 1
    ShuffleLength = 2
    MaxAge = 2
    Senders = {s, t}
    UpdateRounds = {1, 2}
    MaxRoundSkip = 1
    MaxLocal = 1
    UpdateTasks = {h1, h2}
SYMMETRY Symmetry
INVARIANTS QuotaHolds ExchangeSound OneKey  KnownAgree
PROPERTIES SeenOnlyGrows 
CHECK_DEADLOCK FALSE
