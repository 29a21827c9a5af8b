SPECIFICATION SSpec
CONSTANTS
    MaxIds = 2
    Rounds = {1, 2}
    Keeps = {1}
    Options <- MCOptions
    MaxCrashes = 1
PROPERTIES ResumeFindsCheckpoint
