SPECIFICATION CreatedSpec
CONSTANTS
    MaxFrames = 5
    MaxFlushes = 2
    MinPage = 2
    Durations <- MCDurations
    Weightings <- MCWeightings
    MaxUnits = 276
    MaxFaults = 1
INVARIANTS
    StateTypeOK
    OggStreamIsWellFormed
    FrameLossIsSurvived
    CentreRowsAreTheUtterance
    TokensFollowTheIntegral
PROPERTIES
    ImplementsRecogniser
    NothingIsLeft
