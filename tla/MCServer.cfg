SPECIFICATION FairServer
CONSTANTS
    Clients = {c1, c2}
    MaxThreads = 2
    MaxPredictions = 2
INVARIANTS
    TypeOK
    OnlyOverlapsSpoilTheDetector
PROPERTIES
    NobodyWaitsForTheSilent
