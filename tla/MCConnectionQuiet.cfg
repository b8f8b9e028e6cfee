SPECIFICATION FairSpec
CONSTANTS
    MaxFrames = 1
    Faults <- NoFaults
    MaxSentences = 1
    MaxAborts = 0
    MaxAudio = 1
    MaxLag = 2
    Throwing <- NothingThrows
PROPERTIES
    QuietConnectionCloses
