SPECIFICATION Spec
CONSTANTS
    MaxFrames = 1
    Faults <- NoFaults
    MaxSentences = 2
    MaxAborts = 1
    MaxAudio = 1
    MaxLag = 2
    Throwing <- NothingThrows
INVARIANTS
    AbortEndsTheAnswer
