SPECIFICATION FairSpec
CONSTANTS
    MaxFrames = 3
    Faults <- AllFaults
INVARIANTS
    TypeOK
    SpeechWillEnd
PROPERTIES
    ImplementsTranscript
    EveryFrameSettles
    ReleaseEndsAsrLoop
