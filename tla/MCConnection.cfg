SPECIFICATION FairSpec
CONSTANTS
    MaxFrames = 1
    Faults <- SomeFaults
    MaxSentences = 1
    MaxAborts = 1
    MaxAudio = 1
    MaxLag = 2
    Throwing <- SomeThrow
PROPERTIES
    ImplementsSpeechInput
    ImplementsSpeechOutput
    ImplementsDialogue
    ReleaseDestroys
