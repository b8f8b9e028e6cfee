SPECIFICATION Spec
CONSTANTS
    Durations <- MCDurations
    MaxPackets = 4
INVARIANTS
    TypeOK
    RegularPacketsFit
    AudioIsTheSpeech
PROPERTIES
    SynthesisEnds
