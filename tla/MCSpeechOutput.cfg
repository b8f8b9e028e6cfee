SPECIFICATION FairSpec
CONSTANTS
    MaxSentences = 3
    MaxAborts = 2
    MaxAudio = 1
    MaxLag = 2
    Throwing <- AllThrow
INVARIANTS
    TypeOK
    AbortSilencesWhatWasPushed
    StopIsNeverLate
PROPERTIES
    FramesFitTheSession
    SubtitlesFollowTheSpeech
    AbortIsAnswered
    SessionEnds
    EverySentenceIsShown
