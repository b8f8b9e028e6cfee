SPECIFICATION FairSpec
CONSTANTS
    MaxHandlers = 2
    MaxSentences = 3
INVARIANTS
    TypeOK
    
PROPERTIES
    EveryUtteranceIsHandled
