SPECIFICATION Spec
CONSTANTS
    Answers <- MCAnswers
    MaxCuts = 1
    MaxReads = 2
INVARIANTS
    TypeOK
    AnswerIsWhole
    NothingIsRepeated
PROPERTIES
    AnswerEnds
