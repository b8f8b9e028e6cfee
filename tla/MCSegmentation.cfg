SPECIFICATION Spec
CONSTANTS
    Pieces <- MCPieces
    MaxBytes = 15
    SizeMax = 256
INVARIANTS
    SentencesAreTheAnswer
    NoCharacterIsCut
