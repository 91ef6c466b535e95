SPECIFICATION FairSpec
CONSTANTS
    BUFFER_SIZE = 12
    Texts <- MCTexts
    MaxSegments = 3
INVARIANTS TypeOK TextIntact VerdictRight
PROPERTY Answered
CHECK_DEADLOCK FALSE
