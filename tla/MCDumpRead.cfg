\* Three documents at most fit a batch, so that a batch can overflow.
SPECIFICATION Spec
CONSTANTS
    Paths <- TwoPaths
    MaxDocs = 2
    MaxGens = 1
    MaxCalls = 2
    Capacity = 3
INVARIANTS
    TypeOK
    LosesOnlyTheUnseen
    RowsAreWholeDocuments
    RowsInOrder
    OneAnswerThenEnd
PROPERTY
    EveryCallIsAnswered
CHECK_DEADLOCK FALSE
