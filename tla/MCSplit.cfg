\* Streams of up to three parts, sound and unsound, and every kind of tail.
SPECIFICATION SeqSpec
CONSTANTS
    Buffers <- MixedStreams
    MaxNesting = 2
    Entries <- OnlyValidateOne
    MaxCalls = 3
INVARIANTS
    SplitTypeOK
    RowsTile
    RowsStandAlone
    OneBatchThenEnd
    StopsWhereNoDocumentBegins
PROPERTIES
    ImplementsFraming
    ProducerReturns
