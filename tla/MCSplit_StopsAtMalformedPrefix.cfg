SPECIFICATION SeqSpec
CONSTANTS
    Buffers <- MixedStreams
    MaxNesting = 2
    Entries <- OnlyValidateOne
    MaxCalls = 3
INVARIANT
    StopsAtMalformedPrefix
