SPECIFICATION Spec
CONSTANTS
    Buffers <- SampleBuffers
    MaxNesting = 2
    Longer = {}
    Entries <- AllEntries
INVARIANT
    ValidLengthsMatch
