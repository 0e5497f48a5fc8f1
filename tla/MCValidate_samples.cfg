\* Documents of every element type, cut, damaged and followed by other bytes, and
\* every body of up to five bytes over a small alphabet after right and wrong
\* length prefixes.
SPECIFICATION Spec
CONSTANTS
    Buffers <- AllBuffers
    MaxNesting = 2
    Longer <- SmallBuffers
    Entries <- AllEntries
INVARIANTS
    TypeOK
    IndexesInBounds
    BoundedDepth
    AcceptedIsFramed
    AcceptsExactlyTheGrammar
    TrailingBytesExactly
    OtherErrorsAreFinal
PROPERTIES
    OverreachIsFatal
    Progress
    Termination
