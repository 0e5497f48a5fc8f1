\* 32 and 64 bits are 11 and 22 bits, the widest of which TLC can multiply by
\* 1000; a Decimal128 has four digits; documents nest two levels deep.
SPECIFICATION Spec
CONSTANTS
    Queries <- SmallQueries
    MaxNesting = 2
    IndexOf <- SmallIndexes
    Int32Max = 1023
    Int64Max = 2097151
    Spacing = 1024
    MaxDigits = 4
INVARIANTS
    TypeOK
    FindsExactlyThePath
    KeysAreTheShortPaths
    TextAndTypeTellTheLeaf
    PartsAreWhereTheyWere
    PartsKeepTheirValue
CHECK_DEADLOCK FALSE
