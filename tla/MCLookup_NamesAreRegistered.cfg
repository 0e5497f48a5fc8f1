SPECIFICATION Spec
CONSTANTS
    Queries <- SmallQueries
    MaxNesting = 2
    IndexOf <- SmallIndexes
    Int32Max = 1023
    Int64Max = 2097151
    Spacing = 1024
    MaxDigits = 4
INVARIANT NamesAreRegistered
CHECK_DEADLOCK FALSE
