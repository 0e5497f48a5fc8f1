\* Every function and choice of arguments, on every column of up to three cells
\* and every way to cut it into batches; a u32 has four bits.
SPECIFICATION Spec
CONSTANTS
    Calls <- AllCalls
    Cells <- AllCells
    MaxCells = 3
    U32Max = 15
INVARIANTS
    TypeOK
    ModesAreRefusedAtBind
    RowsAnswerTheirCells
    StopsExactlyAtMisfits
CHECK_DEADLOCK FALSE
