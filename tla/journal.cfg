CONSTANTS
    N = 2
    SeqHalf = 5
    Values = {v1, v2}
    Erased = Erased
    Garbage = Garbage
    NoRecord = NoRecord
    NoValue = NoValue
    EraseCanTear = TRUE
SPECIFICATION MCSpec
INVARIANTS
    TypeOK
    ReadsLastCommitted
    NoEqualSequence
    ProgramsErasedCells
    LoopFindsNewest
    StaleRecordsBounded
PROPERTY AtomicStore
SYMMETRY ValueSymmetry
