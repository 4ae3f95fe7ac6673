CONSTANTS
    N = 2
    SeqHalf = 12
    Values <- MCValues
    Erased = Erased
    Garbage = Garbage
    None = None
SPECIFICATION Spec
INVARIANTS ConfirmedOnceWhenReady JournalSurvives AloneIsDurable TxHasRadio
CHECK_DEADLOCK FALSE
