CONSTANTS
    Regs = 2
    Pointers = {2, 5}
    MaxTransfers = 2
    MaxWrite = 3
    MaxRead = 2
    Generations = 2
    MaxCount = 1
SPECIFICATION FairSpec
INVARIANTS TypeOK DumpLineIsOneTransaction ReadFromOnePublication ScanReadsZero LoopbackReadsBack
PROPERTY SlotDrains
