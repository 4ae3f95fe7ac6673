CONSTANTS
    Regs = 2
    Pointers = {0}
    MaxTransfers = 1
    MaxWrite = 0
    MaxRead = 2
    Generations = 3
    MaxCount = 0
SPECIFICATION Spec
INVARIANT ReadIsConsistent
