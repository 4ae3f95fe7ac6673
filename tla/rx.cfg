CONSTANTS
    Entries = 2
    Depth = 2
    MaxPackets = 5
    MaxCollisions = 1
    Burst = 3
SPECIFICATION FairSpec
INVARIANTS RingIsFifo EverySequenceAccounted StatusNotShort ReceivesWhileTimely
PROPERTIES TimelyPacketsHandled MailboxDrains
CHECK_DEADLOCK FALSE
