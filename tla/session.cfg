CONSTANTS
    a = a
    b = b
    Images = {a, b}
    Size <- MCSize
    Bootable = {a, b}
    Slot = 2
    MaxLen = 1
    OffMod = 5
    AttemptMod = 4
    Limit = 3
    Roles = {"unset", "rx", "tx"}
    BadRoles = {}
    NoImage = NoImage
    NoMeta = NoMeta
    Erased = Erased
    Garbage = Garbage
    Ccfg = Ccfg
    Pkg = a
    Role = "tx"
    Commands = {"flash", "setRole"}
    Retries = 3
    ProbeRetries = 1
    RebootRetries = 2
    SeqMod = 6
    Budget <- MCBudget
    MaxLost = 1
    MaxLate = 1
    MaxFlash = 1
    MaxPower = 1
    MaxRerun = 1
SPECIFICATION FairSession
INVARIANTS
    CompleteMeansInstalled
    HostNotAhead
PROPERTIES
    SessionEnds
    TransferSucceeds
