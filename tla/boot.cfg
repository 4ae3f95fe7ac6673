CONSTANTS
    a = a
    b = b
    big = big
    Images = {a, b, big}
    Size <- MCSize
    Bootable = {a}
    Slot = 2
    MaxLen = 1
    OffMod = 5
    AttemptMod = 3
    Limit = 2
    Roles = {"unset", "tx"}
    BadRoles = {}
    NoImage = NoImage
    NoMeta = NoMeta
    Erased = Erased
    Garbage = Garbage
    Ccfg = Ccfg
SPECIFICATION FairSpec
VIEW DeviceView
INVARIANTS
    TypeOK
    NamedImageIsIntact
    FailureLimit
    RunningIsTracked
PROPERTY CrashLoopEnds
