CONSTANTS
    a = a
    b = b
    big = big
    Images = {a, b}
    Size <- MCSize
    Bootable = {a}
    Slot = 2
    MaxLen = 1
    OffMod = 5
    AttemptMod = 3
    Limit = 2
    Roles = {"unset", "tx"}
    BadRoles = {"other"}
    NoImage = NoImage
    NoMeta = NoMeta
    Erased = Erased
    Garbage = Garbage
    Ccfg = Ccfg
SPECIFICATION Spec
INVARIANT InstalledWasAccepted
