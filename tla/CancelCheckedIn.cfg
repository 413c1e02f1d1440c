SPECIFICATION Spec
CONSTANTS
    None = None
    Orphan = Orphan
    race = race
    priced = priced
    free = free
    Users = {u1}
    Regs = {r1}
    Calls = {k1, k2}
    Workers = {w1}
    Events <- MCEvents
    Categories <- MCBoth
    EventOf <- MCEventOfBoth
    FreeCategories <- MCFree
    Keys = {}
    Providers = {"mock"}
    MaxCapacity = 1
    ClaimLimit = 1
    Ops = {"register", "cancel", "checkin"}
    Settlements = {"exact"}
    Faults = {}
SYMMETRY Symmetry
PROPERTIES CheckedInIsKept
CHECK_DEADLOCK FALSE
