SPECIFICATION Spec
CONSTANTS
    None = None
    Orphan = Orphan
    race = race
    priced = priced
    free = free
    Users = {u1}
    Regs = {r1, r2}
    Calls = {k1, k2}
    Workers = {w1}
    Events <- MCEvents
    Categories <- MCBoth
    EventOf <- MCEventOfBoth
    FreeCategories <- MCFree
    Keys = {key1}
    Providers = {"mock"}
    MaxCapacity = 1
    ClaimLimit = 1
    Ops = {"register", "cancel"}
    Settlements = {"exact"}
    Faults = {"call", "redis", "db"}
SYMMETRY Symmetry
ACTION_CONSTRAINT OrganiserIdle
INVARIANTS TypeOK LockBelief
PROPERTIES ImplementsStore OutcomesStand
CHECK_DEADLOCK FALSE
