SPECIFICATION Spec
CONSTANTS
    None = None
    Orphan = Orphan
    race = race
    priced = priced
    free = free
    Users = {u1}
    Regs = {r1, r2}
    Calls = {k1}
    Workers = {w1}
    Events <- MCEvents
    Categories <- MCPriced
    EventOf <- MCEventOfPriced
    FreeCategories = {}
    Keys = {}
    Providers = {"bakong"}
    MaxCapacity = 1
    ClaimLimit = 1
    Ops = {"register"}
    Settlements = {"exact"}
    Faults = {}
SYMMETRY Symmetry
PROPERTIES SettledNeverExpires
CHECK_DEADLOCK FALSE
