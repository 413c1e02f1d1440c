SPECIFICATION Spec
CONSTANTS
    None = None
    Orphan = Orphan
    race = race
    priced = priced
    free = free
    Users = {u1}
    Regs = {r1}
    Calls = {k1, k2}
    Workers = {w1, w2}
    Events <- MCEvents
    Categories <- MCPriced
    EventOf <- MCEventOfPriced
    FreeCategories = {}
    Keys = {}
    Providers = {"bakong"}
    MaxCapacity = 1
    ClaimLimit = 1
    Ops = {"register", "verify", "cancel"}
    Settlements = {"exact", "other"}
    Faults = {"provider"}
SYMMETRY Symmetry
ACTION_CONSTRAINT OrganiserIdle
INVARIANTS SucceededMeansTransferred AnnouncedExactlyOnce ReservationsAreOwned
PROPERTIES LeaseIsExclusive ReconcilerKeepsSettled
CHECK_DEADLOCK FALSE
