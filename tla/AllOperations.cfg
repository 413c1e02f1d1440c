SPECIFICATION Spec
CONSTANTS
    None = None
    Orphan = Orphan
    race = race
    priced = priced
    free = free
    Users = {u1}
    Regs = {r1}
    Calls = {k1, k2}
    Workers = {w1}
    Events <- MCEvents
    Categories <- MCBoth
    EventOf <- MCEventOfBoth
    FreeCategories <- MCFree
    Keys = {}
    Providers = {"manual", "bakong"}
    MaxCapacity = 1
    ClaimLimit = 1
    Ops = {"register", "cancel", "checkin", "verify", "submit", "review"}
    Settlements = {"exact", "other"}
    Faults = {"call", "worker", "provider", "db", "redis", "redeploy"}
SYMMETRY Symmetry
ACTION_CONSTRAINT OrganiserIdle
INVARIANTS CheckedInHasTicket
PROPERTIES SubmittedAwaitsReview
CHECK_DEADLOCK FALSE
