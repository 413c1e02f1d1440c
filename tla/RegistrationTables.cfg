SPECIFICATION StoreSpec
CONSTANTS
    None = None
    race = race
    priced = priced
    free = free
    Users = {u1, u2}
    Regs = {r1, r2}
    Workers = {w1}
    Events <- MCEvents
    Categories <- MCCategories
    EventOf <- MCEventOf
    FreeCategories <- MCFree
    Providers = {"manual", "bakong"}
    MaxCapacity = 1
    ClaimLimit = 1
SYMMETRY Symmetry
INVARIANTS OneActivePerEvent TicketMatchesStatus ConfirmedIsPaid
PROPERTIES NeverOversells SeatsAreNotRevived ImplementsLedger
CHECK_DEADLOCK FALSE
