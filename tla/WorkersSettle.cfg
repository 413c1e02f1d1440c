SPECIFICATION WorkersSpec
CONSTANTS
    None = None
    Orphan = Orphan
    race = race
    priced = priced
    free = free
    Users = {u1}
    Regs = {r1}
    Calls = {k1}
    Workers = {w1}
    Events <- MCEvents
    Categories <- MCPriced
    EventOf <- MCEventOfPriced
    FreeCategories = {}
    Keys = {}
    Providers = {"bakong"}
    MaxCapacity = 1
    ClaimLimit = 1
    Ops = {"register", "verify"}
    Settlements = {"exact"}
    Faults = {"provider", "worker"}
    NoItem = NoItem
    MaxAttempts = 2
    LoopFaults = {"crash", "db", "redis"}
    Notes = {n1, n2}
    Mailers = {m1}
    Deliveries = {d1, d2}
    Senders = {s1}
    DeliveryBatch = 2
    Autos = {a1}
    Runners = {e1, e2}
    Schedulers = {s1}
    AutomationBatch = 1
    EditBound = 2
INVARIANTS
    MailedOnce
    PostedOnce
    SentReachedListed
PROPERTIES
    ReservationsResolve
    TransfersAreSettled
    MessagesSettle
    FinishedIsFinal
    OnlyProcessingAnnounces
    ScheduledSettles
CHECK_DEADLOCK FALSE
