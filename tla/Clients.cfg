SPECIFICATION ClientsSpec
CONSTANTS
    NoChoice = NoChoice
    Choices = {c1}
    Presses = {p1}
    MyRace = c1
    Attempts = 2
    PhoneRequests = 2
    SeasonRaces = 3
    PageRows = 1
    StatusChanges = 2
    RaceStatuses = {"open", "past"}
    Views = {"ahead", "past"}
    Versions = 2
    Refreshes = 2
    Ids = {a1, a2}
    WalletReads = {g1}
    NoId = NoId
    Drafts = {d1, d2}
    Links = {l1, l2}
    NoLink = NoLink
    Polls = {p1}
    EventIds = {e1}
    Items = {i1}
    Posters = {p1}
    PageLives = 2
    TabTurns = 2
    SetupRequests = 3
    NoEvent = NoEvent
    NoPoster = NoPoster
    Lines = {l1, l2}
    EditJobs = 3
    Stories = {s1, s2}
    SiteChanges = 3
    SiteRequests = 2
    LedgerReads = {r1, r2}
    Meets = {m1, m2}
    ListReads = {r1, r2}
    DeskTurns = 3
    Accounts = {a1, a2}
    Roles = {"USER", "STAFF", "SUPER_ADMIN"}
    Me = a1
    RoleRequests = {c1, c2}
    RoleBound = 3
    Entrants = {1, 2}
    PageSize = 1
    RosterOverlap = 2
    Gates = {g1, g2}
    Races = {x, y}
    GateScans = 2
    NoRace = NoRace
    StatusTabs = {All, open}
    Words = {EmptySearch, w1}
    All = All
    EmptySearch = EmptySearch
    NoAddress = NoAddress
    Contents = {d1, d2}
    Distances = {c1}
    NoDistance = NoDistance
    Blank = Blank
    Tries = 2
    Signals = {s1}
    NoSignal = NoSignal
    Loads = {1, 2}
    OfferedTypes = {"events", "registrations", "check_ins", "users"}
    RecordedTypes = {"registration", "user"}
    LogPage = 1
    LogBound = 2
    AuditAsks = 2
INVARIANTS
    PhoneIsTrue
    ConnectedIsCurrent
    FollowedStays
    LinkConnectsOnce
    FormsShowStored
    DesksAreTrue
CHECK_DEADLOCK FALSE
